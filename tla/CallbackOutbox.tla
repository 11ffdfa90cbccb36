---------------------------- MODULE CallbackOutbox ----------------------------
(***************************************************************************)
(* The status callbacks of one plan: the outbox file                       *)
(* (src/callback_outbox), the service that writes to it and sends          *)
(* (src/plan_run_service/callback_delivery.py) and the result the client   *)
(* makes of the server's answers (src/plan_item_status_callback_client).   *)
(*                                                                         *)
(* The run thread of a plan delivers each status once: it appends an item, *)
(* posts it and marks it.  A retry, which an HTTP request starts, takes    *)
(* the pending items of the file and does the same.  Both may be at work   *)
(* at once, and the process may die at any step; the file survives.        *)
(*                                                                         *)
(* Every operation on the file is one critical section of the outbox lock. *)
(* mark_failed is one such section; mark_sent is two, _find_item and       *)
(* _update_existing, and writes back the whole item it found.              *)
(***************************************************************************)
EXTENDS Integers, Sequences, FiniteSets, Functions

(* A definition Bad... is a plausible mistake in the one that follows it;   *)
(* no action uses it.  Each is a mutation under which a property fails.     *)

CONSTANTS
  Senders,     \* run threads of the plan and retries
  Callbacks,   \* the callbacks the plan produces
  Feed,        \* the items each sender delivers, in order; a retry has none
  Summaries,   \* the items that are plan summaries
  MayLackUrl,  \* resolve_callback_url may come back empty
  ChunkSize,   \* PlanItemStatusCallbackClient.MAX_BATCH_SIZE
  MaxAttempts, \* MAX_RETRY_ATTEMPTS
  MaxRetries,  \* bound on the retries started
  MaxDeaths    \* bound on the crashes of the process

\* Each delivery builds a callback of its own (its outbox_id is a new one), and
\* the handler that retries (app.py:478) runs to its end on the event loop: one
\* retry at a time.
ASSUME OutboxConstants ==
  /\ Feed \in [Senders -> Seq(Callbacks)]
  /\ \A t, u \in Senders : \A j \in DOMAIN Feed[t], k \in DOMAIN Feed[u] :
       Feed[t][j] = Feed[u][k] => t = u /\ j = k
  /\ \A t, u \in Senders : Feed[t] = <<>> /\ Feed[u] = <<>> => t = u
  /\ Summaries \subseteq Callbacks
  /\ MayLackUrl \in BOOLEAN
  /\ ChunkSize \in Nat \ {0} /\ MaxAttempts \in Nat \ {0}
  /\ MaxRetries \in Nat /\ MaxDeaths \in Nat

VARIABLES
  file,     \* the items in the outbox file, in file order
  rec,      \* their delivery metadata
  stage,    \* where a sender is
  fed,      \* items of its feed a sender has appended
  mode,     \* "batch" or "single": how a retry posts its items
  todo,     \* items a retry took from the file and has not come to yet
  group,    \* the items being posted together and then marked
  posted,   \* items of the group already posted
  error,    \* last_error of the aggregated CallbackResult
  copy,     \* the item mark_sent found
  posts,    \* how often an item was posted (history)
  got,      \* items the server received (history)
  refused,  \* items of a chunk the server refused for good (history)
  spoiled,  \* items of a batch that failed for good by another chunk (history)
  retries, deaths \* retries and crashes so far

senderVars == <<stage, fed, mode, todo, group, posted, error, copy>>
history == <<posts, got, refused, spoiled>>
outboxVars == <<file, rec, senderVars, history, retries, deaths>>

Delivery == {"PENDING", "SENT", "FAILED_RETRYABLE", "FAILED_FINAL",
             "URL_NOT_CONFIGURED"}
Metadata == [status : Delivery, attempts : Nat]

Fresh(status) == [status |-> status, attempts |-> 0]

\* What an answer amounts to: accepted, or an error that
\* classify_callback_error calls retryable or permanent.
Replies == {"none", "retryable", "permanent"}

OutboxTypeOK ==
  /\ file \in Seq(Callbacks)
  /\ rec \in [Callbacks -> Metadata]
  /\ stage \in [Senders -> {"idle", "post", "mark", "write"}]
  /\ fed \in [Senders -> Nat]
  /\ mode \in [Senders -> {"batch", "single"}]
  /\ todo \in [Senders -> Seq(Callbacks)]
  /\ group \in [Senders -> Seq(Callbacks)]
  /\ \A t \in Senders :
       /\ IsInjective(group[t]) /\ IsInjective(todo[t])
       /\ Range(group[t]) \cap Range(todo[t]) = {}
  /\ posted \in [Senders -> Nat]
  /\ error \in [Senders -> Replies]
  /\ copy \in [Senders -> Metadata]
  /\ posts \in [Callbacks -> Nat]
  /\ got \subseteq Callbacks /\ refused \subseteq Callbacks /\ spoiled \subseteq Callbacks
  /\ retries \in Nat /\ deaths \in Nat

OutboxInit ==
  /\ file = <<>>
  /\ rec = [i \in Callbacks |-> Fresh("PENDING")]
  /\ stage = [t \in Senders |-> "idle"]
  /\ fed = [t \in Senders |-> 0]
  /\ mode = [t \in Senders |-> "single"]
  /\ todo = [t \in Senders |-> <<>>]
  /\ group = [t \in Senders |-> <<>>]
  /\ posted = [t \in Senders |-> 0]
  /\ error = [t \in Senders |-> "none"]
  /\ copy = [t \in Senders |-> Fresh("PENDING")]
  /\ posts = [i \in Callbacks |-> 0]
  /\ got = {} /\ refused = {} /\ spoiled = {}
  /\ retries = 0 /\ deaths = 0

InFile == Range(file)

-----------------------------------------------------------------------------
(* What is posted next.                                                    *)

IsItem(i) == i \notin Summaries

\* How many of q are posted together: a batch takes all items of the retry, which
\* come first; single posts and summaries go one by one.
Together(m, q) ==
  IF m = "batch" /\ q # <<>> /\ IsItem(Head(q))
  THEN Cardinality({k \in DOMAIN q : IsItem(q[k])})
  ELSE IF q = <<>> THEN 0 ELSE 1

\* Start on the next group of q, or come to the end.
Proceed(t, m, q) ==
  /\ group' = [group EXCEPT ![t] = SubSeq(q, 1, Together(m, q))]
  /\ todo' = [todo EXCEPT ![t] = SubSeq(q, Together(m, q) + 1, Len(q))]
  /\ stage' = [stage EXCEPT ![t] = IF q = <<>> THEN "idle" ELSE "post"]
  /\ posted' = [posted EXCEPT ![t] = 0]
  /\ error' = [error EXCEPT ![t] = "none"]

\* The head of the group is marked: on to the next one of it, or the next
\* group.
AfterMark(t) ==
  IF Len(group[t]) > 1
  THEN /\ group' = [group EXCEPT ![t] = Tail(@)]
       /\ stage' = [stage EXCEPT ![t] = "mark"]
       /\ UNCHANGED <<todo, posted, error>>
  ELSE Proceed(t, mode[t], todo[t])

-----------------------------------------------------------------------------
(* deliver_item_status and deliver_plan_summary.                           *)

\* The item is on disk before anything is sent.  Without a URL it is kept for
\* reference and not sent.
Deliver(t) ==
  /\ stage[t] = "idle" /\ fed[t] < Len(Feed[t])
  /\ LET i == Feed[t][fed[t] + 1] IN
       /\ file' = Append(file, i)
       /\ \/ /\ rec' = [rec EXCEPT ![i] = Fresh("PENDING")]
             /\ Proceed(t, "single", <<i>>)
          \/ /\ MayLackUrl
             /\ rec' = [rec EXCEPT ![i] = Fresh("URL_NOT_CONFIGURED")]
             /\ UNCHANGED <<stage, todo, group, posted, error>>
  /\ fed' = [fed EXCEPT ![t] = @ + 1]
  /\ mode' = [mode EXCEPT ![t] = "single"]
  /\ UNCHANGED <<copy, history, retries, deaths>>

(* retry_pending_callbacks.                                                *)

\* get_pending: items not attempted yet, and failed ones whose next_retry_at
\* the clock has reached by now.
Pending(i, due) ==
  \/ rec[i].status = "PENDING"
  \/ rec[i].status = "FAILED_RETRYABLE" /\ i \in due

\* Items come before summaries, each in the order of the file.
SentBefore(i, k) ==
  \/ IsItem(i) /\ ~IsItem(k)
  \/ /\ IsItem(i) <=> IsItem(k)
     /\ \E m, n \in DOMAIN file : m < n /\ file[m] = i /\ file[n] = k

Ordered(q) == \A j, k \in DOMAIN q : j < k => SentBefore(q[j], q[k])

BeginRetry(t) ==
  /\ stage[t] = "idle" /\ Feed[t] = <<>>
  /\ retries < MaxRetries
  /\ retries' = retries + 1
  /\ \E due \in SUBSET InFile, m \in {"batch", "single"} :
       LET dueNow == {i \in InFile : Pending(i, due)} IN
       /\ dueNow # {}
       /\ \E q \in [1 .. Cardinality(dueNow) -> dueNow] : Ordered(q) /\ Proceed(t, m, q)
       /\ mode' = [mode EXCEPT ![t] = m]
  /\ UNCHANGED <<file, rec, fed, copy, history, deaths>>

-----------------------------------------------------------------------------
(* Posting: send_single, send_summary, send_batch chunk by chunk.          *)

BadAggregate(old, new) == new

\* The result of the chunks: last_error is that of the last chunk that failed, and
\* it is the error of every item of the batch.
Aggregate(old, new) == IF new = "none" THEN old ELSE new

\* The server has the items of an accepted post; it may have those of another
\* one too (a lost answer, one that cannot be parsed, a partial failure).
Post(t) ==
  /\ stage[t] = "post"
  /\ LET last == IF posted[t] + ChunkSize < Len(group[t])
                 THEN posted[t] + ChunkSize ELSE Len(group[t])
         chunk == {group[t][k] : k \in posted[t] + 1 .. last}
     IN /\ posts' = [i \in Callbacks |-> IF i \in chunk THEN posts[i] + 1 ELSE posts[i]]
        /\ posted' = [posted EXCEPT ![t] = last]
        /\ stage' = [stage EXCEPT ![t] = IF last = Len(group[t]) THEN "mark" ELSE "post"]
        /\ \E answer \in Replies, arrived \in BOOLEAN :
             /\ answer = "none" => arrived
             /\ error' = [error EXCEPT ![t] = Aggregate(@, answer)]
             /\ got' = IF arrived THEN got \cup chunk ELSE got
             /\ refused' = IF answer = "permanent"
                           THEN refused \cup chunk ELSE refused
             /\ spoiled' = IF last = Len(group[t]) /\ error'[t] = "permanent"
                           THEN spoiled \cup (Range(group[t]) \ refused') ELSE spoiled
  /\ UNCHANGED <<file, rec, fed, mode, todo, group, copy, retries, deaths>>

(* Marking: process_outbox_result.                                         *)

\* mark_sent, first critical section: _find_item.
FindItem(t) ==
  /\ stage[t] = "mark" /\ error[t] = "none"
  /\ copy' = [copy EXCEPT ![t] = rec[Head(group[t])]]
  /\ stage' = [stage EXCEPT ![t] = "write"]
  /\ UNCHANGED <<file, rec, fed, mode, todo, group, posted, error, history,
                 retries, deaths>>

\* mark_sent, second critical section: what was found is written back.
WriteSent(t) ==
  /\ stage[t] = "write"
  /\ rec' = [rec EXCEPT ![Head(group[t])] = [copy[t] EXCEPT !.status = "SENT"]]
  /\ AfterMark(t)
  /\ UNCHANGED <<file, fed, mode, copy, history, retries, deaths>>

BadExhausted(n) == n > MaxAttempts

Exhausted(n) == n >= MaxAttempts

\* mark_failed: the attempt is counted, and the last one is final.
MarkFailed(t) ==
  /\ stage[t] = "mark" /\ error[t] # "none"
  /\ LET i == Head(group[t])
         n == rec[i].attempts + 1
         final == error[t] = "permanent" \/ Exhausted(n)
     IN rec' = [rec EXCEPT ![i] =
                  [status |-> IF final THEN "FAILED_FINAL" ELSE "FAILED_RETRYABLE",
                   attempts |-> n]]
  /\ AfterMark(t)
  /\ UNCHANGED <<file, fed, mode, copy, history, retries, deaths>>

\* The process dies and starts again: every sender is gone, the file stays.
\* (A run that is started again delivers what is left of its feed.)
Crash ==
  /\ deaths < MaxDeaths
  /\ deaths' = deaths + 1
  /\ stage' = [t \in Senders |-> "idle"]
  /\ todo' = [t \in Senders |-> <<>>]
  /\ group' = [t \in Senders |-> <<>>]
  /\ UNCHANGED <<file, rec, fed, mode, posted, error, copy, history, retries>>

-----------------------------------------------------------------------------

SenderStep(t) ==
  \/ Deliver(t) \/ BeginRetry(t) \/ Post(t)
  \/ FindItem(t) \/ WriteSent(t) \/ MarkFailed(t)

OutboxNext ==
  \/ \E t \in Senders : SenderStep(t)
  \/ Crash

OutboxSpec == OutboxInit /\ [][OutboxNext]_outboxVars
-----------------------------------------------------------------------------
(* The invariant.                                                          *)

\* What a sender has in hand, and what of it has been posted.
Held(t) == Range(group[t]) \cup Range(todo[t])
Posted(t) == IF stage[t] = "post" THEN {group[t][k] : k \in 1 .. posted[t]}
             ELSE Range(group[t])

IsRetry(t) == Feed[t] = <<>>
HeldByRun(i) == \E t \in Senders : ~IsRetry(t) /\ i \in Held(t)
HeldByRetry(i) == \E t \in Senders : IsRetry(t) /\ i \in Held(t)

\* 1 for a post of i that is not marked yet.
RunPost(i) == IF \E t \in Senders : ~IsRetry(t) /\ i \in Posted(t) THEN 1 ELSE 0
RetryPost(i) == IF \E t \in Senders : IsRetry(t) /\ i \in Posted(t) THEN 1 ELSE 0

\* get_pending may return it.
Open(i) == rec[i].status \in {"PENDING", "FAILED_RETRYABLE"}

FileOK ==
  /\ IsInjective(file)
  /\ \A i \in InFile : \E t \in Senders : \E k \in 1 .. fed[t] :
       k \in DOMAIN Feed[t] /\ i = Feed[t][k]
  /\ \A i \in Callbacks \ InFile : posts[i] = 0

SenderOK(t) ==
  /\ fed[t] <= Len(Feed[t])
  /\ stage[t] = "idle" => Held(t) = {}
  /\ stage[t] # "idle" => group[t] # <<>>
  /\ stage[t] = "post" => posted[t] < Len(group[t])
  /\ Held(t) \subseteq InFile
  /\ ~IsRetry(t) /\ stage[t] # "idle" => fed[t] # 0 /\ Held(t) = {Feed[t][fed[t]]}

\* Where the answers of a sender have left its callbacks.
AnswersOK(t) ==
  /\ error[t] = "none" => Posted(t) \subseteq got
  /\ stage[t] # "post" /\ error[t] = "permanent" => Range(group[t]) \subseteq refused \cup spoiled
  /\ stage[t] = "write" => error[t] = "none"

Budget == 2 * MaxAttempts + deaths

\* What a retry is about to write back is what the file has.
CopyFresh(i) ==
  \A t \in Senders :
    IsRetry(t) /\ stage[t] = "write" /\ Head(group[t]) = i => copy[t].attempts = rec[i].attempts

\* While the run thread still has i in hand, only a retry has counted attempts:
\* each post of i is one of them, or not marked yet, or led to SENT.
PostsLive(i) ==
  /\ HeldByRetry(i) => Open(i)
  /\ Open(i) => posts[i] <= rec[i].attempts + RunPost(i) + RetryPost(i)
  /\ rec[i].status = "SENT" =>
       rec[i].attempts < MaxAttempts /\ posts[i] <= rec[i].attempts + 1 + RunPost(i)
  /\ rec[i].status = "FAILED_FINAL" =>
       rec[i].attempts <= MaxAttempts /\ posts[i] <= rec[i].attempts + RunPost(i)
  /\ rec[i].status # "URL_NOT_CONFIGURED"
  /\ CopyFresh(i)

\* Afterwards what is left of the budget covers the attempts that are left.
PostsLeft(i) ==
  /\ posts[i] <= Budget
  /\ HeldByRetry(i) /\ RetryPost(i) = 0 => posts[i] < Budget
  /\ HeldByRetry(i) \/ Open(i) =>
       posts[i] + MaxAttempts <= Budget + rec[i].attempts + RetryPost(i)

PostsOK(i) ==
  /\ Open(i) => rec[i].attempts < MaxAttempts
  /\ IF HeldByRun(i) THEN PostsLive(i) ELSE PostsLeft(i)

-----------------------------------------------------------------------------
(* Properties.                                                             *)

\* No callback is dropped silently: an item the server does not have is still
\* pending, or had no URL, or used up its attempts, or its own chunk was refused for
\* good, or that of another item of the same cut batch (callback_delivery.py:234);
\* in particular SENT means delivered, and an item posted in one chunk is given up
\* early only when the server refused it.
NoSilentDrop ==
  \A i \in InFile \ got :
    \/ rec[i].status \in {"PENDING", "FAILED_RETRYABLE", "URL_NOT_CONFIGURED"}
    \/ rec[i].status = "FAILED_FINAL" /\ Exhausted(rec[i].attempts)
    \/ rec[i].status = "FAILED_FINAL" /\ i \in refused \cup spoiled

\* FAILED_FINAL is for a "permanent failure" (callback_outbox:14) of the item: does
\* NOT hold of a batch of more than one chunk.  An item whose own post failed on the
\* way is given up after one attempt, with MAX_RETRY_ATTEMPTS - 1 left, when a later
\* chunk of the batch is refused: send_batch keeps only the last error, and
\* process_outbox_result applies it to every item.
OnlyRefusedGivenUp ==
  \A i \in InFile \ got :
    rec[i].status = "FAILED_FINAL" => Exhausted(rec[i].attempts) \/ i \in refused

\* Retries come to an end however run thread and retry race: the attempts of
\* an item are used up at most twice, since a stale mark_sent can reset their
\* count once; a post that a crash kept from being marked does not count.
PostsBounded == \A i \in Callbacks : posts[i] <= 2 * MaxAttempts + deaths

\* "FAILED_FINAL - permanent failure, no more retries" (callback_outbox:14): such
\* an item is not put up for retry again.  This does NOT hold: mark_failed goes by
\* its own error and the count alone, so a late answer to the run thread reopens
\* an item that a retry has marked final.
FinalIsFinal ==
  [][\A i \in InFile : rec[i].status = "FAILED_FINAL"
                        => rec'[i].status # "FAILED_RETRYABLE"]_outboxVars

\* All of it, and that no callback is dropped silently.
OutboxInv ==
  /\ OutboxTypeOK /\ FileOK
  /\ \A t \in Senders : SenderOK(t) /\ AnswersOK(t)
  /\ \A i \in Callbacks : PostsOK(i)
  /\ NoSilentDrop
=============================================================================
