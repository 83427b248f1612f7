-------------------------------- MODULE Limits --------------------------------
(***************************************************************************)
(* The byte-rate limits: threads share one limiter for what they download, *)
(* one for what they upload and one for source files. A limiter counts   *)
(* the bytes of all calls since it was made, under a mutex; a thread whose *)
(* bytes run ahead of the rate sleeps after it has released the mutex.     *)
(***************************************************************************)
EXTENDS Integers, Sequences, FiniteSets, FiniteSetsExt

CONSTANT LimitScenes

VARIABLES
  lscene,    \* the member of LimitScenes played; never changes
  elapsed,   \* time since the limiters were made
  consumed,  \* bytes counted by each limiter
  moved,     \* bytes that have passed the network in each direction
  thr        \* what each thread does

limitVars == <<lscene, elapsed, consumed, moved, thr>>

LimitedThreads == DOMAIN lscene.plan
Call(t) == lscene.plan[t][thr[t].next]
Way(t) == CASE Call(t).op = "put" -> "write" [] Call(t).op = "source" -> "source" [] OTHER -> "read"
Ways == {"read", "write", "source"}
Calling(t) == thr[t].at = "call" /\ thr[t].next <= Len(lscene.plan[t])

LimitInit ==
  /\ lscene \in LimitScenes
  /\ elapsed = 0
  /\ consumed = [way \in Ways |-> 0]
  /\ moved = [way \in Ways |-> 0]
  /\ thr = [t \in LimitedThreads |-> [at |-> "call", next |-> 1, due |-> 0]]

Goes(t, at, due) == thr' = [thr EXCEPT ![t] = [@ EXCEPT !.at = at, !.due = due]]
Returns(t) == thr' = [thr EXCEPT ![t] = [at |-> "call", next |-> @.next + 1, due |-> 0]]

\* Each thread paces itself.
ConsumeOwnBytes(t, at) ==
  LET way == Way(t)
      bytes == Call(t).size
      rate == lscene.rate[way]
  IN IF bytes = 0 \/ rate = 0
     THEN Goes(t, at, 0) /\ UNCHANGED consumed
     ELSE /\ consumed' = [consumed EXCEPT ![way] = @ + bytes]
          /\ Goes(t, at, elapsed * rate + bytes)

\* consume: count and decide under the mutex; the thread goes on with the
\* step after it once the time has come at which all bytes counted are due.
ConsumeBytes(t, at) ==
  LET way == Way(t)
      bytes == Call(t).size
      rate == lscene.rate[way]
  IN IF bytes = 0 \/ rate = 0
     THEN Goes(t, at, 0) /\ UNCHANGED consumed
     ELSE /\ consumed' = [consumed EXCEPT ![way] = @ + bytes]
          /\ Goes(t, at, IF consumed'[way] > elapsed * rate THEN consumed'[way] ELSE 0)

Awake(t) == thr[t].due <= elapsed * lscene.rate[Way(t)]

\* put, put_owned: the limiter first, then the upload.
PutThrottled(t) ==
  /\ Calling(t) /\ Call(t).op = "put"
  /\ ConsumeBytes(t, "upload")
  /\ UNCHANGED <<lscene, elapsed, moved>>

UploadThrottled(t) ==
  /\ thr[t].at = "upload" /\ Awake(t)
  /\ \/ moved' = [moved EXCEPT !.write = @ + Call(t).size]
     \/ UNCHANGED moved
  /\ Returns(t)
  /\ UNCHANGED <<lscene, elapsed, consumed>>

\* get, get_range: the download, if there is such an object, then the limiter.
Get(t) ==
  /\ Calling(t) /\ Call(t).op = "get"
  /\ \/ moved' = [moved EXCEPT !.read = @ + Call(t).size] /\ Goes(t, "downloaded", 0)
     \/ UNCHANGED moved /\ Returns(t)
  /\ UNCHANGED <<lscene, elapsed, consumed>>

GetRangeInto(t) ==
  /\ Calling(t) /\ Call(t).op = "get_into"
  /\ \/ moved' = [moved EXCEPT !.read = @ + Call(t).size] /\ Goes(t, "downloaded", 0)
     \/ UNCHANGED moved /\ Returns(t)
  /\ UNCHANGED <<lscene, elapsed, consumed>>

\* LimitedReader::read: bytes of a source file, then the limiter.
ReadSource(t) ==
  /\ Calling(t) /\ Call(t).op = "source"
  /\ \/ moved' = [moved EXCEPT !.source = @ + Call(t).size] /\ Goes(t, "downloaded", 0)
     \/ UNCHANGED moved /\ Returns(t)
  /\ UNCHANGED <<lscene, elapsed, consumed>>

CountDownload(t) ==
  /\ thr[t].at = "downloaded"
  /\ ConsumeBytes(t, "counted")
  /\ UNCHANGED <<lscene, elapsed, moved>>

ReturnDownload(t) ==
  /\ thr[t].at = "counted" /\ Awake(t)
  /\ Returns(t)
  /\ UNCHANGED <<lscene, elapsed, consumed, moved>>

\* delete, exists, list, size, create_dir, server_repack and batch delete pass.
PassThrough(t) ==
  /\ Calling(t) /\ Call(t).op = "other"
  /\ Returns(t)
  /\ UNCHANGED <<lscene, elapsed, consumed, moved>>

TimePasses ==
  /\ elapsed < lscene.horizon
  /\ elapsed' = elapsed + 1
  /\ UNCHANGED <<lscene, consumed, moved, thr>>

LimitNext ==
  \/ TimePasses
  \/ \E t \in LimitedThreads : PutThrottled(t) \/ UploadThrottled(t) \/ Get(t) \/ GetRangeInto(t) 
                       \/ ReadSource(t) \/ CountDownload(t) \/ ReturnDownload(t) \/ PassThrough(t)
LimitSpec == LimitInit /\ [][LimitNext]_limitVars

-----------------------------------------------------------------------------
(* However the threads interleave, at no time have more bytes been         *)
(* uploaded than the rate allows since the backend was opened: the bytes   *)
(* that are counted but not yet sent are paid for before they are sent.    *)
UploadRateKept == lscene.rate.write # 0 => moved.write <= elapsed * lscene.rate.write

(* At no time have more bytes been downloaded, or read from source files,  *)
(* than the rate allows, except for one answer per thread, which is paid   *)
(* for before the thread goes on.                                          *)
DownloadRateKept ==
  \A way \in {"read", "source"} :
    lscene.rate[way] # 0 =>
      moved[way] <= elapsed * lscene.rate[way]
                    + MapThenSumSet(LAMBDA t : Call(t).size,
                                    {t \in LimitedThreads : thr[t].at \in {"downloaded", "counted"} /\ Way(t) = way})

\* All threads together keep the rates of BandwidthLimits.
RatesKept == UploadRateKept /\ DownloadRateKept
=============================================================================
