---------------------------- MODULE RateLimiter ------------------------------
(***************************************************************************)
(* The limiter in front of /auth/login and /auth/register                  *)
(* (core/middleware/setup.py): one deque of arrival times per client and   *)
(* path, in the memory of the one API process.  The middleware calls it on *)
(* the event loop without awaiting, so that a call is one step.            *)
(***************************************************************************)
EXTENDS Integers, Sequences

CONSTANTS
  Keys,      \* client addresses with the paths they ask for
  Limit,     \* auth_rate_limit_per_minute
  Window,    \* window_seconds, in units of the clock
  MaxTime    \* bound on the clock

ASSUME LimiterAssumption ==
  /\ Limit \in Nat \ {0}
  /\ Window \in Nat \ {0}
  /\ MaxTime \in Nat

VARIABLES
  clock,      \* time.time(), taken not to be set back while the process lives
  bucket,     \* bucket[k]: the deque of key k
  accepted,   \* history: accepted[k] is every time k was let in since the start
  verdict     \* history: the last call and its answer

limiterVars == <<clock, bucket, accepted, verdict>>

Times == 0 .. MaxTime

NoVerdict == [allowed |-> TRUE]

Verdict(k, allowed) == [key |-> k, at |-> clock, allowed |-> allowed]

LimiterInit ==
  /\ clock = 0
  /\ bucket = [k \in Keys |-> <<>>]
  /\ accepted = [k \in Keys |-> <<>>]
  /\ verdict = NoVerdict

Since(times, n) == SubSeq(times, n + 1, Len(times))

\* A slip: an entry exactly one window old is kept.
DropsLate(k, n) ==
  /\ n \in 0 .. Len(bucket[k])
  /\ \A i \in 1 .. n : bucket[k][i] < clock - Window
  /\ n < Len(bucket[k]) => bucket[k][n + 1] >= clock - Window

\* The while loop pops n entries: those in front that are a window old or older.
Drops(k, n) ==
  /\ n \in 0 .. Len(bucket[k])
  /\ \A i \in 1 .. n : bucket[k][i] <= clock - Window
  /\ n < Len(bucket[k]) => bucket[k][n + 1] > clock - Window

\* A slip: off by one, a full bucket takes one more.
AdmitOneMore(k) ==
  \E n \in 0 .. Len(bucket[k]) :
    /\ Drops(k, n)
    /\ Len(bucket[k]) - n <= Limit
    /\ bucket' = [bucket EXCEPT ![k] = Append(Since(@, n), clock)]
    /\ accepted' = [accepted EXCEPT ![k] = Append(@, clock)]
    /\ verdict' = Verdict(k, TRUE)

Admit(k) ==
  \E n \in 0 .. Len(bucket[k]) :
    /\ Drops(k, n)
    /\ Len(bucket[k]) - n < Limit
    /\ bucket' = [bucket EXCEPT ![k] = Append(Since(@, n), clock)]
    /\ accepted' = [accepted EXCEPT ![k] = Append(@, clock)]
    /\ verdict' = Verdict(k, TRUE)

\* Answered 429; the call is not counted.
TurnAway(k) ==
  \E n \in 0 .. Len(bucket[k]) :
    /\ Drops(k, n)
    /\ Len(bucket[k]) - n >= Limit
    /\ bucket' = [bucket EXCEPT ![k] = Since(@, n)]
    /\ verdict' = Verdict(k, FALSE)
    /\ UNCHANGED accepted

\* The deques are gone with the process.
Forget ==
  /\ bucket' = [k \in Keys |-> <<>>]
  /\ accepted' = [k \in Keys |-> <<>>]
  /\ verdict' = NoVerdict

LimiterNext ==
  \/ \E k \in Keys : (Admit(k) \/ TurnAway(k)) /\ UNCHANGED clock
  \/ Forget /\ UNCHANGED clock
  \/ clock < MaxTime /\ clock' = clock + 1 /\ UNCHANGED <<bucket, accepted, verdict>>

LimiterSpec == LimiterInit /\ [][LimiterNext]_limiterVars

-----------------------------------------------------------------------------
\* Deques and histories hold times, and a verdict names its key and time.
LimiterTypeOK ==
  /\ clock \in Times
  /\ bucket \in [Keys -> Seq(Times)]
  /\ accepted \in [Keys -> Seq(Times)]
  /\ verdict \in {NoVerdict} \cup [key : Keys, at : Times, allowed : BOOLEAN]

\* No window of the clock, wherever it begins, sees more than Limit calls of one
\* key let in (setup.py:33): the calls i and i + Limit are a window apart.
LimitPerWindow ==
  \A k \in Keys : \A i \in DOMAIN accepted[k] :
    i + Limit \in DOMAIN accepted[k] => accepted[k][i + Limit] - accepted[k][i] >= Window

\* A call is refused only when Limit calls of its key were let in during the window
\* before it: what was refused does not prolong the wait (setup.py:34).
RefusedOnlyWhenFull ==
  ~ verdict.allowed =>
    LET times == accepted[verdict.key]
        from  == Len(times) - Limit + 1
    IN  from >= 1 /\ verdict.at - times[from] < Window
=============================================================================
