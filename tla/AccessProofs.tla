----------------------------- MODULE AccessProofs -----------------------------
(***************************************************************************)
(* Proofs about who is let in, what is answered and what is kept secret,   *)
(* for any number of logins, tasks, callers and commands.                  *)
(*                                                                         *)
(* Sessions: no failed login is counted twice and no session is served     *)
(* more than twice its limit within the length of a window.  Keys: what    *)
(* was encrypted can be decrypted, nonces do not repeat before the history *)
(* is full, and there is one salt unless two callers raced to create it.   *)
(* Daemon: nobody is served before policy and sandbox are settled, the     *)
(* filter program allows the listed calls of its architecture and no       *)
(* other, and an exit code of zero is the truth.                           *)
(***************************************************************************)
EXTENDS Sessions, Keys, Daemon, CountingLemmas

-----------------------------------------------------------------------------
(* Sessions *)

LoginStage == {"idle", "clear", "wrong", "restart", "block", "clearWindow", "clearBlock", "insert"}
SessionRecord == [live : BOOLEAN, created : Nat, count : Nat, window : Nat, accepted : Seq(Nat)]

SessionsType ==
    /\ clock \in Nat /\ failed \in Nat /\ failures \in Nat
    /\ login \in [Logins -> [at : LoginStage, now : Nat]]
    /\ session \in [Logins -> SessionRecord]

\* The requests q of a session at time t, k of them since its window began at w.
\* The ones before are no later than w, and the ones before the previous window
\* are earlier by more than a window: that window has MaxRequests at most.
Spread(q, k, w, t) ==
    /\ k <= Len(q) /\ w <= t
    /\ \A i \in 1 .. Len(q) : q[i] <= t
    /\ \A i \in 1 .. Len(q) - k : q[i] <= w
    /\ \A i \in 1 .. Len(q) - k - MaxRequests : q[i] + RequestWindow < w
    /\ \A i \in 1 .. Len(q) : i > 2 * MaxRequests => q[i] - q[i - 2 * MaxRequests] > RequestWindow

\* The count goes on when requests are refused.
Counted(s) == IF s.count < MaxRequests THEN s.count ELSE MaxRequests

WindowInv == \A c \in Logins :
    Spread(session[c].accepted, Counted(session[c]), session[c].window, clock)

SessionsInv == SessionsType /\ FailuresCountedOnce /\ WindowInv

\* One more request in a window that is not full.
LEMMA SpreadWithin ==
  ASSUME NEW q \in Seq(Nat), NEW k \in Nat, NEW w \in Nat, NEW t \in Nat,
         Spread(q, k, w, t), k < MaxRequests
  PROVE  Spread(Append(q, t), k + 1, w, t)
  <1> DEFINE M == MaxRequests
             p == Append(q, t)
  <1>1. M \in Nat \ {0} /\ RequestWindow \in Nat BY SessionsAssumption
  <1>2. /\ Len(q) \in Nat /\ Len(p) = Len(q) + 1 /\ p[Len(q) + 1] = t
        /\ \A i \in 1 .. Len(q) : p[i] = q[i] /\ q[i] \in Nat
    OBVIOUS
  <1> HIDE DEF p, M
  <1>3. k + 1 <= Len(p) /\ w <= t BY <1>2 DEF Spread
  <1>4. \A i \in 1 .. Len(p) : p[i] <= t BY <1>2, SMTT(30) DEF Spread
  <1>5. \A i \in 1 .. Len(p) - (k + 1) : p[i] <= w BY <1>2, SMTT(30) DEF Spread
  <1>6. ASSUME NEW i \in 1 .. Len(p) - (k + 1) - M PROVE p[i] + RequestWindow < w
    <2>1. i \in 1 .. Len(q) - k - M /\ i \in 1 .. Len(q) BY <1>1, <1>2
    <2>2. q[i] + RequestWindow < w BY <2>1 DEF Spread, M
    <2> QED BY <1>2, <2>1, <2>2
  <1>7. ASSUME NEW i \in 1 .. Len(p), i > 2 * M PROVE p[i] - p[i - 2 * M] > RequestWindow
    <2>1. CASE i = Len(q) + 1
      <3>1. i - 2 * M \in 1 .. Len(p) - (k + 1) - M BY <1>1, <1>2, <1>7, <2>1 DEF M
      <3>2. p[i - 2 * M] + RequestWindow < w BY <1>6, <3>1
      <3>3. i - 2 * M \in 1 .. Len(q) BY <1>1, <1>2, <1>7, <2>1
      <3>4. p[i - 2 * M] \in Nat BY <1>2, <3>3
      <3> QED BY <1>1, <1>2, <1>3, <2>1, <3>2, <3>4, SMTT(30)
    <2>2. CASE i \in 1 .. Len(q)
      <3>1. i - 2 * M \in 1 .. Len(q) BY <1>1, <1>2, <1>7, <2>2
      <3>2. q[i] - q[i - 2 * M] > RequestWindow BY <1>7, <2>2 DEF Spread, M
      <3> QED BY <1>2, <2>2, <3>1, <3>2
    <2> QED BY <1>2, <1>7, <2>1, <2>2
  <1> QED BY <1>3, <1>4, <1>5, <1>6, <1>7 DEF Spread, p, M

\* The first request of a new window.
LEMMA SpreadRestart ==
  ASSUME NEW q \in Seq(Nat), NEW k \in Nat, NEW w \in Nat, NEW t \in Nat,
         Spread(q, k, w, t), k <= MaxRequests, t - w > RequestWindow
  PROVE  Spread(Append(q, t), 1, t, t)
  <1> DEFINE M == MaxRequests
             p == Append(q, t)
  <1>1. M \in Nat \ {0} /\ RequestWindow \in Nat BY SessionsAssumption
  <1>2. /\ Len(q) \in Nat /\ Len(p) = Len(q) + 1 /\ p[Len(q) + 1] = t
        /\ \A i \in 1 .. Len(q) : p[i] = q[i] /\ q[i] \in Nat
    OBVIOUS
  <1> HIDE DEF p, M
  <1>3. 1 <= Len(p) BY <1>2
  <1>4. \A i \in 1 .. Len(p) : p[i] <= t BY <1>2, SMTT(30) DEF Spread
  <1>5. ASSUME NEW i \in 1 .. Len(p) - 1 - M PROVE p[i] + RequestWindow < t
    <2>1. i \in 1 .. Len(q) - k /\ i \in 1 .. Len(q) BY <1>1, <1>2 DEF M
    <2>2. q[i] <= w BY <2>1 DEF Spread
    <2> QED BY <1>1, <1>2, <2>1, <2>2, SMTT(30)
  <1>6. ASSUME NEW i \in 1 .. Len(p), i > 2 * M PROVE p[i] - p[i - 2 * M] > RequestWindow
    <2>1. CASE i = Len(q) + 1
      <3>1. i - 2 * M \in 1 .. Len(p) - 1 - M BY <1>1, <1>2, <1>6, <2>1
      <3>2. p[i - 2 * M] + RequestWindow < t BY <1>5, <3>1
      <3>3. i - 2 * M \in 1 .. Len(q) BY <1>1, <1>2, <1>6, <2>1
      <3>4. p[i - 2 * M] \in Nat BY <1>2, <3>3
      <3> QED BY <1>1, <1>2, <2>1, <3>2, <3>4, SMTT(30)
    <2>2. CASE i \in 1 .. Len(q)
      <3>1. i - 2 * M \in 1 .. Len(q) BY <1>1, <1>2, <1>6, <2>2
      <3>2. q[i] - q[i - 2 * M] > RequestWindow BY <1>6, <2>2 DEF Spread, M
      <3> QED BY <1>2, <2>2, <3>1, <3>2
    <2> QED BY <1>2, <1>6, <2>1, <2>2
  <1>7. \A i \in 1 .. Len(p) - 1 : p[i] <= t BY <1>2, <1>4
  <1>8. t <= t OBVIOUS
  <1>9. Spread(p, 1, t, t) BY <1>3, <1>4, <1>5, <1>6, <1>7, <1>8 DEF Spread, M
  <1> QED BY <1>9 DEF p

\* Nothing was asked yet.
LEMMA SpreadEmpty ==
  ASSUME NEW w \in Nat, NEW t \in Nat, w <= t
  PROVE  Spread(<<>>, 0, w, t)
  BY SessionsAssumption DEF Spread

LEMMA SpreadLater ==
  ASSUME NEW q \in Seq(Nat), NEW k, NEW w \in Nat, NEW t \in Nat, Spread(q, k, w, t)
  PROVE  Spread(q, k, w, t + 1)
  BY DEF Spread

-----------------------------------------------------------------------------
LEMMA RecordingFinite == IsFiniteSet(Recording) /\ Cardinality(Recording) \in Nat
  <1>1. Recording \subseteq Logins BY DEF Recording
  <1> QED BY <1>1, SessionsAssumption, FS_Subset, FS_CardinalityType

LEMMA SessionsInitial == SessionInit => SessionsInv
  <1> SUFFICES ASSUME SessionInit PROVE SessionsInv OBVIOUS
  <1>1. NoSession \in SessionRecord /\ LoginIdle \in [at : LoginStage, now : Nat]
    BY DEF NoSession, SessionRecord, LoginIdle, LoginStage
  <1>2. SessionsType BY <1>1 DEF SessionInit, SessionsType
  <1>3. Recording = {} BY DEF SessionInit, Recording, LoginIdle
  <1>4. FailuresCountedOnce BY <1>3, FS_EmptySet DEF SessionInit, FailuresCountedOnce
  <1>5. WindowInv
    <2>1. Counted(NoSession) = 0 BY SessionsAssumption DEF Counted, NoSession
    <2> QED BY <2>1, SpreadEmpty DEF SessionInit, WindowInv, NoSession
  <1> QED BY <1>2, <1>4, <1>5 DEF SessionsInv

\* A login moves on; the sessions are not touched.
LEMMA LoginMoves ==
  ASSUME SessionsInv, NEW c \in Logins, NEW call \in [at : LoginStage, now : Nat],
         login' = [login EXCEPT ![c] = call], UNCHANGED <<clock, session>>,
         failed' \in Nat, failures' \in Nat
  PROVE  /\ SessionsType' /\ WindowInv'
         /\ c \in Recording /\ call.at # "wrong" => Cardinality(Recording') = Cardinality(Recording) - 1
         /\ c \notin Recording /\ call.at = "wrong" => Cardinality(Recording') = Cardinality(Recording) + 1
         /\ c \notin Recording /\ call.at # "wrong" => Recording' = Recording
  <1>1. SessionsType' BY DEF SessionsInv, SessionsType
  <1>2. WindowInv' BY DEF SessionsInv, WindowInv, Counted
  <1>3. ASSUME c \in Recording, call.at # "wrong"
        PROVE  Cardinality(Recording') = Cardinality(Recording) - 1
    <2>1. Recording' = Recording \ {c} BY <1>3 DEF SessionsInv, SessionsType, Recording
    <2> QED BY <1>3, <2>1, RecordingFinite, FS_RemoveElement
  <1>4. ASSUME c \notin Recording, call.at = "wrong"
        PROVE  Cardinality(Recording') = Cardinality(Recording) + 1
    <2>1. Recording' = Recording \union {c} BY <1>4 DEF SessionsInv, SessionsType, Recording
    <2> QED BY <1>4, <2>1, RecordingFinite, FS_AddElement
  <1>5. ASSUME c \notin Recording, call.at # "wrong" PROVE Recording' = Recording
    BY <1>5 DEF SessionsInv, SessionsType, Recording
  <1> QED BY <1>1, <1>2, <1>3, <1>4, <1>5

LEMMA AuthenticateStep ==
  ASSUME SessionsInv, NEW c \in Logins, Authenticate(c)
  PROVE  SessionsInv'
  <1>1. login[c] \in [at : LoginStage, now : Nat] /\ clock \in Nat /\ failed \in Nat /\ failures \in Nat
    BY DEF SessionsInv, SessionsType
  <1>2. c \notin Recording BY DEF Authenticate, Recording
  <1>3. CASE login' = [login EXCEPT ![c].at = "clear"] /\ UNCHANGED failures
    <2> DEFINE call == [login[c] EXCEPT !.at = "clear"]
    <2>1. call \in [at : LoginStage, now : Nat] /\ call.at = "clear" BY <1>1 DEF LoginStage
    <2>2. login' = [login EXCEPT ![c] = call] BY <1>3
    <2> HIDE DEF call
    <2>3. SessionsType' /\ WindowInv' /\ Recording' = Recording
      BY <1>1, <1>2, <1>3, <2>1, <2>2, LoginMoves DEF Authenticate
    <2> QED BY <1>3, <2>3 DEF SessionsInv, FailuresCountedOnce, Authenticate
  <1>4. CASE login' = [login EXCEPT ![c] = [at |-> "wrong", now |-> clock]] /\ failures' = failures + 1
    <2> DEFINE call == [at |-> "wrong", now |-> clock]
    <2>1. call \in [at : LoginStage, now : Nat] /\ call.at = "wrong" BY <1>1 DEF LoginStage
    <2> HIDE DEF call
    <2>2. login' = [login EXCEPT ![c] = call] BY <1>4 DEF call
    <2>3. failed' = failed /\ failures' \in Nat /\ UNCHANGED <<clock, session>>
      BY <1>1, <1>4 DEF Authenticate
    <2>4. SessionsType' /\ WindowInv' /\ Cardinality(Recording') = Cardinality(Recording) + 1
      BY <1>1, <1>2, <2>1, <2>2, <2>3, LoginMoves
    <2>5. FailuresCountedOnce'
      BY <1>1, <1>4, <2>3, <2>4, RecordingFinite DEF SessionsInv, FailuresCountedOnce
    <2> QED BY <2>4, <2>5 DEF SessionsInv
  <1> QED BY <1>3, <1>4 DEF Authenticate

\* The steps in which a login leaves the limiter's count alone or clears it.
LEMMA LoginStep ==
  ASSUME SessionsInv, NEW c \in Logins,
         RestartWindow(c) \/ BlockLogins(c) \/ ClearFailures(c) \/ ClearWindow(c) \/ ClearBlock(c)
  PROVE  SessionsInv'
  <1>1. login[c] \in [at : LoginStage, now : Nat] /\ failed \in Nat /\ failures \in Nat
    BY DEF SessionsInv, SessionsType
  <1>2. PICK at \in {"idle", "clearWindow", "clearBlock", "insert"} : Stage(c, at)
    BY DEF RestartWindow, BlockLogins, ClearFailures, ClearWindow, ClearBlock
  <1> DEFINE call == [login[c] EXCEPT !.at = at]
  <1>3. call \in [at : LoginStage, now : Nat] /\ call.at # "wrong" BY <1>1 DEF LoginStage
  <1>4. login' = [login EXCEPT ![c] = call] BY <1>2 DEF Stage
  <1> HIDE DEF call
  <1>5. c \notin Recording /\ UNCHANGED <<clock, session>>
    BY DEF RestartWindow, BlockLogins, ClearFailures, ClearWindow, ClearBlock, Recording
  <1>6. CASE ClearFailures(c)
    <2>1. failed' = 0 /\ failures' = Cardinality(Recording) BY <1>6 DEF ClearFailures, Recording
    <2>2. SessionsType' /\ WindowInv' /\ Recording' = Recording
      BY <1>3, <1>4, <1>5, <2>1, RecordingFinite, LoginMoves
    <2> QED BY <2>1, <2>2, RecordingFinite DEF SessionsInv, FailuresCountedOnce
  <1>7. CASE ~ClearFailures(c)
    <2>1. failed' = failed /\ failures' = failures
      BY <1>7 DEF RestartWindow, BlockLogins, ClearWindow, ClearBlock
    <2>2. SessionsType' /\ WindowInv' /\ Recording' = Recording
      BY <1>1, <1>3, <1>4, <1>5, <2>1, LoginMoves
    <2> QED BY <2>1, <2>2 DEF SessionsInv, FailuresCountedOnce
  <1> QED BY <1>6, <1>7

\* A failure that is recorded leaves the ones to be recorded.
LEMMA RecordStep ==
  ASSUME SessionsInv, NEW c \in Logins, RecordFailure(c)
  PROVE  SessionsInv'
  <1>1. login[c] \in [at : LoginStage, now : Nat] /\ failed \in Nat /\ failures \in Nat
    BY DEF SessionsInv, SessionsType
  <1>2. PICK at \in {"restart", "block", "idle"} : Stage(c, at) BY DEF RecordFailure
  <1> DEFINE call == [login[c] EXCEPT !.at = at]
  <1>3. call \in [at : LoginStage, now : Nat] /\ call.at # "wrong" BY <1>1 DEF LoginStage
  <1>4. login' = [login EXCEPT ![c] = call] BY <1>2 DEF Stage
  <1> HIDE DEF call
  <1>5. c \in Recording BY DEF RecordFailure, Recording
  <1>6. failed' \in Nat /\ failed' <= failed + 1 /\ failures' = failures BY <1>1 DEF RecordFailure
  <1>7. SessionsType' /\ WindowInv' /\ Cardinality(Recording') = Cardinality(Recording) - 1
    BY <1>1, <1>3, <1>4, <1>5, <1>6, LoginMoves DEF RecordFailure
  <1>8. FailuresCountedOnce'
    <2>1. failed + Cardinality(Recording) <= failures BY DEF SessionsInv, FailuresCountedOnce
    <2>2. failed' + (Cardinality(Recording) - 1) <= failures BY <1>1, <1>6, <2>1, RecordingFinite
    <2> QED BY <1>6, <1>7, <2>2 DEF FailuresCountedOnce
  <1> QED BY <1>7, <1>8 DEF SessionsInv

\* A session changes, and no login or one that is not recording a failure.
LEMMA SessionMoves ==
  ASSUME SessionsInv, UNCHANGED <<clock, limiterVars>>, Recording' = Recording,
         login' \in [Logins -> [at : LoginStage, now : Nat]],
         session' \in [Logins -> SessionRecord],
         \A c \in Logins : session'[c] = session[c] \/
             Spread(session'[c].accepted, Counted(session'[c]), session'[c].window, clock)
  PROVE  SessionsInv'
  <1>1. SessionsType' BY DEF SessionsInv, SessionsType, limiterVars
  <1>2. FailuresCountedOnce' BY DEF SessionsInv, FailuresCountedOnce, limiterVars
  <1>3. ASSUME NEW c \in Logins
        PROVE  Spread(session'[c].accepted, Counted(session'[c]), session'[c].window, clock')
    <2>1. Spread(session'[c].accepted, Counted(session'[c]), session'[c].window, clock)
      BY DEF SessionsInv, WindowInv
    <2> QED BY <2>1
  <1>4. WindowInv' BY <1>3 DEF WindowInv, Counted
  <1> QED BY <1>1, <1>2, <1>4 DEF SessionsInv

LEMMA FreshSpread ==
  ASSUME clock \in Nat
  PROVE  /\ NoSession \in SessionRecord
         /\ Spread(NoSession.accepted, Counted(NoSession), NoSession.window, clock)
  <1>1. Counted(NoSession) = 0 BY SessionsAssumption DEF Counted, NoSession
  <1> QED BY <1>1, SpreadEmpty DEF NoSession, SessionRecord

LEMMA OpenStep ==
  ASSUME SessionsInv, NEW c \in Logins, OpenSession(c)
  PROVE  SessionsInv'
  <1> DEFINE new == [live |-> TRUE, created |-> clock, count |-> 0, window |-> clock, accepted |-> <<>>]
             call == [login[c] EXCEPT !.at = "idle"]
  <1>1. login[c] \in [at : LoginStage, now : Nat] /\ clock \in Nat BY DEF SessionsInv, SessionsType
  <1>2. new \in SessionRecord BY <1>1 DEF SessionRecord
  <1>3. Counted(new) = 0 BY SessionsAssumption DEF Counted
  <1>4. Spread(new.accepted, Counted(new), new.window, clock) BY <1>1, <1>3, SpreadEmpty
  <1>5. call \in [at : LoginStage, now : Nat] /\ call.at = "idle" BY <1>1 DEF LoginStage
  <1>6. login' = [login EXCEPT ![c] = call] /\ session' = [session EXCEPT ![c] = new]
    BY DEF OpenSession, Stage
  <1> HIDE DEF new, call
  <1>7. Recording' = Recording BY <1>5, <1>6 DEF OpenSession, Recording, SessionsInv, SessionsType
  <1>8. login' \in [Logins -> [at : LoginStage, now : Nat]] BY <1>5, <1>6 DEF SessionsInv, SessionsType
  <1>9. session' \in [Logins -> SessionRecord] BY <1>2, <1>6 DEF SessionsInv, SessionsType
  <1>10. \A d \in Logins : session'[d] = IF d = c THEN new ELSE session[d]
    BY <1>6 DEF SessionsInv, SessionsType
  <1> QED BY <1>4, <1>7, <1>8, <1>9, <1>10, SessionMoves DEF OpenSession

LEMMA SameFields ==
  ASSUME NEW s \in SessionRecord, NEW n \in Nat, NEW w \in Nat, NEW q \in Seq(Nat)
  PROVE  /\ [s EXCEPT !.count = n] \in SessionRecord
         /\ [s EXCEPT !.count = n, !.accepted = q] \in SessionRecord
         /\ [s EXCEPT !.count = n, !.window = w, !.accepted = q] \in SessionRecord
  BY DEF SessionRecord

LEMMA ValidateStep ==
  ASSUME SessionsInv, NEW c \in Logins, Validate(c)
  PROVE  SessionsInv'
  <1> DEFINE s == session[c]
             restart == clock - s.window > RequestWindow
             full == ~restart /\ s.count >= MaxRequests
  <1>1. s \in SessionRecord /\ clock \in Nat BY DEF SessionsInv, SessionsType
  <1>2. Spread(s.accepted, Counted(s), s.window, clock) BY DEF SessionsInv, WindowInv
  <1>3. MaxRequests \in Nat \ {0} /\ RequestWindow \in Nat BY SessionsAssumption
  <1>4. s.count \in Nat /\ s.window \in Nat /\ s.accepted \in Seq(Nat) /\ Counted(s) \in Nat
        /\ Counted(s) <= MaxRequests
    BY <1>1, <1>3 DEF SessionRecord, Counted
  <1> DEFINE over == [s EXCEPT !.count = MaxRequests + 1]
             first == [s EXCEPT !.count = 1, !.window = clock, !.accepted = Append(s.accepted, clock)]
             more == [s EXCEPT !.count = s.count + 1, !.accepted = Append(s.accepted, clock)]
  <1>5. \E new \in {NoSession} \union (IF full THEN {over} ELSE IF restart THEN {first} ELSE {more}) :
          session' = [session EXCEPT ![c] = new]
    <2>1. first = [[s EXCEPT !.count = 1, !.window = clock] EXCEPT !.accepted = Append(@, clock)]
      BY <1>1 DEF SessionRecord
    <2>2. more = [[s EXCEPT !.count = @ + 1] EXCEPT !.accepted = Append(@, clock)]
      BY <1>1 DEF SessionRecord
    <2> HIDE DEF over, first, more
    <2>3. CASE full BY <2>3 DEF Validate, over
    <2>4. CASE restart BY <2>1, <2>4 DEF Validate
    <2>5. CASE ~full /\ ~restart BY <2>2, <2>5 DEF Validate
    <2> QED BY <2>3, <2>4, <2>5
  <1>6. full => over \in SessionRecord /\ Spread(over.accepted, Counted(over), over.window, clock)
    <2> SUFFICES ASSUME full
                 PROVE  over \in SessionRecord /\ Spread(over.accepted, Counted(over), over.window, clock)
      OBVIOUS
    <2>1. over \in SessionRecord
      <3>1. MaxRequests + 1 \in Nat BY <1>3
      <3> QED BY <1>1, <1>4, <3>1, SameFields
    <2>2. over.accepted = s.accepted /\ over.window = s.window /\ over.count = MaxRequests + 1
      BY <1>1 DEF SessionRecord
    <2>3. Counted(over) = Counted(s) BY <1>3, <1>4, <2>2 DEF Counted
    <2> QED BY <1>2, <2>1, <2>2, <2>3
  <1>7. restart => first \in SessionRecord /\ Spread(first.accepted, Counted(first), first.window, clock)
    <2> SUFFICES ASSUME restart
                 PROVE  first \in SessionRecord /\ Spread(first.accepted, Counted(first), first.window, clock)
      OBVIOUS
    <2>1. first \in SessionRecord
      <3>1. Append(s.accepted, clock) \in Seq(Nat) BY <1>1, <1>4
      <3> QED BY <1>1, <3>1, SameFields
    <2>2. first.accepted = Append(s.accepted, clock) /\ first.window = clock /\ first.count = 1
      BY <1>1 DEF SessionRecord
    <2>3. Counted(first) = 1 BY <1>3, <2>2 DEF Counted
    <2>4. Spread(Append(s.accepted, clock), 1, clock, clock) BY <1>1, <1>2, <1>4, SpreadRestart
    <2> QED BY <2>1, <2>2, <2>3, <2>4
  <1>8. ~full /\ ~restart =>
           more \in SessionRecord /\ Spread(more.accepted, Counted(more), more.window, clock)
    <2> SUFFICES ASSUME ~full, ~restart
                 PROVE  more \in SessionRecord /\ Spread(more.accepted, Counted(more), more.window, clock)
      OBVIOUS
    <2>1. more \in SessionRecord
      <3>1. Append(s.accepted, clock) \in Seq(Nat) /\ s.count + 1 \in Nat BY <1>1, <1>4
      <3> QED BY <1>1, <3>1, SameFields
    <2>2. more.accepted = Append(s.accepted, clock) /\ more.window = s.window /\ more.count = s.count + 1
      BY <1>1 DEF SessionRecord
    <2>3. s.count < MaxRequests /\ Counted(s) = s.count BY <1>3, <1>4 DEF Counted
    <2>4. Counted(more) = Counted(s) + 1 BY <1>3, <1>4, <2>2, <2>3 DEF Counted
    <2>5. Spread(Append(s.accepted, clock), Counted(s) + 1, s.window, clock)
      BY <1>1, <1>2, <1>4, <2>3, SpreadWithin
    <2> QED BY <2>1, <2>2, <2>4, <2>5
  <1> HIDE DEF over, first, more, full, restart
  <1>9. PICK new : /\ session' = [session EXCEPT ![c] = new]
                   /\ new \in SessionRecord /\ Spread(new.accepted, Counted(new), new.window, clock)
    BY <1>1, <1>5, <1>6, <1>7, <1>8, FreshSpread
  <1>10. UNCHANGED <<clock, limiterVars, login>> BY DEF Validate
  <1>11. Recording' = Recording BY <1>10 DEF Recording
  <1>12. login' \in [Logins -> [at : LoginStage, now : Nat]] BY <1>10 DEF SessionsInv, SessionsType
  <1>13. session' \in [Logins -> SessionRecord] BY <1>9 DEF SessionsInv, SessionsType
  <1>14. \A d \in Logins : session'[d] = IF d = c THEN new ELSE session[d]
    BY <1>9 DEF SessionsInv, SessionsType
  <1> QED BY <1>9, <1>10, <1>11, <1>12, <1>13, <1>14, SessionMoves

LEMMA CleanupStep ==
  ASSUME SessionsInv, CleanupSessions
  PROVE  SessionsInv'
  <1>1. clock \in Nat BY DEF SessionsInv, SessionsType
  <1>2. UNCHANGED <<clock, limiterVars, login>> BY DEF CleanupSessions
  <1>3. Recording' = Recording BY <1>2 DEF Recording
  <1>4. login' \in [Logins -> [at : LoginStage, now : Nat]] BY <1>2 DEF SessionsInv, SessionsType
  <1>5. session' \in [Logins -> SessionRecord]
    BY <1>1, FreshSpread DEF CleanupSessions, SessionsInv, SessionsType
  <1>6. \A d \in Logins : session'[d] \in {NoSession, session[d]} BY DEF CleanupSessions
  <1> QED BY <1>1, <1>2, <1>3, <1>4, <1>5, <1>6, FreshSpread, SessionMoves

LEMMA PassTimeStep ==
  ASSUME SessionsInv, PassTime
  PROVE  SessionsInv'
  <1>1. clock' = clock + 1 /\ UNCHANGED <<limiterVars, login, session>> BY DEF PassTime
  <1>2. SessionsType' BY <1>1 DEF SessionsInv, SessionsType, limiterVars
  <1>3. FailuresCountedOnce'
    <2>1. Recording' = Recording BY <1>1 DEF Recording
    <2> QED BY <1>1, <2>1 DEF SessionsInv, FailuresCountedOnce, limiterVars
  <1>4. ASSUME NEW c \in Logins
        PROVE  Spread(session[c].accepted, Counted(session[c]), session[c].window, clock + 1)
    <2>1. session[c].accepted \in Seq(Nat) /\ session[c].window \in Nat /\ clock \in Nat
      BY DEF SessionsInv, SessionsType, SessionRecord
    <2> QED BY <2>1, SpreadLater DEF SessionsInv, WindowInv
  <1>5. WindowInv' BY <1>1, <1>4 DEF WindowInv, Counted
  <1> QED BY <1>2, <1>3, <1>5 DEF SessionsInv

LEMMA SessionsStep == SessionsInv /\ [SessionNext]_sessionVars => SessionsInv'
  <1> SUFFICES ASSUME SessionsInv, [SessionNext]_sessionVars PROVE SessionsInv' OBVIOUS
  <1>1. CASE UNCHANGED sessionVars
    <2>1. Recording' = Recording BY <1>1 DEF Recording, sessionVars
    <2> QED
      BY <1>1, <2>1 DEF sessionVars, SessionsInv, SessionsType, FailuresCountedOnce, WindowInv, Counted
  <1> QED
    BY <1>1, AuthenticateStep, RecordStep, LoginStep, OpenStep, ValidateStep, CleanupStep, PassTimeStep
    DEF SessionNext

\* For any number of concurrent logins and any limits: the limiter never counts a
\* wrong token twice, whatever logins race with one that clears it, and wherever a
\* window begins a session is served no more than twice its limit within the length
\* of one (RateLimiter::record_failure and reset, SessionAuth::validate).
THEOREM SessionsCorrect == SessionSpec => []SessionsLimited
  <1>1. SessionsInv => SessionsLimited
    <2> SUFFICES ASSUME SessionsInv PROVE SessionsLimited OBVIOUS
    <2>1. RequestsPerWindow
      <3> SUFFICES ASSUME NEW c \in Logins, NEW i \in DOMAIN session[c].accepted, i > 2 * MaxRequests
                   PROVE  session[c].accepted[i] - session[c].accepted[i - 2 * MaxRequests] > RequestWindow
        BY DEF RequestsPerWindow
      <3>1. session[c].accepted \in Seq(Nat) BY DEF SessionsInv, SessionsType, SessionRecord
      <3>2. i \in 1 .. Len(session[c].accepted) BY <3>1
      <3> QED BY <3>2 DEF SessionsInv, WindowInv, Spread
    <2> QED BY <2>1 DEF SessionsInv, SessionsLimited
  <1> QED BY SessionsInitial, SessionsStep, <1>1, PTL DEF SessionSpec

-----------------------------------------------------------------------------
(* Keys *)

KeyStage == {"idle", "insert", "activate", "retire", "readActive", "decrypt", "cipher"}
KeyCall == [at : KeyStage, op : {"none", "add", "addActive", "rotate", "encrypt", "migrate"}, id : Nat, from : Nat]
Ciphertext == [id : Nat, nonce : NonceValues, key : KeyValues]

\* The keys added are there, numbered in their order; no task has lost one.
KeyringInv ==
    /\ nextKey \in Nat \ {0} /\ activeKey \in 0 .. nextKey - 1
    /\ DOMAIN keyring = 1 .. nextKey - 1
    /\ \A k \in DOMAIN keyring : keyring[k] \in [key : KeyValues, active : BOOLEAN]

\* A key id that was read, or is in a ciphertext, is the id of a key.
CallInv(call) ==
    /\ call.at = "cipher" => call.id \in DOMAIN keyring
    /\ call.at = "decrypt" => call.from \in DOMAIN sealed
KeyCallInv == keyTask \in [KeyTasks -> KeyCall] /\ \A t \in KeyTasks : CallInv(keyTask[t])

SealedInv ==
    /\ sealed \in Seq(Ciphertext)
    /\ \A i \in DOMAIN sealed :
          sealed[i].id \in DOMAIN keyring /\ keyring[sealed[i].id].key = sealed[i].key

\* The history is no longer than the ciphertexts made, so that it holds every nonce
\* until it is full.
NonceInv ==
    /\ IsFiniteSet(nonces) /\ Cardinality(nonces) <= Len(sealed)
    /\ Len(sealed) <= NonceHistory => \A i \in DOMAIN sealed : sealed[i].nonce \in nonces
    /\ \A i, j \in DOMAIN sealed : i < j /\ j <= NonceHistory => sealed[i].nonce # sealed[j].nonce

KeyInv == KeyringInv /\ KeyCallInv /\ SealedInv /\ NonceInv

LEMMA KeysInitial == KeyInit => KeyInv
  <1> SUFFICES ASSUME KeyInit PROVE KeyInv OBVIOUS
  <1>1. KeyringInv BY DEF KeyInit, KeyringInv
  <1>2. KeyIdle \in KeyCall /\ CallInv(KeyIdle) BY DEF KeyIdle, KeyCall, KeyStage, CallInv
  <1>3. KeyCallInv BY <1>2 DEF KeyInit, KeyCallInv
  <1>4. SealedInv BY DEF KeyInit, SealedInv
  <1>5. NonceInv
    <2>1. IsFiniteSet({}) /\ Cardinality({}) = 0 BY FS_EmptySet
    <2> QED BY <2>1 DEF KeyInit, NonceInv
  <1> QED BY <1>1, <1>3, <1>4, <1>5 DEF KeyInv

\* A task moves on, keys and ciphertexts are what they were.
LEMMA KeyCallMoves ==
  ASSUME KeyInv, NEW t \in KeyTasks, NEW call \in KeyCall, CallInv(call), KeyGoto(t, call),
         UNCHANGED <<keyring, nextKey, nonces, sealed>>, activeKey' \in 0 .. nextKey - 1
  PROVE  KeyInv'
  <1>1. KeyringInv' BY DEF KeyInv, KeyringInv
  <1>2. SealedInv' BY DEF KeyInv, SealedInv
  <1>3. NonceInv' BY DEF KeyInv, NonceInv
  <1>4. KeyCallInv'
    <2>1. \A u \in KeyTasks : keyTask'[u] = IF u = t THEN call ELSE keyTask[u]
      BY DEF KeyInv, KeyCallInv, KeyGoto
    <2>2. keyTask' \in [KeyTasks -> KeyCall] BY DEF KeyInv, KeyCallInv, KeyGoto
    <2> QED BY <2>1, <2>2 DEF KeyInv, KeyCallInv, CallInv
  <1> QED BY <1>1, <1>2, <1>3, <1>4 DEF KeyInv

LEMMA IdleKeyCall == KeyIdle \in KeyCall /\ CallInv(KeyIdle)
  BY DEF KeyIdle, KeyCall, KeyStage, CallInv

LEMMA BeginKeys ==
  ASSUME KeyInv, NEW t \in KeyTasks, KeyBegin(t)
  PROVE  KeyInv'
  <1>1. activeKey' \in 0 .. nextKey - 1 BY DEF KeyBegin, KeyInv, KeyringInv
  <1>2. PICK call \in KeyCall : CallInv(call) /\ KeyGoto(t, call)
    <2>1. ASSUME NEW op \in {"add", "addActive", "rotate", "encrypt"}, NEW at \in {"insert", "readActive"}
          PROVE  LET call == [KeyIdle EXCEPT !.at = at, !.op = op] IN call \in KeyCall /\ CallInv(call)
      BY DEF KeyIdle, KeyCall, KeyStage, CallInv
    <2>2. ASSUME NEW i \in DOMAIN sealed
          PROVE  LET call == [KeyIdle EXCEPT !.at = "decrypt", !.op = "migrate", !.from = i]
                 IN  call \in KeyCall /\ CallInv(call)
      <3>1. i \in Nat BY DEF KeyInv, SealedInv
      <3> QED BY <3>1 DEF KeyIdle, KeyCall, KeyStage, CallInv
    <2> QED BY <2>1, <2>2 DEF KeyBegin
  <1> QED BY <1>1, <1>2, KeyCallMoves DEF KeyBegin

LEMMA ReadActiveStep ==
  ASSUME KeyInv, NEW t \in KeyTasks, ReadActive(t)
  PROVE  KeyInv'
  <1>1. keyTask[t] \in KeyCall BY DEF KeyInv, KeyCallInv
  <1>2. nextKey \in Nat \ {0} /\ activeKey \in 0 .. nextKey - 1 /\ DOMAIN keyring = 1 .. nextKey - 1
    BY DEF KeyInv, KeyringInv
  <1>3. activeKey \in Nat /\ activeKey' = activeKey BY <1>2 DEF ReadActive
  <1> DEFINE insert == [keyTask[t] EXCEPT !.at = "insert", !.id = activeKey]
             cipher == [keyTask[t] EXCEPT !.at = "cipher", !.id = activeKey]
  <1>4. insert \in KeyCall /\ CallInv(insert) BY <1>1, <1>3 DEF KeyCall, KeyStage, CallInv
  <1>5. ASSUME activeKey # 0 PROVE cipher \in KeyCall /\ CallInv(cipher)
    <2>1. activeKey \in DOMAIN keyring BY <1>2, <1>5
    <2>2. cipher \in KeyCall /\ cipher.at = "cipher" /\ cipher.id = activeKey
      BY <1>1, <1>3 DEF KeyCall, KeyStage
    <2> HIDE DEF cipher
    <2> QED BY <2>1, <2>2 DEF CallInv
  <1> HIDE DEF insert, cipher
  <1>6. PICK call \in KeyCall : CallInv(call) /\ KeyGoto(t, call)
    BY <1>4, <1>5, IdleKeyCall DEF ReadActive, insert, cipher
  <1> QED BY <1>2, <1>3, <1>6, KeyCallMoves DEF ReadActive

\* add_key: one more key, the others as they were.
LEMMA InsertKeyStep ==
  ASSUME KeyInv, NEW t \in KeyTasks, InsertKey(t)
  PROVE  KeyInv'
  <1>1. keyTask[t] \in KeyCall BY DEF KeyInv, KeyCallInv
  <1>2. nextKey \in Nat \ {0} /\ activeKey \in 0 .. nextKey - 1 /\ DOMAIN keyring = 1 .. nextKey - 1
    BY DEF KeyInv, KeyringInv
  <1>3. PICK k \in KeyValues : keyring' = WithKey(nextKey, [key |-> k, active |-> MakesActive(t)])
    BY DEF InsertKey
  <1> DEFINE entry == [key |-> k, active |-> MakesActive(t)]
             call == [keyTask[t] EXCEPT !.at = "activate"]
  <1>4. entry \in [key : KeyValues, active : BOOLEAN] BY DEF MakesActive
  <1>5. call \in KeyCall /\ call.at = "activate" BY <1>1 DEF KeyCall, KeyStage
  <1>6. /\ nextKey' = nextKey + 1 /\ UNCHANGED <<activeKey, nonces, sealed>>
        /\ keyTask' = [keyTask EXCEPT ![t] = call]
    BY DEF InsertKey, KeyAt, KeyGoto
  <1>7. keyring' = WithKey(nextKey, entry) BY <1>3
  <1> HIDE DEF entry, call
  <1>8. /\ DOMAIN keyring' = 1 .. nextKey' - 1 /\ keyring'[nextKey] = entry
        /\ \A i \in DOMAIN keyring : i \in DOMAIN keyring' /\ keyring'[i] = keyring[i]
    <2>1. /\ DOMAIN keyring' = DOMAIN keyring \union {nextKey} /\ keyring'[nextKey] = entry
          /\ \A i \in DOMAIN keyring : i # nextKey => keyring'[i] = keyring[i]
      BY <1>7 DEF WithKey
    <2>2. (1 .. nextKey - 1) \union {nextKey} = 1 .. nextKey' - 1 /\ nextKey \notin 1 .. nextKey - 1
      BY <1>2, <1>6
    <2> QED BY <1>2, <2>1, <2>2
  <1>9. KeyringInv'
    <2>1. nextKey' \in Nat \ {0} /\ activeKey' \in 0 .. nextKey' - 1 BY <1>2, <1>6
    <2>2. \A i \in DOMAIN keyring' : i = nextKey \/ i \in DOMAIN keyring BY <1>2, <1>6, <1>8
    <2>3. \A i \in DOMAIN keyring' : keyring'[i] \in [key : KeyValues, active : BOOLEAN]
      BY <1>4, <1>8, <2>2 DEF KeyInv, KeyringInv
    <2> QED BY <1>8, <2>1, <2>3 DEF KeyringInv
  <1>10. SealedInv' BY <1>6, <1>8 DEF KeyInv, SealedInv
  <1>11. NonceInv' BY <1>6 DEF KeyInv, NonceInv
  <1>12. KeyCallInv'
    <2>1. \A u \in KeyTasks : keyTask'[u] = IF u = t THEN call ELSE keyTask[u]
      BY <1>6 DEF KeyInv, KeyCallInv
    <2>2. keyTask' \in [KeyTasks -> KeyCall] BY <1>5, <1>6 DEF KeyInv, KeyCallInv
    <2> QED BY <1>5, <1>6, <1>8, <2>1, <2>2 DEF KeyInv, KeyCallInv, CallInv
  <1> QED BY <1>9, <1>10, <1>11, <1>12 DEF KeyInv

LEMMA ActivateStep ==
  ASSUME KeyInv, NEW t \in KeyTasks, ActivateKey(t)
  PROVE  KeyInv'
  <1>1. keyTask[t] \in KeyCall BY DEF KeyInv, KeyCallInv
  <1>2. nextKey \in Nat \ {0} /\ activeKey \in 0 .. nextKey - 1 BY DEF KeyInv, KeyringInv
  <1>3. activeKey' \in 0 .. nextKey - 1 BY <1>2 DEF ActivateKey
  <1> DEFINE retire == [keyTask[t] EXCEPT !.at = "retire"]
  <1>4. retire \in KeyCall /\ CallInv(retire) BY <1>1 DEF KeyCall, KeyStage, CallInv
  <1> HIDE DEF retire
  <1>5. PICK call \in KeyCall : CallInv(call) /\ KeyGoto(t, call)
    BY <1>4, IdleKeyCall DEF ActivateKey, KeyAt, retire
  <1> QED BY <1>3, <1>5, KeyCallMoves DEF ActivateKey

\* rotate_key: the key that is retired stays, with a flag cleared.
LEMMA RetireStep ==
  ASSUME KeyInv, NEW t \in KeyTasks, RetireKey(t)
  PROVE  KeyInv'
  <1>1. /\ keyTask' = [keyTask EXCEPT ![t] = KeyIdle]
        /\ UNCHANGED <<activeKey, nextKey, nonces, sealed>>
    BY DEF RetireKey, KeyGoto
  <1>2. /\ DOMAIN keyring' = DOMAIN keyring
        /\ \A i \in DOMAIN keyring : /\ keyring'[i] \in [key : KeyValues, active : BOOLEAN]
                                     /\ keyring'[i].key = keyring[i].key
    <2>1. \A i \in DOMAIN keyring : keyring[i] \in [key : KeyValues, active : BOOLEAN]
      BY DEF KeyInv, KeyringInv
    <2>2. CASE keyring' = keyring BY <2>1, <2>2
    <2>3. CASE keyring' # keyring
      <3> DEFINE id == keyTask[t].id
                 entry == [keyring[id] EXCEPT !.active = FALSE]
      <3>1. id \in DOMAIN keyring /\ keyring' = [keyring EXCEPT ![id] = entry] BY <2>3 DEF RetireKey
      <3>2. entry \in [key : KeyValues, active : BOOLEAN] /\ entry.key = keyring[id].key BY <2>1, <3>1
      <3> HIDE DEF entry, id
      <3> QED BY <2>1, <3>1, <3>2
    <2> QED BY <2>2, <2>3
  <1>3. KeyringInv' BY <1>1, <1>2 DEF KeyInv, KeyringInv
  <1>4. SealedInv' BY <1>1, <1>2 DEF KeyInv, SealedInv
  <1>5. NonceInv' BY <1>1 DEF KeyInv, NonceInv
  <1>6. KeyCallInv'
    <2>1. \A u \in KeyTasks : keyTask'[u] = IF u = t THEN KeyIdle ELSE keyTask[u]
      BY <1>1 DEF KeyInv, KeyCallInv
    <2>2. keyTask' \in [KeyTasks -> KeyCall] BY <1>1, IdleKeyCall DEF KeyInv, KeyCallInv
    <2> QED BY <1>1, <1>2, <2>1, <2>2, IdleKeyCall DEF KeyInv, KeyCallInv, CallInv
  <1> QED BY <1>3, <1>4, <1>5, <1>6 DEF KeyInv

LEMMA DecryptStep ==
  ASSUME KeyInv, NEW t \in KeyTasks, KeyDecrypt(t)
  PROVE  KeyInv'
  <1> DEFINE call == [keyTask[t] EXCEPT !.at = "readActive"]
  <1>1. keyTask[t] \in KeyCall /\ CallInv(keyTask[t]) BY DEF KeyInv, KeyCallInv
  <1>2. keyTask[t].from \in DOMAIN sealed BY <1>1 DEF KeyDecrypt, CallInv
  <1>3. KeyGoto(t, call) BY <1>2 DEF KeyDecrypt, KeyAt, KeyInv, SealedInv
  <1>4. call \in KeyCall /\ CallInv(call) BY <1>1 DEF KeyCall, KeyStage, CallInv
  <1>5. activeKey' \in 0 .. nextKey - 1 BY DEF KeyDecrypt, KeyInv, KeyringInv
  <1> HIDE DEF call
  <1> QED BY <1>3, <1>4, <1>5, KeyCallMoves DEF KeyDecrypt

\* The nonce of a new ciphertext is not in the history, and goes into it.
LEMMA NonceStep ==
  ASSUME KeyInv, NEW n \in NonceValues, n \notin nonces, RegisterNonce(n),
         NEW c \in Ciphertext, c.nonce = n, sealed' = Append(sealed, c)
  PROVE  NonceInv'
  <1> DEFINE len == Len(sealed)
  <1>1. /\ sealed \in Seq(Ciphertext) /\ len \in Nat /\ NonceHistory \in Nat
        /\ Len(sealed') = len + 1 /\ DOMAIN sealed' = 1 .. len + 1 /\ DOMAIN sealed = 1 .. len
        /\ sealed'[len + 1] = c
        /\ \A i \in 1 .. len : sealed'[i] = sealed[i]
    BY KeysAssumption DEF KeyInv, SealedInv
  <1>2. IsFiniteSet(nonces) /\ Cardinality(nonces) \in Nat /\ Cardinality(nonces) <= len
    BY FS_CardinalityType DEF KeyInv, NonceInv
  <1> HIDE DEF len
  <1>3. PICK s \in SUBSET nonces : /\ nonces' = s \union {n}
                                   /\ Cardinality(nonces) < NonceHistory => s = nonces
    <2>1. CASE Cardinality(nonces) >= NonceHistory
      <3>1. PICK s \in Halves : nonces' = s \union {n} BY <2>1 DEF RegisterNonce
      <3>2. s \in SUBSET nonces BY <3>1 DEF Halves
      <3>3. ~(Cardinality(nonces) < NonceHistory) BY <1>1, <1>2, <2>1
      <3> QED BY <3>1, <3>2, <3>3, Zenon
    <2>2. CASE ~(Cardinality(nonces) >= NonceHistory)
      <3>1. nonces' = nonces \union {n} BY <2>2 DEF RegisterNonce
      <3> QED BY <3>1
    <2> QED BY <2>1, <2>2
  <1>4. IsFiniteSet(s) /\ Cardinality(s) \in Nat /\ Cardinality(s) <= Cardinality(nonces)
    BY <1>2, FS_Subset, FS_CardinalityType
  <1>5. IsFiniteSet(nonces') /\ Cardinality(nonces') <= len + 1
    <2>1. IsFiniteSet(s \union {n}) /\ Cardinality(s \union {n}) = Cardinality(s) + 1
      BY <1>4, FS_AddElement
    <2> QED BY <1>1, <1>2, <1>3, <1>4, <2>1
  <1>6. ASSUME len + 1 <= NonceHistory, NEW i \in 1 .. len + 1 PROVE sealed'[i].nonce \in nonces'
    <2>1. s = nonces BY <1>1, <1>2, <1>3, <1>6
    <2>2. CASE i = len + 1 BY <1>1, <1>3, <2>2
    <2>3. CASE i \in 1 .. len
      <3>1. sealed[i].nonce \in nonces BY <1>1, <1>6, <2>3 DEF KeyInv, NonceInv, len
      <3> QED BY <1>1, <1>3, <2>1, <2>3, <3>1
    <2> QED BY <1>1, <2>2, <2>3
  <1>7. ASSUME NEW i \in 1 .. len + 1, NEW j \in 1 .. len + 1, i < j, j <= NonceHistory
        PROVE  sealed'[i].nonce # sealed'[j].nonce
    <2>1. i \in 1 .. len BY <1>1, <1>7
    <2>2. CASE j = len + 1
      <3>1. len <= NonceHistory BY <1>1, <1>7, <2>2
      <3>2. sealed[i].nonce \in nonces BY <1>1, <2>1, <3>1 DEF KeyInv, NonceInv, len
      <3> QED BY <1>1, <2>1, <2>2, <3>2
    <2>3. CASE j \in 1 .. len
      <3>1. sealed[i].nonce # sealed[j].nonce BY <1>1, <1>7, <2>1, <2>3 DEF KeyInv, NonceInv
      <3> QED BY <1>1, <2>1, <2>3, <3>1
    <2> QED BY <1>1, <2>2, <2>3
  <1> QED BY <1>1, <1>5, <1>6, <1>7 DEF NonceInv

LEMMA CipherStep ==
  ASSUME KeyInv, NEW t \in KeyTasks, KeyCipher(t)
  PROVE  KeyInv'
  <1> DEFINE id == keyTask[t].id
  <1>1. keyTask[t] \in KeyCall /\ CallInv(keyTask[t]) BY DEF KeyInv, KeyCallInv
  <1>2. id \in DOMAIN keyring /\ id \in Nat BY <1>1 DEF KeyCipher, CallInv, KeyCall
  <1>3. KeyGoto(t, KeyIdle) /\ ModelEncrypt(id) /\ UNCHANGED <<keyring, activeKey, nextKey>>
    BY <1>2 DEF KeyCipher
  <1>4. activeKey' \in 0 .. nextKey - 1 BY <1>3 DEF KeyInv, KeyringInv
  <1> HIDE DEF id
  <1>5. CASE UNCHANGED <<nonces, sealed>> BY <1>3, <1>4, <1>5, IdleKeyCall, KeyCallMoves
  <1>6. CASE \E n \in NonceValues :
               /\ n \notin nonces /\ RegisterNonce(n)
               /\ sealed' = Append(sealed, [id |-> id, nonce |-> n, key |-> keyring[id].key])
    <2>1. PICK n \in NonceValues :
               /\ n \notin nonces /\ RegisterNonce(n)
               /\ sealed' = Append(sealed, [id |-> id, nonce |-> n, key |-> keyring[id].key])
      BY <1>6
    <2> DEFINE c == [id |-> id, nonce |-> n, key |-> keyring[id].key]
    <2>2. keyring[id].key \in KeyValues BY <1>2 DEF KeyInv, KeyringInv
    <2>3. c \in Ciphertext /\ c.nonce = n /\ c.id = id /\ c.key = keyring[id].key
      BY <1>2, <2>2 DEF Ciphertext
    <2> HIDE DEF c
    <2>4. sealed' = Append(sealed, c) BY <2>1 DEF c
    <2>5. NonceInv' BY <2>1, <2>3, <2>4, NonceStep
    <2>6. KeyringInv' BY <1>3 DEF KeyInv, KeyringInv
    <2>7. /\ sealed' \in Seq(Ciphertext) /\ DOMAIN sealed \subseteq DOMAIN sealed'
          /\ \A i \in DOMAIN sealed' : sealed'[i] = c \/ (i \in DOMAIN sealed /\ sealed'[i] = sealed[i])
      BY <2>3, <2>4 DEF KeyInv, SealedInv
    <2>8. SealedInv' BY <1>2, <1>3, <2>3, <2>7 DEF KeyInv, SealedInv
    <2>9. KeyCallInv'
      <3>1. \A u \in KeyTasks : keyTask'[u] = IF u = t THEN KeyIdle ELSE keyTask[u]
        BY <1>3 DEF KeyInv, KeyCallInv, KeyGoto
      <3>2. keyTask' \in [KeyTasks -> KeyCall] BY <1>3, IdleKeyCall DEF KeyInv, KeyCallInv, KeyGoto
      <3> QED BY <1>3, <2>7, <3>1, <3>2, IdleKeyCall DEF KeyInv, KeyCallInv, CallInv
    <2> QED BY <2>5, <2>6, <2>8, <2>9 DEF KeyInv
  <1> QED BY <1>3, <1>5, <1>6 DEF ModelEncrypt

LEMMA KeysStep == KeyInv /\ [KeyNext]_keyVars => KeyInv'
  <1> SUFFICES ASSUME KeyInv, [KeyNext]_keyVars PROVE KeyInv' OBVIOUS
  <1>1. CASE UNCHANGED keyVars
    BY <1>1 DEF keyVars, KeyInv, KeyringInv, KeyCallInv, CallInv, SealedInv, NonceInv
  <1> QED
    BY <1>1, BeginKeys, ReadActiveStep, InsertKeyStep, ActivateStep, RetireStep, DecryptStep, CipherStep
    DEF KeyNext

-----------------------------------------------------------------------------
(* The installation salt *)

SaltStage == {"idle", "check", "create", "write", "keep"}

SaltType ==
    /\ saltFile \in Int /\ lastSalt \in Nat
    /\ salter \in [SaltCallers -> [at : SaltStage, salt : Nat]]

\* Unless there was a race one caller at a time creates the file, the salts handed
\* out are what the file holds, and nobody writes the file once there is one.
OneSalt ==
    /\ \A c, d \in Creating : c = d
    /\ salts \subseteq {saltFile} /\ (salts # {} => saltFile > 0)
    /\ saltCache # 0 => saltCache = saltFile /\ saltFile > 0 /\ Creating = {}
    /\ \A c \in SaltCallers :
          /\ salter[c].at \in {"create", "write"} => salts = {} /\ salter[c].salt > 0
          /\ salter[c].at = "keep" => salter[c].salt = saltFile /\ saltFile > 0

SaltInv == SaltType /\ (saltRace \/ OneSalt)

LEMMA SaltInitial == SaltInit => SaltInv
  BY DEF SaltInit, SaltInv, SaltType, SaltStage, OneSalt, Creating

LEMMA SaltStep == SaltInv /\ [SaltNext]_saltVars => SaltInv'
  <1> SUFFICES ASSUME SaltInv, [SaltNext]_saltVars PROVE SaltInv' OBVIOUS
  <1> USE DEF SaltInv
  <1>1. ASSUME NEW c \in SaltCallers,
               SaltBegin(c) \/ SaltCheck(c) \/ SaltCreate(c) \/ SaltWrite(c) \/ SaltKeep(c)
        PROVE  SaltInv'
    <2>1. PICK at \in SaltStage, salt \in Nat : SaltAt(c, at, salt) /\ SaltType'
      <3>1. salter[c].salt \in Nat BY DEF SaltType
      <3>2. CASE SaltBegin(c) BY <3>2 DEF SaltBegin, SaltAt, SaltType, SaltStage
      <3>3. CASE SaltCheck(c) BY <3>3 DEF SaltCheck, SaltAt, SaltType, SaltStage
      <3>4. CASE SaltCreate(c) BY <3>1, <3>4 DEF SaltCreate, SaltAt, SaltType, SaltStage
      <3>5. CASE SaltWrite(c)
        <4>1. SaltAt(c, "keep", salter[c].salt) /\ saltFile' \in Int /\ lastSalt' = lastSalt
          BY <3>1, <3>5 DEF SaltWrite
        <4>2. SaltType' BY <3>1, <4>1 DEF SaltAt, SaltType, SaltStage
        <4> QED BY <3>1, <4>1, <4>2 DEF SaltStage
      <3>6. CASE SaltKeep(c) BY <3>6 DEF SaltKeep, SaltAt, SaltType, SaltStage
      <3> QED BY <1>1, <3>2, <3>3, <3>4, <3>5, <3>6
    <2>2. \A d \in SaltCallers : salter'[d] = IF d = c THEN [at |-> at, salt |-> salt] ELSE salter[d]
      BY <2>1 DEF SaltAt, SaltType
    <2>3. CASE saltRace' BY <2>1, <2>3
    <2>4. CASE ~saltRace'
      <3>1. OneSalt
        BY <1>1, <2>4 DEF SaltBegin, SaltCheck, SaltCreate, SaltWrite, SaltKeep
      <3>2. Creating' \subseteq Creating \union {c} BY <2>2 DEF Creating
      <3>3. CASE SaltBegin(c)
        <4>1. CASE saltCache # 0
          <5>1. /\ salts' = salts \union {saltCache} /\ UNCHANGED <<saltFile, saltCache>>
                /\ salter'[c].at = "idle" /\ \A d \in SaltCallers : d # c => salter'[d] = salter[d]
            BY <2>2, <3>3, <4>1 DEF SaltBegin, SaltAt, SaltType
          <5>2. Creating' = {} BY <3>1, <4>1, <5>1 DEF OneSalt, Creating
          <5>3. \A d \in SaltCallers : salter'[d].at \notin {"create", "write", "keep"}
            BY <5>2 DEF Creating
          <5>4. OneSalt' BY <3>1, <4>1, <5>1, <5>2, <5>3 DEF OneSalt
          <5> QED BY <2>1, <5>4
        <4>2. CASE saltCache = 0
          <5>0. SaltAt(c, "check", 0) /\ saltRace' = (saltRace \/ Creating # {})
                /\ UNCHANGED <<salts, saltFile, saltCache>>
            BY <3>3, <4>2, Zenon DEF SaltBegin
          <5>1. /\ Creating = {} /\ UNCHANGED <<salts, saltFile, saltCache>>
                /\ salter'[c].at = "check" /\ \A d \in SaltCallers : d # c => salter'[d] = salter[d]
            <6>1. Creating = {} BY <2>4, <5>0, Zenon
            <6> QED BY <2>2, <5>0, <6>1 DEF SaltAt, SaltType
          <5>2. \A d \in SaltCallers : salter'[d].at \notin {"create", "write", "keep"}
            BY <5>1 DEF Creating
          <5>3. OneSalt' BY <3>1, <3>2, <4>2, <5>1, <5>2 DEF OneSalt
          <5> QED BY <2>1, <5>3
        <4> QED BY <4>1, <4>2
      <3>4. CASE SaltCheck(c)
        BY <2>2, <2>4, <3>1, <3>2, <3>4 DEF SaltCheck, SaltAt, OneSalt, Creating, SaltType
      <3>5. CASE SaltCreate(c)
        <4>1. /\ c \in Creating /\ salts = {} /\ salter[c].salt > 0
              /\ UNCHANGED <<salts, saltCache>> /\ salter[c].at = "create"
          BY <3>1, <3>5 DEF SaltCreate, OneSalt, Creating
        <4>2. Creating = {c} /\ saltCache = 0 BY <3>1, <4>1 DEF OneSalt
        <4>3. \A d \in SaltCallers : d # c => salter'[d].at \notin {"create", "write", "keep"}
          BY <2>2, <4>2 DEF Creating
        <4>4. (salter'[c].at = "write" /\ salter'[c].salt > 0) \/ salter'[c].at = "idle"
          BY <3>5, <4>1 DEF SaltCreate, SaltAt, SaltType
        <4>5. OneSalt' BY <3>2, <4>1, <4>2, <4>3, <4>4 DEF OneSalt
        <4> QED BY <2>1, <4>5
      <3>6. CASE SaltWrite(c)
        BY <2>2, <2>4, <3>1, <3>2, <3>6 DEF SaltWrite, SaltAt, OneSalt, Creating, SaltType
      <3>7. CASE SaltKeep(c)
        <4>1. c \in Creating /\ salter[c].salt = saltFile /\ saltFile > 0 /\ salter[c].at = "keep"
          BY <3>1, <3>7 DEF SaltKeep, OneSalt, Creating
        <4>2. Creating = {c} /\ saltCache = 0 BY <3>1, <4>1 DEF OneSalt
        <4>3. /\ saltCache' = saltFile /\ salts' = salts \union {saltFile} /\ saltFile' = saltFile
              /\ salter'[c].at = "idle"
          BY <3>7, <4>1, <4>2 DEF SaltKeep, SaltAt, SaltType
        <4>4. Creating' = {} BY <3>2, <4>2, <4>3 DEF Creating
        <4>5. \A d \in SaltCallers : salter'[d].at \notin {"create", "write", "keep"}
          BY <4>4 DEF Creating
        <4>6. OneSalt' BY <3>1, <4>1, <4>3, <4>4, <4>5 DEF OneSalt
        <4> QED BY <2>1, <4>6
      <3> QED BY <1>1, <2>1, <3>3, <3>4, <3>5, <3>6, <3>7
    <2> QED BY <2>3, <2>4
  <1>2. CASE SaltRestart
    <2>1. /\ \A c \in SaltCallers : salter'[c] = [at |-> "idle", salt |-> 0]
          /\ saltCache' = 0 /\ UNCHANGED <<saltFile, salts, lastSalt, saltRace>>
      BY <1>2 DEF SaltRestart
    <2>2. SaltType' BY <1>2 DEF SaltRestart, SaltType, SaltStage
    <2>3. Creating' = {} BY <2>1 DEF Creating
    <2>4. OneSalt => OneSalt' BY <2>1, <2>3 DEF OneSalt
    <2> QED BY <2>1, <2>2, <2>4
  <1>3. CASE UNCHANGED saltVars BY <1>3 DEF saltVars, SaltType, OneSalt, Creating
  <1> QED BY <1>1, <1>2, <1>3 DEF SaltNext

LEMMA SaltSafe == SaltInv => OneSaltUnlessRaced
  <1> SUFFICES ASSUME SaltInv, ~saltRace PROVE Cardinality(salts) <= 1 BY DEF OneSaltUnlessRaced
  <1>1. salts \subseteq {saltFile} BY DEF SaltInv, OneSalt
  <1>2. IsFiniteSet({saltFile}) /\ Cardinality({saltFile}) = 1 BY FS_Singleton
  <1> QED BY <1>1, <1>2, FS_Subset, FS_CardinalityType

\* For any number of tasks and callers and whatever the generator returns: no
\* ciphertext is orphaned by a rotation and no encryption misses the key it read as
\* active; the first NonceHistory encryptions have different nonces; and over every
\* run of the program one installation salt is handed out, unless two callers raced
\* to create it (KeyManager::add_key, rotate_key and encrypt,
\* check_and_register_nonce, get_or_create_installation_salt).
THEOREM KeysCorrect == KeysSpec => []KeysUsable
  <1> DEFINE Inv == KeyInv /\ SaltInv
  <1>1. KeyInit /\ SaltInit => Inv BY KeysInitial, SaltInitial
  <1>2. Inv /\ [KeysNext]_<<keyVars, saltVars>> => Inv'
    <2>1. [KeysNext]_<<keyVars, saltVars>> => [KeyNext]_keyVars /\ [SaltNext]_saltVars
      BY DEF KeysNext
    <2> QED BY <2>1, KeysStep, SaltStep
  <1>3. Inv => KeysUsable
    <2>1. KeyInv => CiphertextsReadable
      <3> SUFFICES ASSUME KeyInv PROVE CiphertextsReadable OBVIOUS
      <3>1. \A t \in KeyTasks : keyTask[t].at \notin {"lost", "forged"}
        BY DEF KeyInv, KeyCallInv, KeyCall, KeyStage
      <3> QED BY <3>1 DEF KeyInv, SealedInv, NonceInv, CiphertextsReadable
    <2> QED BY <2>1, SaltSafe DEF KeysUsable
  <1> QED BY <1>1, <1>2, <1>3, PTL DEF KeysSpec

-----------------------------------------------------------------------------
(* Start-up, sandbox and command line *)

Allowed(nr) == \E i \in 1 .. Len(AllowedSyscalls) : AllowedSyscalls[i] = nr

\* What the kernel finds from instruction i on.
VerdictFrom(i, native, nr) ==
    LET n == Len(AllowedSyscalls) IN
    CASE i = n + 4 -> "kill"
      [] i = n + 5 -> "allow"
      [] i \in {1, 2} -> IF native /\ Allowed(nr) THEN "allow" ELSE "kill"
      [] OTHER -> IF \E k \in 1 .. n : k >= i - 3 /\ AllowedSyscalls[k] = nr THEN "allow" ELSE "kill"

LEMMA ProgramTold ==
  LET n == Len(AllowedSyscalls)
      P == FilterProgram
  IN  /\ n \in Nat /\ Len(P) = n + 5
      /\ P[1].op = "load" /\ P[3].op = "load" /\ P[2].op = "arch" /\ P[2].jf = n + 1
      /\ P[n + 4].op = "kill" /\ P[n + 5].op = "allow"
      /\ \A i \in 4 .. n + 3 : P[i].op = "equal" /\ P[i].nr = AllowedSyscalls[i - 3] /\ P[i].jt = n + 4 - i
  <1> DEFINE n == Len(AllowedSyscalls)
             P == FilterProgram
  <1>1. n \in Nat BY DaemonAssumption
  <1>2. P = [i \in 1 .. n + 5 |->
        CASE i \in {1, 3} -> [op |-> "load"]
          [] i = 2 -> [op |-> "arch", jf |-> n + 1]
          [] i = n + 4 -> [op |-> "kill"]
          [] i = n + 5 -> [op |-> "allow"]
          [] OTHER -> [op |-> "equal", nr |-> AllowedSyscalls[i - 3], jt |-> n - (i - 4)]]
    BY <1>1 DEF FilterProgram, AllowAt, KillAt
  <1> HIDE DEF n, P
  <1>3. Len(P) = n + 5 BY <1>1, <1>2
  <1>4. /\ P[1] = [op |-> "load"] /\ P[3] = [op |-> "load"] /\ P[2] = [op |-> "arch", jf |-> n + 1]
        /\ P[n + 4] = [op |-> "kill"] /\ P[n + 5] = [op |-> "allow"]
    <2>1. P[1] = [op |-> "load"] BY <1>1, <1>2
    <2>2. P[2] = [op |-> "arch", jf |-> n + 1] BY <1>1, <1>2
    <2>3. P[3] = [op |-> "load"] BY <1>1, <1>2
    <2>4. P[n + 4] = [op |-> "kill"]
      <3>1. ASSUME NEW i \in 1 .. n + 5, i = n + 4 PROVE P[i] = [op |-> "kill"]
        <4>1. i \notin {1, 2, 3, n + 5} BY <1>1, <3>1
        <4> QED BY <1>2, <3>1, <4>1
      <3> QED BY <1>1, <3>1
    <2>5. P[n + 5] = [op |-> "allow"]
      <3>1. ASSUME NEW i \in 1 .. n + 5, i = n + 5 PROVE P[i] = [op |-> "allow"]
        <4>1. i \notin {1, 2, 3, n + 4} BY <1>1, <3>1
        <4> QED BY <1>2, <3>1, <4>1
      <3> QED BY <1>1, <3>1
    <2> QED BY <2>1, <2>2, <2>3, <2>4, <2>5
  <1>5. /\ P[1].op = "load" /\ P[3].op = "load" /\ P[2].op = "arch" /\ P[2].jf = n + 1
        /\ P[n + 4].op = "kill" /\ P[n + 5].op = "allow"
    BY <1>4
  <1>6. ASSUME NEW i \in 4 .. n + 3
        PROVE  P[i].op = "equal" /\ P[i].nr = AllowedSyscalls[i - 3] /\ P[i].jt = n + 4 - i
    <2>1. P[i] = [op |-> "equal", nr |-> AllowedSyscalls[i - 3], jt |-> n - (i - 4)]
      <3>1. i \in 1 .. n + 5 /\ i \notin {1, 2, 3, n + 4, n + 5} BY <1>1
      <3> QED BY <1>2, <3>1
    <2>2. n - (i - 4) = n + 4 - i BY <1>1
    <2> QED BY <2>1, <2>2
  <1> QED BY <1>1, <1>3, <1>5, <1>6 DEF n, P

LEMMA FilterVerdictIs ==
  ASSUME NEW native \in BOOLEAN, NEW nr
  PROVE  FilterVerdict(FilterProgram, native, nr) = "allow" <=> native /\ Allowed(nr)
  <1> DEFINE n == Len(AllowedSyscalls)
             P == FilterProgram
             V(i) == VerdictFrom(i, native, nr)
             Next1(i, r) ==
               CASE P[i].op \in {"kill", "allow"} -> P[i].op
                 [] P[i].op = "load" -> r[i + 1]
                 [] P[i].op = "arch" -> r[i + 1 + (IF native THEN 0 ELSE P[i].jf)]
                 [] OTHER -> r[i + 1 + (IF nr = P[i].nr THEN P[i].jt ELSE 0)]
             run == CHOOSE r : r = [i \in 1 .. Len(P) |-> Next1(i, r)]
             g == [i \in 1 .. Len(P) |-> V(i)]
  <1>1. FilterVerdict(P, native, nr) = run[1] BY DEF FilterVerdict
  <1>2. n \in Nat /\ Len(P) = n + 5 BY ProgramTold
  <1>3. /\ P[1].op = "load" /\ P[3].op = "load" /\ P[2].op = "arch" /\ P[2].jf = n + 1
        /\ P[n + 4].op = "kill" /\ P[n + 5].op = "allow"
        /\ \A i \in 4 .. n + 3 : P[i].op = "equal" /\ P[i].nr = AllowedSyscalls[i - 3] /\ P[i].jt = n + 4 - i
    BY ProgramTold
  <1> HIDE DEF P, n
  <1>4. ASSUME NEW r
        PROVE  /\ Next1(1, r) = r[2] /\ Next1(2, r) = (IF native THEN r[3] ELSE r[n + 4]) /\ Next1(3, r) = r[4]
               /\ Next1(n + 4, r) = "kill" /\ Next1(n + 5, r) = "allow"
               /\ \A i \in 4 .. n + 3 : Next1(i, r) = (IF nr = AllowedSyscalls[i - 3] THEN r[n + 5] ELSE r[i + 1])
    <2>1. Next1(1, r) = r[2] BY <1>3
    <2>2. Next1(2, r) = (IF native THEN r[3] ELSE r[n + 4])
      <3>1. 2 + 1 + (n + 1) = n + 4 BY <1>2
      <3>2. Next1(2, r) = r[2 + 1 + (IF native THEN 0 ELSE P[2].jf)] BY <1>3
      <3> QED BY <1>3, <3>1, <3>2
    <2>3. Next1(3, r) = r[4] BY <1>3
    <2>4. Next1(n + 4, r) = "kill" /\ Next1(n + 5, r) = "allow" BY <1>3
    <2>5. ASSUME NEW i \in 4 .. n + 3
          PROVE  Next1(i, r) = (IF nr = AllowedSyscalls[i - 3] THEN r[n + 5] ELSE r[i + 1])
      <3>1. i + 1 + (n + 4 - i) = n + 5 /\ i + 1 + 0 = i + 1 BY <1>2
      <3>2. Next1(i, r) = r[i + 1 + (IF nr = P[i].nr THEN P[i].jt ELSE 0)] BY <1>3
      <3> QED BY <1>3, <3>1, <3>2
    <2> QED BY <2>1, <2>2, <2>3, <2>4, <2>5
  <1> HIDE DEF Next1
  \* The function VerdictFrom is one that satisfies the equation.
  <1>5. /\ V(n + 4) = "kill" /\ V(n + 5) = "allow" /\ V(1) = V(2) /\ V(3) = V(4)
        /\ V(2) = (IF native THEN V(3) ELSE V(n + 4))
        /\ \A i \in 4 .. n + 3 : V(i) = (IF nr = AllowedSyscalls[i - 3] THEN V(n + 5) ELSE V(i + 1))
        /\ V(1) = "allow" <=> native /\ Allowed(nr)
    <2> DEFINE Later(i) == \E k \in 1 .. n : k >= i - 3 /\ AllowedSyscalls[k] = nr
    <2>1. V(n + 4) = "kill" /\ V(n + 5) = "allow"
      <3>1. n + 4 # n + 5 BY <1>2
      <3> QED BY <3>1 DEF VerdictFrom, n
    <2>2. \A i \in {1, 2} : V(i) = (IF native /\ Allowed(nr) THEN "allow" ELSE "kill")
      BY <1>2 DEF VerdictFrom, n
    <2>3. \A i \in 3 .. n + 4 : V(i) = (IF Later(i) THEN "allow" ELSE "kill")
      <3> TAKE i \in 3 .. n + 4
      <3>1. CASE i = n + 4
        <4>1. ~Later(i) BY <1>2, <3>1
        <4> QED BY <2>1, <3>1, <4>1
      <3>2. CASE i # n + 4
        <4>1. i # n + 5 /\ i \notin {1, 2} BY <1>2
        <4> QED BY <3>2, <4>1 DEF VerdictFrom, n
      <3> QED BY <3>1, <3>2
    <2> HIDE DEF V
    <2>4. Later(3) <=> Allowed(nr) BY <1>2 DEF Allowed, n
    <2>5. Later(4) <=> Allowed(nr) BY <1>2 DEF Allowed, n
    <2>6. \A i \in 4 .. n + 3 : Later(i) <=> (nr = AllowedSyscalls[i - 3] \/ Later(i + 1))
      BY <1>2
    <2>7. 3 \in 3 .. n + 4 /\ 4 \in 3 .. n + 4 BY <1>2
    <2>8. \A i \in 4 .. n + 3 : i \in 3 .. n + 4 /\ i + 1 \in 3 .. n + 4 BY <1>2
    <2> HIDE DEF Later
    <2>9. V(1) = V(2) /\ (V(1) = "allow" <=> native /\ Allowed(nr)) BY <2>2
    <2>10. V(3) = V(4) BY <2>3, <2>4, <2>5, <2>7
    <2>11. V(2) = (IF native THEN V(3) ELSE V(n + 4)) BY <2>1, <2>2, <2>3, <2>4, <2>7
    <2>12. \A i \in 4 .. n + 3 : V(i) = (IF nr = AllowedSyscalls[i - 3] THEN V(n + 5) ELSE V(i + 1))
      BY <2>1, <2>3, <2>6, <2>8
    <2> QED BY <2>1, <2>9, <2>10, <2>11, <2>12
  <1> HIDE DEF V
  <1>6. \A i \in 1 .. n + 5 : i \in {1, 2, 3, n + 4, n + 5} \/ i \in 4 .. n + 3 BY <1>2
  <1>7. g = [i \in 1 .. Len(P) |-> Next1(i, g)]
    <2>1. \A i \in 1 .. n + 5 : g[i] = V(i) BY <1>2
    <2>2. /\ 1 \in 1 .. n + 5 /\ 2 \in 1 .. n + 5 /\ 3 \in 1 .. n + 5 /\ 4 \in 1 .. n + 5
          /\ n + 4 \in 1 .. n + 5 /\ n + 5 \in 1 .. n + 5
          /\ \A i \in 4 .. n + 3 : i + 1 \in 1 .. n + 5
      BY <1>2
    <2>3. ASSUME NEW i \in 1 .. n + 5 PROVE V(i) = Next1(i, g)
      <3> HIDE DEF g
      <3>1. CASE i = 1 BY <1>4, <1>5, <2>1, <2>2, <3>1
      <3>2. CASE i = 2 BY <1>4, <1>5, <2>1, <2>2, <3>2
      <3>3. CASE i = 3 BY <1>4, <1>5, <2>1, <2>2, <3>3
      <3>4. CASE i \in {n + 4, n + 5} BY <1>4, <1>5, <3>4
      <3>5. CASE i \in 4 .. n + 3 BY <1>4, <1>5, <2>1, <2>2, <3>5
      <3> QED BY <1>6, <3>1, <3>2, <3>3, <3>4, <3>5
    <2> QED BY <1>2, <2>3
  <1>8. run = [i \in 1 .. n + 5 |-> Next1(i, run)] BY <1>2, <1>7
  <1> HIDE DEF run
  <1>9. \A i \in 1 .. n + 5 : run[i] = Next1(i, run) BY <1>8
  \* From the end to the beginning, run is VerdictFrom.
  <1>10. \A i \in 4 .. n + 5 : run[i] = V(i)
    <2> DEFINE Differ == {d \in 0 .. n + 1 : run[n + 5 - d] # V(n + 5 - d)}
    <2>1. CASE Differ # {}
      <3>1. Differ \in SUBSET Nat BY <1>2
      <3>2. PICK d \in Differ : \A e \in Differ : d <= e BY <2>1, <3>1, FirstOfNumbers
      <3>3. n + 5 \in 1 .. n + 5 /\ n + 4 \in 1 .. n + 5 /\ n + 5 - 0 = n + 5 /\ n + 5 - 1 = n + 4 BY <1>2
      <3>4. d # 0 /\ d # 1 BY <1>4, <1>5, <1>9, <3>2, <3>3
      <3> DEFINE i == n + 5 - d
      <3>5. /\ i \in 4 .. n + 3 /\ i \in 1 .. n + 5 /\ i + 1 = n + 5 - (d - 1)
            /\ d - 1 \in 0 .. n + 1 /\ ~(d <= d - 1) /\ 0 \in 0 .. n + 1 /\ ~(d <= 0)
        BY <1>2, <3>2, <3>4
      <3>6. d - 1 \notin Differ /\ 0 \notin Differ BY <3>2, <3>5
      <3>7. run[i + 1] = V(i + 1) /\ run[n + 5] = V(n + 5) BY <3>3, <3>5, <3>6
      <3>8. run[i] # V(i) BY <3>2
      <3> HIDE DEF i
      <3> QED BY <1>4, <1>5, <1>9, <3>5, <3>7, <3>8
    <2>2. CASE Differ = {}
      <3> TAKE i \in 4 .. n + 5
      <3>1. n + 5 - i \in 0 .. n + 1 /\ n + 5 - (n + 5 - i) = i BY <1>2
      <3> QED BY <2>2, <3>1
    <2> QED BY <2>1, <2>2
  <1>11. /\ 1 \in 1 .. n + 5 /\ 2 \in 1 .. n + 5 /\ 3 \in 1 .. n + 5 /\ 4 \in 4 .. n + 5 /\ n + 4 \in 4 .. n + 5 BY <1>2
  <1>12. run[1] = V(1) BY <1>4, <1>5, <1>9, <1>10, <1>11
  <1> QED BY <1>1, <1>5, <1>12 DEF P

-----------------------------------------------------------------------------
(* The daemon and its commands *)

Up == {"waiting", "signalled", "draining", "stopped", "exited"}

\* What has been decided when the daemon got so far; commands are served by a
\* listener, which is spawned last.
BootInv ==
    /\ boot \in [mode : {"off", "enforce", "seccomp"}, policy : {"none", "set"}, cgroup : BOOLEAN]
    /\ daemon \in {"preload", "sandbox", "serve"} \union Up => boot.policy = "set"
    /\ daemon \in {"sandbox", "serve"} \union Up => preload = 0
    /\ daemon \in {"serve"} \union Up =>
         /\ boot.mode = "enforce" => boot.cgroup
         /\ boot.mode # "off" => filter = FilterProgram
    /\ listener # "none" => daemon \in Up
    /\ \A c \in Commands : serving[c].at # "none" => listener # "none"

Phases == {"Running", "Draining", "Stopped"}
CommandKind == {"none", "liveness", "readiness", "full", "unary", "stream", "load", "unload"}
CommandRecord == [kind : CommandKind, at : {"idle", "handshake", "asked", "exited"}, exit : Nat,
                  began : Phases, ok : BOOLEAN]
ServingStage == {"none", "backlog", "closed", "reading", "session", "state", "models", "answered", "queued", "streaming"}
ServingRecord == [at : ServingStage, state : Phases, models : Nat]
Frame == [what : {"ack", "error", "health", "inference", "chunk", "text", "models"}, good : BOOLEAN]
Ready == {"readiness", "full"}

\* A command, the daemon's side of it and the frames between them, in a shutdown
\* state: a state read as Running was read of a command that began before the
\* shutdown, and so was every good frame for a probe made.
Told(cm, sv, w, co) ==
    /\ co = "Running" => cm.began = "Running"
    /\ cm.at = "idle" => sv.at = "none" /\ w = <<>>
    /\ cm.at = "handshake" => cm.kind \notin Probes
    /\ sv.at \in {"session", "queued", "streaming"} => cm.kind \notin Probes
    /\ cm.kind \in Ready /\ sv.at \in {"state", "models"} /\ sv.state = "Running" => cm.began = "Running"
    /\ cm.kind \in Ready => \A i \in 1 .. Len(w) : w[i].good => cm.began = "Running"
    /\ cm.at = "exited" /\ cm.exit = 0 => cm.ok /\ (cm.kind \in Ready => cm.began = "Running")

TalkType ==
    /\ command \in [Commands -> CommandRecord] /\ serving \in [Commands -> ServingRecord]
    /\ wire \in [Commands -> Seq(Frame)] /\ coordinator \in Phases /\ registered \in Nat
TalkInv == TalkType /\ \A c \in Commands : Told(command[c], serving[c], wire[c], coordinator)

DaemonInv == BootInv /\ TalkInv

LEMMA DaemonInitial == DaemonInit => DaemonInv
  <1> SUFFICES ASSUME DaemonInit PROVE DaemonInv OBVIOUS
  <1>1. BootInv BY DEF DaemonInit, BootInv, Up, NoConnection
  <1>2. TalkType
    <2>1. Idle \in CommandRecord BY DEF Idle, CommandRecord, CommandKind, Phases
    <2>2. NoConnection \in ServingRecord BY DEF NoConnection, ServingRecord, ServingStage, Phases
    <2>3. <<>> \in Seq(Frame) OBVIOUS
    <2>4. coordinator \in Phases /\ registered \in Nat BY DEF DaemonInit, Phases
    <2>5. /\ command = [c \in Commands |-> Idle] /\ serving = [c \in Commands |-> NoConnection]
          /\ wire = [c \in Commands |-> <<>>]
      BY DEF DaemonInit
    <2> QED BY <2>1, <2>2, <2>3, <2>4, <2>5 DEF TalkType
  <1>3. \A c \in Commands : Told(command[c], serving[c], wire[c], coordinator)
    BY DEF DaemonInit, Told, Idle, NoConnection, Probes, Ready
  <1> QED BY <1>1, <1>2, <1>3 DEF DaemonInv, TalkInv

LEMMA BootSafe == ASSUME DaemonInv, BootStep PROVE DaemonInv'
  <1>1. UNCHANGED <<coordinator, listener, command, serving, wire>>
    BY DEF BootStep, ParseServeModels, SandboxModeFromEnv, RunPowerOnSelfTests, AuthPolicyIsSet, PreloadOne,
           ApplyDaemonSandbox, clientVars
  <1>2. registered' \in Nat
    BY DEF BootStep, ParseServeModels, SandboxModeFromEnv, RunPowerOnSelfTests, AuthPolicyIsSet, PreloadOne,
           ApplyDaemonSandbox, DaemonInv, TalkInv, TalkType
  <1>3. TalkInv' BY <1>1, <1>2 DEF DaemonInv, TalkInv, TalkType
  <1> SUFFICES BootInv' BY <1>3 DEF DaemonInv
  <1> USE DEF BootInv, Up, bootVars, Abort
  <1>4. daemon \notin Up => listener = "none" /\ \A c \in Commands : serving[c].at = "none" BY DEF DaemonInv
  <1>5. CASE ParseServeModels BY <1>1, <1>4, <1>5 DEF DaemonInv, ParseServeModels
  <1>6. CASE SandboxModeFromEnv BY <1>1, <1>4, <1>6 DEF DaemonInv, SandboxModeFromEnv
  <1>7. CASE RunPowerOnSelfTests BY <1>1, <1>4, <1>7 DEF DaemonInv, RunPowerOnSelfTests
  <1>8. CASE AuthPolicyIsSet BY <1>1, <1>4, <1>8 DEF DaemonInv, AuthPolicyIsSet
  <1>9. CASE PreloadOne BY <1>1, <1>4, <1>9 DEF DaemonInv, PreloadOne
  <1>10. CASE ApplyDaemonSandbox BY <1>1, <1>4, <1>10 DEF DaemonInv, ApplyDaemonSandbox, SandboxApplies
  <1> QED BY <1>5, <1>6, <1>7, <1>8, <1>9, <1>10 DEF BootStep, DaemonInv

LEMMA ServeSafe == ASSUME DaemonInv, ServeStep PROVE DaemonInv'
  <1>1. UNCHANGED <<boot, preload, filter, registered, command, wire>>
    BY DEF ServeStep, RunIpcServer, BindListener, CtrlC, CloseListener, InitiateShutdown, DrainOver, DaemonExits,
           bootVars, clientVars
  <1>2. /\ coordinator' \in Phases /\ (coordinator' = "Running" => coordinator = "Running")
        /\ \A c \in Commands : serving'[c] = serving[c] \/ serving'[c] = [serving[c] EXCEPT !.at = "closed"]
        /\ \A c \in Commands : serving[c].at = "none" => serving'[c] = serving[c]
        /\ serving' \in [Commands -> ServingRecord]
    <2> USE DEF DaemonInv, TalkInv, TalkType
    <2>1. \A c \in Commands : [serving[c] EXCEPT !.at = "closed"] \in ServingRecord
      BY DEF ServingRecord, ServingStage
    <2>2. CASE RunIpcServer \/ BindListener \/ CtrlC
      BY <2>2 DEF RunIpcServer, BindListener, CtrlC, clientVars, Phases
    <2>3. CASE InitiateShutdown \/ DrainOver
      BY <2>3 DEF InitiateShutdown, DrainOver, clientVars, Phases
    <2>4. CASE CloseListener BY <2>1, <2>4 DEF CloseListener, Phases
    <2>5. CASE DaemonExits BY <2>1, <2>5 DEF DaemonExits, Phases
    <2> QED BY <2>2, <2>3, <2>4, <2>5 DEF ServeStep
  <1>3. TalkType' BY <1>1, <1>2 DEF DaemonInv, TalkInv, TalkType
  <1>4. ASSUME NEW c \in Commands PROVE Told(command[c], serving[c], wire[c], coordinator)'
    <2>1. Told(command[c], serving[c], wire[c], coordinator) BY DEF DaemonInv, TalkInv
    <2>2. CASE serving'[c] = serving[c] BY <1>1, <1>2, <2>1, <2>2 DEF Told
    <2>3. CASE serving'[c] = [serving[c] EXCEPT !.at = "closed"] /\ serving[c].at # "none"
      <3>1. serving'[c].at = "closed" BY <2>3 DEF DaemonInv, TalkInv, TalkType, ServingRecord
      <3>2. command[c].at # "idle" BY <2>1, <2>3 DEF Told
      <3> QED BY <1>1, <1>2, <2>1, <3>1, <3>2 DEF Told
    <2> QED BY <1>2, <2>2, <2>3
  <1>5. /\ daemon \in {"serve"} \union Up /\ daemon' \in Up
        /\ (listener # "none" => listener' # "none")
    BY DEF DaemonInv, BootInv, Up, ServeStep, RunIpcServer, BindListener, CtrlC, CloseListener, InitiateShutdown,
           DrainOver, DaemonExits, bootVars, clientVars
  <1>6. BootInv'
    <2>1. \A c \in Commands : serving'[c].at # "none" => serving[c].at # "none" BY <1>2
    <2> QED BY <1>1, <1>5, <2>1 DEF DaemonInv, BootInv, Up
  <1> QED BY <1>3, <1>4, <1>6 DEF DaemonInv, TalkInv

\* A step of one command, by what becomes of the two sides and the frames.
LEMMA CommandMoves ==
  ASSUME DaemonInv, NEW c \in Commands, NEW cm \in CommandRecord, NEW sv \in ServingRecord, NEW w \in Seq(Frame),
         command' = [command EXCEPT ![c] = cm], serving' = [serving EXCEPT ![c] = sv],
         wire' = [wire EXCEPT ![c] = w], registered' \in Nat,
         UNCHANGED <<daemon, preload, boot, filter, coordinator, listener>>,
         Told(cm, sv, w, coordinator), sv.at # "none" => listener # "none"
  PROVE  DaemonInv'
  <1>1. \A d \in Commands : /\ command'[d] = (IF d = c THEN cm ELSE command[d])
                            /\ serving'[d] = (IF d = c THEN sv ELSE serving[d])
                            /\ wire'[d] = (IF d = c THEN w ELSE wire[d])
    BY DEF DaemonInv, TalkInv, TalkType
  <1>2. TalkType' BY DEF DaemonInv, TalkInv, TalkType
  <1>3. ASSUME NEW d \in Commands PROVE Told(command[d], serving[d], wire[d], coordinator)'
    <2>1. Told(command'[d], serving'[d], wire'[d], coordinator)
      <3>1. CASE d = c BY <1>1, <3>1
      <3>2. CASE d # c BY <1>1, <3>2 DEF DaemonInv, TalkInv
      <3> QED BY <3>1, <3>2
    <2> QED BY <2>1 DEF Told
  <1>4. BootInv'
    <2>1. \A d \in Commands : serving'[d].at # "none" => listener # "none"
      BY <1>1 DEF DaemonInv, BootInv
    <2> QED BY <2>1 DEF DaemonInv, BootInv
  <1> QED BY <1>2, <1>3, <1>4 DEF DaemonInv, TalkInv

\* The daemon's side moves to another stage, and may write a frame.
LEMMA ServingMoves ==
  ASSUME DaemonInv, NEW c \in Commands, NEW sv \in ServingRecord, NEW w \in Seq(Frame),
         serving' = [serving EXCEPT ![c] = sv], wire' = [wire EXCEPT ![c] = w],
         registered' \in Nat, UNCHANGED <<daemon, preload, boot, filter, coordinator, listener, command>>,
         Told(command[c], sv, w, coordinator), serving[c].at # "none"
  PROVE  DaemonInv'
  <1>1. command[c] \in CommandRecord /\ command' = [command EXCEPT ![c] = command[c]]
    BY DEF DaemonInv, TalkInv, TalkType
  <1>2. listener # "none" BY DEF DaemonInv, BootInv
  <1> QED BY <1>1, <1>2, CommandMoves

LEMMA FrameWritten ==
  ASSUME DaemonInv, NEW c \in Commands, NEW f \in Frame
  PROVE  /\ Append(wire[c], f) \in Seq(Frame) /\ Append(wire[c], f) # <<>>
         /\ Len(Append(wire[c], f)) = Len(wire[c]) + 1
         /\ \A i \in 1 .. Len(wire[c]) + 1 :
               Append(wire[c], f)[i] = (IF i = Len(wire[c]) + 1 THEN f ELSE wire[c][i])
  <1>1. wire[c] \in Seq(Frame) BY DEF DaemonInv, TalkInv, TalkType
  <1> QED BY <1>1

LEMMA TurnSafe ==
  ASSUME DaemonInv, NEW c \in Commands, NEW at \in ServingStage \ {"none", "state", "models"},
         Turn(c, at), serving[c].at # "none",
         at \in {"session", "queued", "streaming"} => command[c].kind \notin Probes,
         registered' \in Nat, UNCHANGED <<daemon, preload, boot, filter, coordinator, listener, command>>,
         \/ UNCHANGED wire
         \/ \E f \in Frame : /\ wire' = [wire EXCEPT ![c] = Append(@, f)]
                             /\ command[c].kind \in Ready /\ f.good => command[c].began = "Running"
  PROVE  DaemonInv'
  <1> DEFINE sv == [serving[c] EXCEPT !.at = at]
  <1>1. sv \in ServingRecord /\ sv.at = at /\ serving' = [serving EXCEPT ![c] = sv]
    BY DEF DaemonInv, TalkInv, TalkType, ServingRecord, Turn
  <1>2. Told(command[c], serving[c], wire[c], coordinator) /\ command[c].at # "idle"
    BY DEF DaemonInv, TalkInv, Told
  <1> HIDE DEF sv
  <1>3. CASE UNCHANGED wire
    <2>1. wire[c] \in Seq(Frame) /\ wire' = [wire EXCEPT ![c] = wire[c]] BY <1>3 DEF DaemonInv, TalkInv, TalkType
    <2>2. Told(command[c], sv, wire[c], coordinator) BY <1>1, <1>2 DEF Told
    <2> QED BY <1>1, <2>1, <2>2, ServingMoves
  <1>4. ASSUME NEW f \in Frame, wire' = [wire EXCEPT ![c] = Append(@, f)],
               command[c].kind \in Ready /\ f.good => command[c].began = "Running"
        PROVE  DaemonInv'
    <2> DEFINE w == Append(wire[c], f)
    <2>1. w \in Seq(Frame) /\ wire' = [wire EXCEPT ![c] = w] BY <1>4, FrameWritten
    <2>2. Len(w) = Len(wire[c]) + 1 /\ \A i \in 1 .. Len(w) : w[i] = f \/ (i \in 1 .. Len(wire[c]) /\ w[i] = wire[c][i])
      <3>1. Len(wire[c]) \in Nat BY DEF DaemonInv, TalkInv, TalkType
      <3> QED BY <3>1, FrameWritten
    <2> HIDE DEF w
    <2>3. Told(command[c], sv, w, coordinator) BY <1>1, <1>2, <1>4, <2>2 DEF Told
    <2> QED BY <1>1, <2>1, <2>3, ServingMoves
  <1> QED BY <1>3, <1>4

\* The steps of the daemon's side.
LEMMA ServerSafe ==
  ASSUME DaemonInv, NEW c \in Commands,
         \/ AcceptCommand(c) \/ ServeHandshake(c) \/ ReadShutdownState(c) \/ ReadModelCount(c) \/ AnswerHealth(c)
         \/ ServeRequest(c) \/ AnswerUnary(c) \/ SendChunk(c) \/ ServeModels(c)
  PROVE  DaemonInv'
  <1> USE DEF bootVars
  <1>0. /\ command[c] \in CommandRecord /\ serving[c] \in ServingRecord /\ wire[c] \in Seq(Frame)
        /\ registered \in Nat /\ coordinator \in Phases /\ Told(command[c], serving[c], wire[c], coordinator)
    BY DEF DaemonInv, TalkInv, TalkType
  <1>a. ASSUME NEW what, NEW good \in BOOLEAN, WriteTo(c, what, good),
               what \in {"ack", "error", "health", "inference", "chunk", "text", "models"}
        PROVE  \E f \in Frame : wire' = [wire EXCEPT ![c] = Append(@, f)] /\ f.good = good
    <2>1. [what |-> what, good |-> good] \in Frame BY <1>a DEF Frame
    <2>2. [what |-> what, good |-> good].good = good OBVIOUS
    <2> QED BY <1>a, <2>1, <2>2 DEF WriteTo
  <1>b. command[c].kind \notin Probes => command[c].kind \notin Ready BY DEF Probes, Ready
  <1>1. CASE AcceptCommand(c)
    BY <1>0, <1>1, TurnSafe DEF AcceptCommand, ServingStage
  <1>2. CASE ServeHandshake(c)
    <2>1. command[c].kind \notin Probes BY <1>0, <1>2 DEF ServeHandshake, Told
    <2>2. PICK what \in {"ack", "error"}, good \in BOOLEAN, at \in {"session", "closed"} :
            WriteTo(c, what, good) /\ Turn(c, at)
      BY <1>2 DEF ServeHandshake
    <2> QED BY <1>0, <1>2, <1>a, <1>b, <2>1, <2>2, TurnSafe DEF ServeHandshake, ServingStage
  <1>3. CASE ReadShutdownState(c)
    <2> DEFINE sv == [serving[c] EXCEPT !.at = "state", !.state = coordinator]
    <2>1. sv \in ServingRecord /\ sv.at = "state" /\ sv.state = coordinator /\ serving' = [serving EXCEPT ![c] = sv]
      BY <1>0, <1>3 DEF ReadShutdownState, ServingRecord, ServingStage, DaemonInv, TalkInv, TalkType
    <2>2. wire' = [wire EXCEPT ![c] = wire[c]] BY <1>3 DEF ReadShutdownState, DaemonInv, TalkInv, TalkType
    <2> HIDE DEF sv
    <2>3. Told(command[c], sv, wire[c], coordinator) BY <1>0, <1>3, <2>1 DEF ReadShutdownState, Told
    <2> QED BY <1>0, <1>3, <2>1, <2>2, <2>3, ServingMoves DEF ReadShutdownState
  <1>4. CASE ReadModelCount(c)
    <2> DEFINE sv == [serving[c] EXCEPT !.at = "models", !.models = registered]
    <2>1. /\ sv \in ServingRecord /\ sv.at = "models" /\ sv.state = serving[c].state
          /\ serving' = [serving EXCEPT ![c] = sv]
      BY <1>0, <1>4 DEF ReadModelCount, ServingRecord, ServingStage, DaemonInv, TalkInv, TalkType
    <2>2. wire' = [wire EXCEPT ![c] = wire[c]] BY <1>4 DEF ReadModelCount, DaemonInv, TalkInv, TalkType
    <2> HIDE DEF sv
    <2>3. Told(command[c], sv, wire[c], coordinator) BY <1>0, <1>4, <2>1 DEF ReadModelCount, Told
    <2> QED BY <1>0, <1>4, <2>1, <2>2, <2>3, ServingMoves DEF ReadModelCount
  <1>5. CASE AnswerHealth(c)
    <2> DEFINE ready == IsReady(serving[c].state, serving[c].models,
                                Cardinality({d \in Commands : serving[d].at = "queued"}))
               good == command[c].kind = "liveness" \/ ready
    <2>1. good \in BOOLEAN /\ WriteTo(c, "health", good) BY <1>5 DEF AnswerHealth
    <2>2. good /\ command[c].kind \in Ready => command[c].began = "Running"
      BY <1>0, <1>5 DEF AnswerHealth, IsReady, Told, Ready
    <2> HIDE DEF good
    <2>3. PICK f \in Frame : wire' = [wire EXCEPT ![c] = Append(@, f)] /\ f.good = good BY <1>a, <2>1
    <2> QED BY <1>0, <1>5, <2>2, <2>3, TurnSafe DEF AnswerHealth, ServingStage
  <1>6. CASE ServeRequest(c)
    <2>1. command[c].kind \notin Probes BY <1>0, <1>6 DEF ServeRequest, Told
    <2>2. CASE coordinator # "Running"
      <3>1. PICK what \in {"inference", "chunk"} : WriteTo(c, what, FALSE) BY <1>6, <2>2 DEF ServeRequest
      <3> QED BY <1>0, <1>6, <1>a, <1>b, <2>1, <2>2, <3>1, TurnSafe DEF ServeRequest, ServingStage
    <2>3. CASE coordinator = "Running"
      <3>1. PICK at \in {"queued", "streaming"} : Turn(c, at) BY <1>6, <2>3 DEF ServeRequest
      <3> QED BY <1>0, <1>6, <2>1, <2>3, <3>1, TurnSafe DEF ServeRequest, ServingStage
    <2> QED BY <2>2, <2>3
  <1>7. CASE AnswerUnary(c)
    <2>1. command[c].kind \notin Probes BY <1>0, <1>7 DEF AnswerUnary, Told
    <2>2. PICK good \in BOOLEAN : WriteTo(c, "inference", good) BY <1>7 DEF AnswerUnary
    <2> QED BY <1>0, <1>7, <1>a, <1>b, <2>1, <2>2, TurnSafe DEF AnswerUnary, ServingStage
  <1>8. CASE SendChunk(c)
    <2>1. command[c].kind \notin Probes BY <1>0, <1>8 DEF SendChunk, Told
    <2>2. PICK what \in {"text", "chunk"}, good \in BOOLEAN, at \in {"streaming", "answered"} :
            WriteTo(c, what, good) /\ Turn(c, at)
      <3>1. CASE UNCHANGED serving
        <4>1. Turn(c, "streaming") BY <1>0, <1>8, <3>1 DEF SendChunk, Turn, DaemonInv, TalkInv, TalkType, ServingRecord
        <4> QED BY <1>8, <4>1 DEF SendChunk
      <3> QED BY <1>8, <3>1 DEF SendChunk
    <2> QED BY <1>0, <1>8, <1>a, <1>b, <2>1, <2>2, TurnSafe DEF SendChunk, ServingStage
  <1>9. CASE ServeModels(c)
    <2>1. command[c].kind \notin Probes BY <1>0, <1>9 DEF ServeModels, Told
    <2>2. PICK good \in BOOLEAN : WriteTo(c, "models", good) BY <1>9 DEF ServeModels
    <2>3. registered' \in Nat
      <3>1. \/ registered' = registered \/ registered' = registered + 1
            \/ registered > 0 /\ registered' = registered - 1
        BY <1>9 DEF ServeModels
      <3> QED BY <1>0, <3>1
    <2> QED BY <1>0, <1>9, <1>a, <1>b, <2>1, <2>2, <2>3, TurnSafe DEF ServeModels, ServingStage
  <1> QED BY <1>1, <1>2, <1>3, <1>4, <1>5, <1>6, <1>7, <1>8, <1>9

\* The client's side moves on, and may have read the first frame.
LEMMA ClientMoves ==
  ASSUME DaemonInv, NEW c \in Commands, NEW cm \in CommandRecord,
         command' = [command EXCEPT ![c] = cm], cm.at # "idle",
         cm.kind = command[c].kind, cm.began = command[c].began, command[c].at # "idle",
         cm.at = "handshake" => cm.kind \notin Probes,
         cm.at = "exited" /\ cm.exit = 0 => cm.ok /\ (cm.kind \in Ready => cm.began = "Running"),
         UNCHANGED <<daemon, preload, boot, filter, registered, coordinator, listener, serving>>,
         UNCHANGED wire \/ (wire[c] # <<>> /\ wire' = [wire EXCEPT ![c] = Tail(@)])
  PROVE  DaemonInv'
  <1>1. /\ serving[c] \in ServingRecord /\ wire[c] \in Seq(Frame) /\ registered' \in Nat
        /\ Told(command[c], serving[c], wire[c], coordinator)
        /\ serving' = [serving EXCEPT ![c] = serving[c]]
        /\ serving[c].at # "none" => listener # "none"
    BY DEF DaemonInv, TalkInv, TalkType, BootInv
  <1>2. CASE UNCHANGED wire
    <2>1. wire' = [wire EXCEPT ![c] = wire[c]] BY <1>2 DEF DaemonInv, TalkInv, TalkType
    <2>2. Told(cm, serving[c], wire[c], coordinator) BY <1>1 DEF Told
    <2> QED BY <1>1, <2>1, <2>2, CommandMoves
  <1>3. CASE wire[c] # <<>> /\ wire' = [wire EXCEPT ![c] = Tail(@)]
    <2> DEFINE w == Tail(wire[c])
    <2>1. w \in Seq(Frame) /\ Len(w) \in Nat /\ \A i \in 1 .. Len(w) : i + 1 \in 1 .. Len(wire[c]) /\ w[i] = wire[c][i + 1]
      BY <1>1, <1>3
    <2>2. wire' = [wire EXCEPT ![c] = w] BY <1>3
    <2> HIDE DEF w
    <2>3. Told(cm, serving[c], w, coordinator) BY <1>1, <2>1 DEF Told
    <2> QED BY <1>1, <2>1, <2>2, <2>3, CommandMoves
  <1> QED BY <1>2, <1>3

\* The steps of the client's side.
LEMMA ClientSafe ==
  ASSUME DaemonInv, NEW c \in Commands, ReadAck(c) \/ ReadReply(c) \/ ClientTimeout(c) \/ ReadEof(c)
  PROVE  DaemonInv'
  <1> USE DEF bootVars
  <1>1. /\ command[c] \in CommandRecord /\ wire[c] \in Seq(Frame)
        /\ Told(command[c], serving[c], wire[c], coordinator)
    BY DEF DaemonInv, TalkInv, TalkType
  <1>2. ASSUME NEW code \in Nat \ {0}, Exit(c, code), command[c].at # "idle",
               UNCHANGED <<daemon, preload, boot, filter, registered, coordinator, listener, serving>>,
               UNCHANGED wire \/ (wire[c] # <<>> /\ wire' = [wire EXCEPT ![c] = Tail(@)])
        PROVE  DaemonInv'
    <2> DEFINE cm == [command[c] EXCEPT !.at = "exited", !.exit = code]
    <2>1. /\ cm \in CommandRecord /\ cm.at = "exited" /\ cm.exit = code
          /\ cm.kind = command[c].kind /\ cm.began = command[c].began
          /\ command' = [command EXCEPT ![c] = cm]
      BY <1>1, <1>2 DEF Exit, CommandRecord, DaemonInv, TalkInv, TalkType
    <2> HIDE DEF cm
    <2> QED BY <1>2, <2>1, ClientMoves
  <1>3. CASE ReadAck(c)
    <2>1. CASE Head(wire[c]).what = "ack"
      <3> DEFINE cm == [command[c] EXCEPT !.at = "asked"]
      <3>1. /\ cm \in CommandRecord /\ cm.at = "asked"
            /\ cm.kind = command[c].kind /\ cm.began = command[c].began
            /\ command' = [command EXCEPT ![c] = cm]
        BY <1>1, <1>3, <2>1 DEF ReadAck, CommandRecord, DaemonInv, TalkInv, TalkType
      <3> HIDE DEF cm
      <3> QED BY <1>3, <3>1, ClientMoves DEF ReadAck
    <2>2. CASE Head(wire[c]).what # "ack" BY <1>2, <1>3, <2>2 DEF ReadAck
    <2> QED BY <2>1, <2>2
  <1>4. CASE ReadReply(c)
    <2>1. CASE Head(wire[c]).what = "text"
      <3>1. command' = [command EXCEPT ![c] = command[c]]
        BY <1>4, <2>1 DEF ReadReply, DaemonInv, TalkInv, TalkType
      <3> QED BY <1>1, <1>4, <3>1, ClientMoves DEF ReadReply, Told
    <2>2. CASE Head(wire[c]).what # "text"
      <3> DEFINE f == Head(wire[c])
                 cm == [command[c] EXCEPT !.at = "exited", !.ok = f.good, !.exit = ExitCodeOf(f)]
      <3>1. f \in Frame /\ f.good \in BOOLEAN /\ f = wire[c][1] /\ 1 \in 1 .. Len(wire[c])
        <4>1. wire[c] # <<>> BY <1>4 DEF ReadReply
        <4>2. f = wire[c][1] /\ 1 \in 1 .. Len(wire[c]) BY <1>1, <4>1
        <4>3. f \in Frame BY <1>1, <4>2
        <4>4. \A g \in Frame : g.good \in BOOLEAN BY DEF Frame
        <4> QED BY <4>2, <4>3, <4>4
      <3>2. ExitCodeOf(f) \in Nat /\ (ExitCodeOf(f) = 0 => f.good) BY DEF ExitCodeOf
      <3>3. command' = [command EXCEPT ![c] = cm] BY <1>4, <2>2 DEF ReadReply, DaemonInv, TalkInv, TalkType
      <3>4. f.good /\ command[c].kind \in Ready => command[c].began = "Running" BY <1>1, <3>1 DEF Told
      <3> HIDE DEF f
      <3>5. /\ cm \in CommandRecord /\ cm.at = "exited" /\ cm.exit = ExitCodeOf(f) /\ cm.ok = f.good
            /\ cm.kind = command[c].kind /\ cm.began = command[c].began
        BY <1>1, <3>1, <3>2 DEF CommandRecord
      <3> HIDE DEF cm
      <3> QED BY <1>4, <3>2, <3>3, <3>4, <3>5, ClientMoves DEF ReadReply
    <2> QED BY <2>1, <2>2
  <1>5. CASE ClientTimeout(c)
    <2>1. NoDaemon(command[c].kind) \in Nat \ {0} BY DEF NoDaemon
    <2>2. Exit(c, NoDaemon(command[c].kind)) /\ command[c].at # "idle" /\ UNCHANGED wire BY <1>5 DEF ClientTimeout
    <2>3. UNCHANGED <<daemon, preload, boot, filter, registered, coordinator, listener, serving>>
      BY <1>5 DEF ClientTimeout
    <2> QED BY ONLY <1>2, <2>1, <2>2, <2>3
  <1>6. CASE ReadEof(c)
    <2>1. Exit(c, 1) /\ command[c].at # "idle" /\ UNCHANGED wire BY <1>6 DEF ReadEof
    <2>2. UNCHANGED <<daemon, preload, boot, filter, registered, coordinator, listener, serving>>
      BY <1>6 DEF ReadEof
    <2>3. 1 \in Nat \ {0} OBVIOUS
    <2> QED BY ONLY <1>2, <2>1, <2>2, <2>3
  <1> QED BY <1>3, <1>4, <1>5, <1>6

LEMMA ConnectSafe ==
  ASSUME DaemonInv, NEW c \in Commands, NEW kind \in CommandKinds(c), Connect(c, kind)
  PROVE  DaemonInv'
  <1> USE DEF bootVars
  <1>1. kind \in CommandKind BY DaemonAssumption DEF CommandKind
  <1>2. /\ command[c] \in CommandRecord /\ serving[c] \in ServingRecord /\ wire[c] \in Seq(Frame)
        /\ registered' \in Nat /\ coordinator \in Phases
        /\ Told(command[c], serving[c], wire[c], coordinator)
        /\ wire' = [wire EXCEPT ![c] = wire[c]]
    BY DEF DaemonInv, TalkInv, TalkType, Connect
  <1>3. command[c].at = "idle" /\ serving[c].at = "none" /\ wire[c] = <<>> BY <1>2 DEF Connect, Told
  <1>4. CASE listener = "listening"
    <2> DEFINE at == IF kind \in Probes THEN "asked" ELSE "handshake"
               cm == [command[c] EXCEPT !.kind = kind, !.began = coordinator, !.at = at]
               sv == [serving[c] EXCEPT !.at = "backlog"]
    <2>1. /\ cm \in CommandRecord /\ cm.kind = kind /\ cm.began = coordinator /\ cm.at = at
      BY <1>1, <1>2 DEF CommandRecord
    <2>2. sv \in ServingRecord /\ sv.at = "backlog" BY <1>2 DEF ServingRecord, ServingStage
    <2>3. command' = [command EXCEPT ![c] = cm] /\ serving' = [serving EXCEPT ![c] = sv]
      BY <1>4 DEF Connect, Turn, DaemonInv, TalkInv, TalkType
    <2> HIDE DEF cm, sv
    <2>4. Told(cm, sv, wire[c], coordinator) BY <1>3, <2>1, <2>2 DEF Told
    <2> QED BY <1>2, <1>4, <2>1, <2>2, <2>3, <2>4, CommandMoves DEF Connect
  <1>5. CASE listener # "listening"
    <2> DEFINE cm == [command[c] EXCEPT !.kind = kind, !.began = coordinator, !.at = "exited",
                                        !.exit = NoDaemon(kind)]
    <2>1. NoDaemon(kind) \in Nat \ {0} BY DEF NoDaemon
    <2>2. /\ cm \in CommandRecord /\ cm.kind = kind /\ cm.began = coordinator /\ cm.at = "exited"
          /\ cm.exit = NoDaemon(kind)
      BY <1>1, <1>2, <2>1 DEF CommandRecord
    <2>3. command' = [command EXCEPT ![c] = cm] /\ serving' = [serving EXCEPT ![c] = serving[c]]
      BY <1>5 DEF Connect, DaemonInv, TalkInv, TalkType
    <2> HIDE DEF cm
    <2>4. Told(cm, serving[c], wire[c], coordinator) BY <1>3, <2>1, <2>2 DEF Told
    <2> QED BY <1>2, <1>3, <2>2, <2>3, <2>4, CommandMoves DEF Connect
  <1> QED BY <1>4, <1>5

\* However a start, a shutdown, the commands and their connections interleave:
\* nobody is served before the gates are in place, and no command reports a success
\* it was not told (main.rs run_serve, cli/ipc_client.rs, cli/health.rs).
THEOREM DaemonCorrect == DaemonSpec => []DaemonIsHonest
  <1>1. ASSUME DaemonInv, [DaemonNext]_daemonVars PROVE DaemonInv'
    <2>1. CASE UNCHANGED daemonVars
      BY <1>1, <2>1 DEF daemonVars, bootVars, clientVars, DaemonInv, BootInv, TalkInv, TalkType, Told
    <2>2. ASSUME NEW c \in Commands, CommandStep(c) PROVE DaemonInv'
      BY <1>1, <2>2, ServerSafe, ClientSafe, ConnectSafe DEF CommandStep
    <2> QED BY <1>1, <2>1, <2>2, BootSafe, ServeSafe DEF DaemonNext
  <1>2. ASSUME DaemonInv PROVE DaemonIsHonest
    <2>1. ExitCodesAreHonest BY <1>2 DEF DaemonInv, TalkInv, Told, ExitCodesAreHonest, Ready
    <2>2. ServedBehindTheGates
      <3> SUFFICES ASSUME NEW c \in Commands, serving[c].at # "none"
                   PROVE  /\ boot.policy # "none" /\ preload = 0
                          /\ boot.mode = "enforce" => boot.cgroup
                          /\ boot.mode # "off" =>
                               \A nr \in Syscalls, native \in BOOLEAN :
                                   FilterVerdict(filter, native, nr) = "allow" <=>
                                       native /\ nr \in {AllowedSyscalls[i] : i \in 1..Len(AllowedSyscalls)}
        BY DEF ServedBehindTheGates
      <3>1. daemon \in Up BY <1>2 DEF DaemonInv, BootInv
      <3>2. /\ boot.policy = "set" /\ preload = 0 /\ (boot.mode = "enforce" => boot.cgroup)
            /\ (boot.mode # "off" => filter = FilterProgram)
        BY <1>2, <3>1 DEF DaemonInv, BootInv
      <3>3. \A nr \in Syscalls : nr \in {AllowedSyscalls[i] : i \in 1..Len(AllowedSyscalls)} <=> Allowed(nr)
        BY DEF Allowed
      <3> QED BY <3>2, <3>3, FilterVerdictIs
    <2> QED BY <2>1, <2>2 DEF DaemonIsHonest
  <1> QED BY DaemonInitial, <1>1, <1>2, PTL DEF DaemonSpec
=============================================================================
