----------------------------- MODULE TcpProofs -----------------------------
(***************************************************************************)
(* Proofs that the TCP probe keeps its promises, for every timeout, every   *)
(* number of addresses, and whatever the peers do.                          *)
(***************************************************************************)
EXTENDS TcpProperties, Integers, TLAPS

-----------------------------------------------------------------------------
(* Division *)

LEMMA Quotient ==
    ASSUME NEW m \in Nat, NEW n \in Nat \ {0}
    PROVE  /\ m \div n \in Nat
           /\ (m \div n) * n <= m
           /\ m < ((m \div n) + 1) * n
OBVIOUS

(* Who divides what is left among all that are left, gives each its share,  *)
(* and leaves a share for each of the others.                               *)
LEMMA FairDivision ==
    ASSUME NEW r \in Nat, NEW share \in Nat, NEW left \in Nat \ {0},
           r >= left * share
    PROVE  /\ r \div left >= share
           /\ r >= (r \div left) + (left - 1) * share
<1> DEFINE q == r \div left
<1>1. q \in Nat /\ q * left <= r /\ r < (q + 1) * left
  BY Quotient
<1> HIDE DEF q
<1>2. q >= share
  <2>1. SUFFICES ASSUME q + 1 <= share  PROVE FALSE
    BY <1>1
  <2>2. (q + 1) * left <= share * left
    BY <2>1, <1>1
  <2>3. QED
    BY <2>2, <1>1
<1>3. (left - 1) * share <= (left - 1) * q
  BY <1>1, <1>2
<1>4. r >= q + (left - 1) * share
  BY <1>1, <1>3
<1>5. QED
  BY <1>2, <1>4 DEF q

-----------------------------------------------------------------------------
(* The inductive invariant *)

(* The verdict is the last thing that changes; the addresses are known, and *)
(* the deadline of the attempts is set, after the lookup and not before.    *)
ControlInv ==
    /\ verdict = "none" <=> pc # "done"
    /\ pc = "start" => now = 0
    /\ pc \in {"start", "lookup"} => errors = <<>> /\ deadline = 0
    /\ pc \in {"next", "connect"} => addrs # <<>>

(* Each error is true of its address. *)
ErrorsInv ==
    \A i \in 1 .. Len(errors) :
        \/ addrs[i].answer = "refuse"
        \/ /\ errors[i] = "expired"
           /\ prompt /\ addrs[i].answer = "accept" =>
                  addrs[i].after > Larger(Share, MinAttempt)

(* Between attempts every address left still has its share to come; during  *)
(* an attempt its peer has a whole share, and every address after it, too.  *)
SharesInv ==
    prompt /\ Divisible =>
        /\ pc = "next" => deadline >= now + AttemptsLeft * Share
        /\ pc = "connect" =>
              /\ now <= attemptBy
              /\ attemptBy >= startedAt + Share
              /\ deadline >= attemptBy + (AttemptsLeft - 1) * Share

TcpInv ==
    /\ TypeOK
    /\ ControlInv
    /\ ErrorsInv
    /\ SharesInv
    /\ DeadlineRespected
    /\ FailureIsTrue
    /\ NothingMissed

-----------------------------------------------------------------------------
(* Types and control *)

LEMMA AttemptTime ==
    ASSUME TypeOK, AttemptsLeft > 0
    PROVE  /\ AttemptsLeft \in Nat \ {0}
           /\ Remaining \in Nat
           /\ PerAttempt(Remaining, AttemptsLeft) \in Nat
           /\ PerAttempt(Remaining, AttemptsLeft) >= MinAttempt
           /\ PerAttempt(Remaining, AttemptsLeft)
                  = Larger(Remaining \div AttemptsLeft, MinAttempt)
<1>1. AttemptsLeft \in Nat \ {0} /\ Remaining \in Nat
  BY DEF TypeOK, AttemptsLeft, Remaining
<1>2. Remaining \div AttemptsLeft \in Nat
  BY <1>1, Quotient
<1>3. MinAttempt \in Nat
  BY TimesAssumption
<1>4. \A q \in Nat : Larger(q, MinAttempt) \in Nat /\ Larger(q, MinAttempt) >= MinAttempt
  BY <1>3 DEF Larger
<1>5. QED
  BY <1>1, <1>2, <1>4 DEF PerAttempt

LEMMA TypeInit == Init => TypeOK /\ ControlInv
BY DEF Init, TypeOK, ControlInv

LEMMA TypeStep == TypeOK /\ ControlInv /\ [Next]_vars => TypeOK' /\ ControlInv'
<1> SUFFICES ASSUME TypeOK, ControlInv, [Next]_vars
             PROVE  TypeOK' /\ ControlInv'
  OBVIOUS
<1> USE DEF TypeOK, ControlInv, Return
<1>1. ASSUME NEW valid \in BOOLEAN, Validate(valid)
      PROVE  TypeOK' /\ ControlInv'
  BY <1>1 DEF Validate
<1>2. CASE Attempt
  <2>1. PICK t \in Nat : t >= MinAttempt /\ attemptBy' = now + t
    BY <1>2, AttemptTime DEF Attempt
  <2>2. Len(errors) < Len(addrs)
    BY <1>2 DEF Attempt, AttemptsLeft
  <2>3. MinAttempt \in Nat
    BY TimesAssumption
  <2>4. QED
    BY <1>2, <2>1, <2>2, <2>3 DEF Attempt
<1>3. CASE GiveUp
  BY <1>3 DEF GiveUp
<1>4. CASE Connected
  BY <1>4 DEF Connected, Answered
<1>5. CASE Refused
  BY <1>5 DEF Refused, Answered
<1>6. CASE Expire
  BY <1>6 DEF Expire, Expired
<1>7. CASE TimesOut
  BY <1>7 DEF TimesOut, OutOfTime
<1>8. ASSUME NEW v \in {"invalid", "unresolved"}, LookupFails(v)
      PROVE  TypeOK' /\ ControlInv'
  BY <1>8 DEF LookupFails
<1>9. ASSUME NEW list \in AddrLists, NEW fits \in BOOLEAN, Resolve(list, fits)
      PROVE  TypeOK' /\ ControlInv'
  <2>1. list \in Seq(Peers)
    BY DEF AddrLists
  <2>2. Len(list) \in Nat /\ Timeout \in Nat
    BY <2>1, TimesAssumption
  <2>3. errors = <<>> /\ Len(errors) = 0
    BY <1>9 DEF Resolve
  <2>4. QED
    BY <1>9, <2>1, <2>2, <2>3 DEF Resolve
<1>10. CASE Tick
  BY <1>10 DEF Tick
<1>11. CASE UNCHANGED vars
  BY <1>11 DEF vars
<1>12. QED
  BY <1>1, <1>2, <1>3, <1>4, <1>5, <1>6, <1>7, <1>8, <1>9, <1>10, <1>11
     DEF Next, ProbeStep, ResolverStep, Terminated

(* Every variable of the TCP probe keeps its type, whatever the timeout,    *)
(* the addresses and the answers.                                           *)
THEOREM TypeCorrect == Spec => []TypeOK
BY TypeInit, TypeStep, PTL DEF Spec

-----------------------------------------------------------------------------
(* Time *)

LEMMA DeadlineStep ==
    TypeOK /\ DeadlineRespected /\ [Next]_vars => DeadlineRespected'
<1> SUFFICES ASSUME TypeOK, DeadlineRespected, [Next]_vars
             PROVE  DeadlineRespected'
  OBVIOUS
<1> USE DEF DeadlineRespected
<1>1. CASE Tick
  <2>1. Timeout \in Nat /\ now \in Nat
    BY TimesAssumption DEF TypeOK
  <2>2. QED
    BY <1>1, <2>1 DEF Tick, OutOfTime
<1>2. CASE UNCHANGED <<prompt, now>>
  BY <1>2
<1>3. QED
  BY <1>1, <1>2 DEF Next, ProbeStep, ResolverStep, Terminated, Validate, Attempt,
                    GiveUp, Connected, Refused, Expire, TimesOut, LookupFails,
                    Resolve, vars

(* The timeout is over no later than it says, on a host that delays nothing. *)
THEOREM DeadlineHolds == Spec => []DeadlineRespected
<1>1. Init => DeadlineRespected
  BY TimesAssumption DEF Init, DeadlineRespected
<1>2. QED
  BY <1>1, TypeInit, TypeStep, DeadlineStep, PTL DEF Spec

LEMMA ShareType ==
    ASSUME TypeOK, addrs # <<>>
    PROVE  /\ Share \in Nat
           /\ Len(addrs) \in Nat \ {0}
           /\ Timeout >= Len(addrs) * Share
<1>1. Len(addrs) \in Nat \ {0}
  BY DEF TypeOK
<1>2. Timeout \in Nat
  BY TimesAssumption
<1>3. Share \in Nat /\ Share * Len(addrs) <= Timeout
  BY <1>1, <1>2, Quotient DEF Share
<1>4. QED
  BY <1>1, <1>2, <1>3

LEMMA SharesInit == Init => SharesInv
BY DEF Init, SharesInv, Divisible

LEMMA SharesOfAttempt ==
    TypeOK /\ ControlInv /\ SharesInv /\ Attempt => SharesInv'
<1> SUFFICES ASSUME TypeOK, ControlInv, SharesInv, Attempt, prompt, Divisible
             PROVE  /\ now' <= attemptBy'
                    /\ attemptBy' >= startedAt' + Share
                    /\ deadline' >= attemptBy' + (AttemptsLeft - 1) * Share
  BY DEF Attempt, SharesInv, Divisible, Share, AttemptsLeft
<1> DEFINE left == AttemptsLeft
           q    == Remaining \div left
<1>1. left \in Nat \ {0} /\ Remaining \in Nat
  BY AttemptTime DEF Attempt
<1>2. Share \in Nat /\ Share >= MinAttempt /\ MinAttempt \in Nat
  BY ShareType, TimesAssumption DEF Divisible
<1>3. now \in Nat /\ deadline \in Nat /\ now' = now /\ deadline' = deadline
      /\ startedAt' = now
  BY DEF TypeOK, Attempt
<1>4. deadline >= now + left * Share
  BY DEF SharesInv, Attempt
<1>5. Remaining = deadline - now
  BY <1>3 DEF Remaining, Attempt
<1>6. attemptBy' = now + Larger(q, MinAttempt)
  BY DEF Attempt, PerAttempt
<1> HIDE DEF left
<1>7. left * Share \in Nat
  BY <1>1, <1>2
<1>8. Remaining >= left * Share
  BY <1>3, <1>4, <1>5, <1>7
<1>9. q \in Nat /\ q >= Share /\ Remaining >= q + (left - 1) * Share
  BY <1>1, <1>2, <1>8, FairDivision, Quotient
<1> HIDE DEF q
<1>10. attemptBy' = now + q
  BY <1>2, <1>6, <1>9 DEF Larger
<1>11. (left - 1) * Share \in Nat
  BY <1>1, <1>2
<1>12. now' <= attemptBy' /\ attemptBy' >= startedAt' + Share
  BY <1>2, <1>3, <1>9, <1>10
<1>13. deadline' >= attemptBy' + (left - 1) * Share
  BY <1>3, <1>5, <1>9, <1>10, <1>11
<1>14. QED
  BY <1>12, <1>13 DEF left

LEMMA SharesStep ==
    TypeOK /\ ControlInv /\ SharesInv /\ [Next]_vars => SharesInv'
<1> SUFFICES ASSUME TypeOK, ControlInv, SharesInv, [Next]_vars
             PROVE  SharesInv'
  OBVIOUS
<1>1. CASE Attempt
  BY <1>1, SharesOfAttempt
<1>2. ASSUME NEW list \in AddrLists, NEW fits \in BOOLEAN, Resolve(list, fits)
      PROVE  SharesInv'
  <2>1. SUFFICES ASSUME pc' = "next"
                 PROVE  deadline' >= now' + AttemptsLeft' * Share'
    BY <1>2 DEF SharesInv, Resolve, Return
  <2>2. addrs' # <<>> /\ TypeOK'
    BY <2>1, <1>2, TypeStep DEF Resolve, Return
  <2>3. Share' \in Nat /\ Len(addrs)' \in Nat /\ Timeout >= Len(addrs)' * Share'
    <3>1. TypeOK' /\ (addrs # <<>>)'
              => (Share \in Nat /\ Len(addrs) \in Nat \ {0}
                  /\ Timeout >= Len(addrs) * Share)'
      BY ShareType, PTL
    <3>2. QED
      BY <2>2, <3>1
  <2>4. AttemptsLeft' = Len(addrs)'
    BY <1>2, <2>3 DEF ControlInv, Resolve, AttemptsLeft
  <2>5. now' = now /\ deadline' = now + Timeout /\ now \in Nat /\ Timeout \in Nat
    BY <1>2, <2>1, TimesAssumption DEF TypeOK, Resolve, Return
  <2>6. QED
    BY <2>3, <2>4, <2>5
<1>3. CASE Refused \/ Expire
  <2>1. SUFFICES ASSUME prompt, Divisible
                 PROVE  deadline' >= now' + AttemptsLeft' * Share'
    BY <1>3 DEF Refused, Expire, SharesInv, Divisible, Share
  <2>2. /\ pc = "connect" /\ UNCHANGED <<addrs, deadline, now, attemptBy>>
        /\ Len(errors') = Len(errors) + 1
    <3>1. CASE Refused
      BY <3>1 DEF Refused, Answered, TypeOK
    <3>2. CASE Expire
      BY <3>2 DEF Expire, Expired, TypeOK
    <3>3. QED
      BY <1>3, <3>1, <3>2
  <2>3. /\ AttemptsLeft \in Int /\ Share \in Nat
        /\ {now, deadline, attemptBy} \subseteq Nat
    BY <2>1, ShareType DEF TypeOK, AttemptsLeft, Divisible
  <2>4. AttemptsLeft' = AttemptsLeft - 1 /\ Share' = Share
    BY <2>2, <2>3 DEF TypeOK, AttemptsLeft, Share
  <2>5. now <= attemptBy /\ deadline >= attemptBy + (AttemptsLeft - 1) * Share
    BY <2>1, <2>2 DEF SharesInv
  <2>6. (AttemptsLeft - 1) * Share \in Int
    BY <2>3
  <2>7. QED
    BY <2>2, <2>3, <2>4, <2>5, <2>6
<1>4. CASE Tick
  <2>1. SUFFICES ASSUME prompt, Divisible
                 PROVE  \/ pc = "connect" /\ now < attemptBy
                        \/ pc = "lookup"
    BY <1>4 DEF Tick, SharesInv, Divisible, Share, AttemptsLeft, TypeOK
  <2>2. QED
    BY <1>4, <2>1 DEF Tick, Expired, TypeOK
<1>5. CASE pc' \notin {"next", "connect"}
  BY <1>5 DEF SharesInv
<1>6. CASE UNCHANGED vars
  BY <1>6 DEF vars, SharesInv, Divisible, Share, AttemptsLeft
<1>7. QED
  BY <1>1, <1>2, <1>3, <1>4, <1>5, <1>6
     DEF Next, ProbeStep, ResolverStep, Terminated, Validate, GiveUp, Connected,
         TimesOut, LookupFails, Return

-----------------------------------------------------------------------------
(* What a failure means *)

LEMMA ErrorOfExpiry ==
    ASSUME TypeOK, SharesInv, Expire
    PROVE  prompt /\ Peer.answer = "accept" =>
               Peer.after > Larger(Share, MinAttempt)
<1> SUFFICES ASSUME prompt, Peer.answer = "accept"
             PROVE  Peer.after > Larger(Share, MinAttempt)
  OBVIOUS
<1>1. /\ {now, startedAt, attemptBy} \subseteq Nat
      /\ Peer \in Peers /\ addrs # <<>>
  BY DEF TypeOK, Expire, Expired, Peer
<1>2. Peer.after \in Nat /\ Share \in Nat /\ MinAttempt \in Nat
  BY <1>1, ShareType, TimesAssumption DEF Peers
<1>3. /\ now >= attemptBy /\ attemptBy >= startedAt + MinAttempt
      /\ Share >= MinAttempt => attemptBy >= startedAt + Share
  BY <1>1 DEF Expire, Expired, SharesInv, Divisible, TypeOK
<1>4. now < startedAt + Peer.after
  BY <1>1, <1>2 DEF Expire, Expired, Answered
<1>5. QED
  BY <1>1, <1>2, <1>3, <1>4 DEF Larger

LEMMA ErrorsStep ==
    TypeOK /\ ControlInv /\ SharesInv /\ ErrorsInv /\ [Next]_vars => ErrorsInv'
<1> SUFFICES ASSUME TypeOK, ControlInv, SharesInv, ErrorsInv, [Next]_vars
             PROVE  ErrorsInv'
  OBVIOUS
<1>1. CASE UNCHANGED <<prompt, addrs, errors>>
  BY <1>1 DEF ErrorsInv, Divisible, Share
<1>2. CASE Refused \/ Expire
  <2>1. PICK e \in {"refused", "expired"} :
            /\ errors' = Append(errors, e) /\ UNCHANGED <<prompt, addrs>>
            /\ \/ Peer.answer = "refuse"
               \/ /\ e = "expired"
                  /\ prompt /\ Peer.answer = "accept" =>
                         Peer.after > Larger(Share, MinAttempt)
    <3>1. CASE Refused
      BY <3>1 DEF Refused
    <3>2. CASE Expire
      BY <3>2, ErrorOfExpiry DEF Expire
    <3>3. QED
      BY <1>2, <3>1, <3>2
  <2>2. Len(errors) \in Nat /\ Len(errors') = Len(errors) + 1
    BY <2>1 DEF TypeOK
  <2>3. /\ \A i \in 1 .. Len(errors) : errors'[i] = errors[i]
        /\ errors'[Len(errors) + 1] = e
    BY <2>1 DEF TypeOK
  <2>4. Divisible' = Divisible /\ Share' = Share
    BY <2>1 DEF Divisible, Share
  <2>5. SUFFICES ASSUME NEW i \in 1 .. Len(errors')
                 PROVE  \/ addrs[i].answer = "refuse"
                        \/ /\ errors'[i] = "expired"
                           /\ prompt /\ addrs[i].answer = "accept"
                                  => addrs[i].after > Larger(Share, MinAttempt)
    BY <2>1, <2>4 DEF ErrorsInv
  <2>6. CASE i \in 1 .. Len(errors)
    BY <2>3, <2>6 DEF ErrorsInv
  <2>7. CASE i = Len(errors) + 1
    BY <2>1, <2>3, <2>7 DEF Peer
  <2>8. QED
    BY <2>2, <2>6, <2>7
<1>3. ASSUME NEW list \in AddrLists, NEW fits \in BOOLEAN, Resolve(list, fits)
      PROVE  ErrorsInv'
  BY <1>3 DEF ControlInv, Resolve, ErrorsInv
<1>4. QED
  BY <1>1, <1>2, <1>3
     DEF Next, ProbeStep, ResolverStep, Terminated, Validate, Attempt, GiveUp,
         Connected, TimesOut, LookupFails, Tick, vars

LEMMA FailureStep ==
    TypeOK /\ ControlInv /\ ErrorsInv /\ FailureIsTrue /\ [Next]_vars
        => FailureIsTrue'
<1> SUFFICES ASSUME TypeOK, ControlInv, ErrorsInv, FailureIsTrue, [Next]_vars
             PROVE  FailureIsTrue'
  OBVIOUS
<1>1. CASE GiveUp
  <2>1. UNCHANGED <<prompt, addrs, deadline, errors, now>>
    BY <1>1 DEF GiveUp
  <2>2. Divisible' = Divisible /\ Share' = Share
    BY <2>1 DEF Divisible, Share
  <2>3. SUFFICES ASSUME NEW i \in 1 .. Len(addrs), i > Len(errors)
                 PROVE  now >= deadline
    BY <2>1, <2>2 DEF FailureIsTrue, ErrorsInv, TypeOK
  <2>4. AttemptsLeft # 0
    BY <2>3 DEF AttemptsLeft, TypeOK
  <2>5. QED
    BY <1>1, <2>4 DEF GiveUp, Remaining, TypeOK
<1>2. CASE verdict' \notin {"failed", "untried"}
  BY <1>2 DEF FailureIsTrue
<1>3. CASE UNCHANGED vars
  BY <1>3 DEF vars, FailureIsTrue, Divisible, Share
<1>4. QED
  BY <1>1, <1>2, <1>3
     DEF Next, ProbeStep, ResolverStep, Terminated, Validate, Attempt,
         Connected, Refused, Expire, TimesOut, LookupFails, Resolve, Tick,
         Return, ControlInv, Answered, Expired

-----------------------------------------------------------------------------
(* Nothing is missed *)

(* When the timeout fires during an attempt on a host that delays nothing,  *)
(* no address that is left had what it was due.                             *)
LEMMA MissedByTimeout ==
    ASSUME TypeOK, ControlInv, SharesInv, DeadlineRespected, TimesOut,
           pc = "connect", prompt, Divisible,
           NEW j \in 1 .. Len(addrs), j > Len(errors),
           addrs[j].answer = "accept", addrs[j].after <= Share,
           LookupTime <= (Len(addrs) - j) * Share
    PROVE  FALSE
<1> DEFINE i == Len(errors) + 1
           n == Len(addrs)
<1>1. /\ {now, deadline, startedAt, attemptBy} \subseteq Nat
      /\ i \in 1 .. n /\ n \in Nat /\ j \in i .. n
  BY DEF TypeOK
<1>2. Share \in Nat /\ Timeout \in Nat
  BY ShareType, TimesAssumption DEF Divisible
<1>3. now = Timeout
  BY <1>1, <1>2 DEF DeadlineRespected, TimesOut, OutOfTime
<1>4. /\ now < attemptBy
      /\ attemptBy >= startedAt + Share
      /\ deadline >= attemptBy + (n - i) * Share
  <2>1. AttemptsLeft - 1 = n - i
    BY <1>1 DEF AttemptsLeft
  <2>2. QED
    BY <1>1, <2>1 DEF SharesInv, TimesOut, Expired
<1>5. deadline <= Timeout + (n - j) * Share
  <2>1. (n - j) * Share \in Int
    BY <1>1, <1>2
  <2>2. QED
    BY <1>1, <1>2, <2>1 DEF LookupTime
<1> HIDE DEF i, n
<1>6. (n - j) * Share <= (n - i) * Share
  <2>1. n - j \in Nat /\ n - i \in Nat /\ n - j <= n - i
    BY <1>1
  <2>2. QED
    BY <1>2, <2>1
<1> DEFINE mine == (n - i) * Share
           later == (n - j) * Share
<1>7. mine \in Int /\ later \in Int
  BY <1>1, <1>2
<1>8. deadline >= attemptBy + mine /\ deadline <= Timeout + later /\ later <= mine
  BY <1>4, <1>5, <1>6
<1> HIDE DEF mine, later
<1>9. QED
  BY <1>1, <1>2, <1>3, <1>4, <1>7, <1>8

LEMMA MissedStep ==
    TcpInv /\ [Next]_vars => NothingMissed'
<1> SUFFICES ASSUME TcpInv, [Next]_vars  PROVE NothingMissed'
  OBVIOUS
<1> USE DEF TcpInv
<1>1. CASE UNCHANGED vars
  BY <1>1 DEF vars, NothingMissed, Divisible, Share, LookupTime
<1>2. CASE verdict' \notin {"failed", "untried", "timeout"}
  BY <1>2 DEF NothingMissed
<1>3. ASSUME GiveUp \/ TimesOut,
             NEW j \in 1 .. Len(addrs), prompt, Divisible, deadline # 0,
             addrs[j].answer = "accept", addrs[j].after <= Share,
             LookupTime <= (Len(addrs) - j) * Share
      PROVE  FALSE
  <2>1. addrs \in Seq(Peers) /\ addrs[j] \in Peers
    BY DEF TypeOK
  <2>2. addrs[j].after \in Nat /\ Share \in Nat
    BY <1>3, <2>1, ShareType, TimesAssumption DEF Peers, Divisible
  <2>3. j > Len(errors)
    <3>1. SUFFICES ASSUME j \in 1 .. Len(errors)  PROVE FALSE
      BY <3>1 DEF TypeOK
    <3>2. addrs[j].after > Larger(Share, MinAttempt)
      BY <1>3, <3>1 DEF ErrorsInv
    <3>3. QED
      BY <1>3, <2>2, <3>2, TimesAssumption DEF Larger
  <2>4. CASE GiveUp
    <3>1. AttemptsLeft \in Nat \ {0} /\ {now, deadline} \subseteq Nat
      BY <2>3 DEF TypeOK, AttemptsLeft
    <3>2. deadline >= now + AttemptsLeft * Share
      BY <1>3, <2>4 DEF SharesInv, GiveUp
    <3>3. Share >= 1
      BY <1>3, <2>2, TimesAssumption DEF Divisible
    <3>4. AttemptsLeft * Share \in Nat \ {0}
      BY <2>2, <3>1, <3>3
    <3>5. Remaining # 0
      BY <3>1, <3>2, <3>4 DEF Remaining
    <3>6. QED
      BY <2>4, <3>1, <3>5 DEF GiveUp
  <2>5. CASE TimesOut
    <3>1. pc = "connect"
      BY <1>3, <2>5 DEF TimesOut, OutOfTime, ControlInv
    <3>2. QED
      BY <1>3, <2>3, <2>5, <3>1, MissedByTimeout
  <2>6. QED
    BY <1>3, <2>4, <2>5
<1>4. CASE GiveUp \/ TimesOut
  <2>1. UNCHANGED <<prompt, addrs, deadline, errors, now>>
    BY <1>4 DEF GiveUp, TimesOut
  <2>2. Divisible' = Divisible /\ Share' = Share /\ LookupTime' = LookupTime
    BY <2>1 DEF Divisible, Share, LookupTime
  <2>3. QED
    BY <1>3, <1>4, <2>1, <2>2 DEF NothingMissed
<1>5. QED
  BY <1>1, <1>2, <1>4
     DEF Next, ProbeStep, ResolverStep, Terminated, Validate, Attempt,
         Connected, Refused, Expire, LookupFails, Resolve, Tick, Return,
         ControlInv, Answered, Expired

LEMMA TcpInvInit == Init => TcpInv
<1>1. Init => DeadlineRespected /\ SharesInv /\ TypeOK /\ ControlInv
  BY TypeInit, SharesInit, TimesAssumption DEF Init, DeadlineRespected
<1>2. Init => ErrorsInv /\ FailureIsTrue /\ NothingMissed
  BY DEF Init, ErrorsInv, FailureIsTrue, NothingMissed
<1>3. QED
  BY <1>1, <1>2 DEF TcpInv

LEMMA TcpInvStep == TcpInv /\ [Next]_vars => TcpInv'
BY TypeStep, DeadlineStep, SharesStep, ErrorsStep, FailureStep, MissedStep
   DEF TcpInv

(* The inductive invariant of the TCP probe: every address that is left is  *)
(* sure of its share, and every error that was noted is true.               *)
THEOREM TcpInvHolds == Spec => []TcpInv
BY TcpInvInit, TcpInvStep, PTL DEF Spec

(* What a failure says of the addresses is true of each of them.            *)
THEOREM FailureHolds == Spec => []FailureIsTrue
<1>1. TcpInv => FailureIsTrue
  BY DEF TcpInv
<1>2. QED
  BY <1>1, TcpInvHolds, PTL

(* A peer that accepts within its share is found, for every timeout and     *)
(* every number of addresses, whatever the others do.                       *)
THEOREM MissedHolds == Spec => []NothingMissed
<1>1. TcpInv => NothingMissed
  BY DEF TcpInv
<1>2. QED
  BY <1>1, TcpInvHolds, PTL

-----------------------------------------------------------------------------
(* The refinement *)

LEMMA ContractInit == Init => Contract!Init
BY TimesAssumption DEF Init, Contract!Init, Phase, Outcome

LEMMA ContractStep ==
    TcpInv /\ [Next]_vars => [Contract!Next]_(Contract!vars)
<1> SUFFICES ASSUME TcpInv, [Next]_vars
             PROVE  [Contract!Next]_(Contract!vars)
  OBVIOUS
<1> USE DEF TcpInv, Phase, Outcome
<1>0. Timeout \in Nat /\ now \in Nat
  BY TimesAssumption DEF TypeOK
<1>1. ASSUME NEW valid \in BOOLEAN, Validate(valid)  PROVE Contract!Next
  <2>1. CASE valid
    <3>1. Contract!Begin
      BY <1>0, <1>1, <2>1 DEF Validate, ControlInv, Contract!Begin
    <3>2. QED
      BY <3>1 DEF Contract!Next
  <2>2. CASE ~valid
    <3>1. Contract!Refuse
      BY <1>1, <2>2 DEF Validate, Return, Contract!Refuse
    <3>2. QED
      BY <3>1 DEF Contract!Next, Contract!Outcomes
  <2>3. QED
    BY <2>1, <2>2
<1>2. ASSUME pc \in {"lookup", "next", "connect"}, pc' = "done",
             verdict' \in {"healthy", "invalid", "unresolved", "noAddress",
                           "untried", "failed", "timeout"},
             verdict' = "timeout" => now >= Timeout,
             UNCHANGED <<prompt, now>>
      PROVE  Contract!Next
  <2>1. Outcome' \in Contract!Outcomes /\ Outcome = "none"
    BY <1>2 DEF Contract!Outcomes, ControlInv
  <2>2. Contract!End(Outcome')
    BY <1>2, <2>1 DEF Contract!End, ControlInv
  <2>3. QED
    BY <2>1, <2>2 DEF Contract!Next
<1>3. ASSUME pc \in {"lookup", "next", "connect"},
             pc' \in {"lookup", "next", "connect"},
             UNCHANGED <<prompt, now, verdict>>
      PROVE  UNCHANGED Contract!vars
  BY <1>3 DEF Contract!vars
<1>4. CASE Tick
  <2>1. Contract!Wait
    BY <1>0, <1>4 DEF Tick, OutOfTime, TypeOK, Contract!Wait
  <2>2. QED
    BY <2>1 DEF Contract!Next
<1>5. CASE UNCHANGED vars
  BY <1>5 DEF vars, Contract!vars
<1>6. ASSUME NEW list \in AddrLists, NEW fits \in BOOLEAN, Resolve(list, fits)
      PROVE  [Contract!Next]_(Contract!vars)
  BY <1>2, <1>3, <1>6 DEF Resolve, Return
<1>7. CASE Attempt \/ Refused \/ Expire
  BY <1>3, <1>7 DEF Attempt, Refused, Expire, Answered, Expired
<1>8. ASSUME NEW v \in {"invalid", "unresolved"}, LookupFails(v)
      PROVE  [Contract!Next]_(Contract!vars)
  BY <1>2, <1>8 DEF LookupFails, Return
<1>9. CASE GiveUp \/ Connected \/ TimesOut
  BY <1>2, <1>9 DEF GiveUp, Connected, TimesOut, Return, Answered, OutOfTime
<1>10. QED
  BY <1>1, <1>4, <1>5, <1>6, <1>7, <1>8, <1>9
     DEF Next, ProbeStep, ResolverStep, Terminated

(* The TCP probe implements the contract of a probe, for every timeout and  *)
(* every list of addresses.                                                 *)
THEOREM ContractKept == Spec => KeepsContract
BY ContractInit, ContractStep, TcpInvHolds, PTL
   DEF Spec, KeepsContract, Contract!Spec
=============================================================================
