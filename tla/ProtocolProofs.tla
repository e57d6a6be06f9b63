---------------------------- MODULE ProtocolProofs -----------------------------
(***************************************************************************)
(* That Protocol keeps its word, for any number of calls and of request    *)
(* identifiers: its invariants, and that it implements Requests.           *)
(*                                                                         *)
(* The argument is about the set of the registered calls.  A promise is    *)
(* found by its identifier, and since identifiers may collide it need not  *)
(* be that of the call whose answer or timer finds it; what holds is that  *)
(* every step that resolves a call takes exactly that call off the list,   *)
(* and that for no identifier are there more promises than armed timers.   *)
(***************************************************************************)
EXTENDS Protocol, ListProofs

\* The calls with a promise, and those of them that carry an identifier.
Registered == ToSet(promises)
Owing(id) == {c \in Registered : req[c] = id}

\* The armed timers that look for an identifier.
Armed(id) == {c \in timers : req[c] = id}

\* A call is registered at most once, and its callback is still to come.
PromisesAreOpen ==
  /\ IsInjective(promises)
  /\ \A c \in Registered : phase[c] = "settled" /\ outcomes[c] = <<>> /\ c \notin dropped

\* Before its promise is registered a call has no outcome, unless it was refused.
QuietBeforeSettled ==
  \A c \in Call : phase[c] \in {"idle", "queued", "sent", "unsent"} => outcomes[c] = <<>>

\* A settled call has no outcome yet exactly if it is registered or was dropped.
SettledIsAccounted ==
  \A c \in Call : phase[c] = "settled" =>
    (outcomes[c] = <<>> <=> c \in dropped \cup Registered)

\* What was dropped was settled, and is dropped only with the protocol; after
\* that no response is read.
DroppedAtTheEnd ==
  /\ \A c \in dropped : phase[c] = "settled"
  /\ dropped # {} => mode = "freed"
  /\ mode = "freed" => net = {}

\* For every promise there is a timer that looks for its identifier.
TimersSuffice ==
  /\ IsFiniteSet(timers)
  /\ \A c \in timers : phase[c] = "settled"
  /\ \A id \in ReqId : Cardinality(Owing(id)) <= Cardinality(Armed(id))

\* Responses carry the identifier of the call they answer, and are only given to
\* callbacks of calls with that identifier.
AnswersMatch ==
  /\ \A d \in net : d.id = req[d.of]
  /\ \A c \in Call : \A k \in DOMAIN outcomes[c] :
       outcomes[c][k].ok => req[outcomes[c][k].of] = req[c]

\* The inductive invariant.
IInv == /\ TypeOK /\ ResolvedOnce
        /\ PromisesAreOpen /\ QuietBeforeSettled /\ SettledIsAccounted
        /\ DroppedAtTheEnd /\ TimersSuffice /\ AnswersMatch

-----------------------------------------------------------------------------
(* The list of promises                                                    *)
-----------------------------------------------------------------------------
\* find_promise_index finds a promise with the identifier if there is one.
LEMMA FoundPromise ==
  ASSUME NEW ps \in Seq(Call), NEW id, Pending(ps, id)
  PROVE  PromiseIndex(ps, id) \in 1..Len(ps) /\ req[ps[PromiseIndex(ps, id)]] = id
<1> DEFINE T == {i \in 1..Len(ps) : req[ps[i]] = id}
<1>1. DOMAIN ps = 1..Len(ps)
  OBVIOUS
<1>2. T \in SUBSET Nat /\ T # {}
  BY <1>1 DEF Pending
<1>3. PICK m \in T : \A n \in T : m <= n
  BY <1>2, LeastOf
<1>4. m \in Nat /\ \A j \in 1..(m - 1) : j \in 1..Len(ps) /\ ~ (m <= j)
  BY <1>3
<1>5. \E i \in DOMAIN ps : req[ps[i]] = id /\ \A j \in 1..(i - 1) : req[ps[j]] # id
  BY <1>1, <1>3, <1>4
<1>6. QED
  BY <1>1, <1>5 DEF PromiseIndex

\* Nothing is pending for an identifier exactly if no member of the list has it.
LEMMA PendingIsOwed ==
  ASSUME NEW ps \in Seq(Call), NEW id
  PROVE  Pending(ps, id) <=> \E c \in ToSet(ps) : req[c] = id
BY DEF Pending, ToSet

\* Taking a pending promise off the list takes off one call, which has the
\* identifier, and leaves the others.
LEMMA TakenOff ==
  ASSUME NEW ps \in Seq(Call), IsInjective(ps), NEW id, Pending(ps, id)
  PROVE  LET i == PromiseIndex(ps, id) IN
         /\ ps[i] \in ToSet(ps) /\ req[ps[i]] = id
         /\ RemoveAt(ps, i) \in Seq(Call) /\ IsInjective(RemoveAt(ps, i))
         /\ ToSet(RemoveAt(ps, i)) = ToSet(ps) \ {ps[i]}
<1> DEFINE i == PromiseIndex(ps, id)
<1>1. i \in 1..Len(ps) /\ req[ps[i]] = id
  BY FoundPromise
<1> HIDE DEF i
<1>2. RemoveAt(ps, i) \in Seq(Call)
  BY <1>1, RemoveAtProperties
<1>3. IsInjective(RemoveAt(ps, i)) /\ ToSet(RemoveAt(ps, i)) = ToSet(ps) \ {ps[i]}
  BY <1>1, RemoveAtMembers
<1>4. ps[i] \in ToSet(ps)
  BY <1>1 DEF ToSet
<1>5. QED
  BY <1>1, <1>2, <1>3, <1>4 DEF i

\* There are finitely many registered calls.
LEMMA FinitelyRegistered ==
  ASSUME TypeOK, PromisesAreOpen
  PROVE  /\ Registered \subseteq Call /\ IsFiniteSet(Registered)
         /\ \A id : IsFiniteSet(Owing(id)) /\ Cardinality(Owing(id)) \in Nat
<1>1. Registered \subseteq Call
  BY DEF TypeOK, Registered, ToSet
<1>2. IsFiniteSet(Registered \cap Call)
  BY PlacesAndMembers DEF TypeOK, PromisesAreOpen, Registered
<1>3. Registered \cap Call = Registered
  BY <1>1
<1>4. \A id : Owing(id) \in SUBSET Registered
  BY DEF Owing
<1>5. QED
  BY <1>1, <1>2, <1>3, <1>4, FS_Subset, FS_CardinalityType

\* So are the timers that look for an identifier.
LEMMA FinitelyArmed ==
  ASSUME TimersSuffice
  PROVE  \A id : IsFiniteSet(Armed(id)) /\ Cardinality(Armed(id)) \in Nat
<1>1. \A id : Armed(id) \in SUBSET timers
  BY DEF Armed
<1>2. QED
  BY <1>1, FS_Subset, FS_CardinalityType DEF TimersSuffice

\* The count of NotForgotten, which is over the places of the list, is the one of
\* TimersSuffice, which is over the registered calls.
LEMMA PlacesAreOwing ==
  ASSUME TypeOK, PromisesAreOpen, NEW id
  PROVE  Cardinality({i \in DOMAIN promises : req[promises[i]] = id}) = Cardinality(Owing(id))
<1> DEFINE T == {c \in Call : req[c] = id}
<1>1. Cardinality({i \in DOMAIN promises : promises[i] \in T}) = Cardinality(Registered \cap T)
  BY PlacesAndMembers DEF TypeOK, PromisesAreOpen, Registered
<1>2. \A i \in DOMAIN promises : promises[i] \in T <=> req[promises[i]] = id
  BY DEF TypeOK
<1>3. Registered \cap T = Owing(id)
  BY FinitelyRegistered DEF Owing
<1>4. {i \in DOMAIN promises : promises[i] \in T} = {i \in DOMAIN promises : req[promises[i]] = id}
  BY <1>2
<1>5. QED
  BY <1>1, <1>3, <1>4

-----------------------------------------------------------------------------
(* The steps                                                               *)
-----------------------------------------------------------------------------
Outcome == {Failure} \cup {Success(c) : c \in Call}

\* All of the invariant but the counting of timers.
Accounts == /\ TypeOK /\ ResolvedOnce
            /\ PromisesAreOpen /\ QuietBeforeSettled /\ SettledIsAccounted
            /\ DroppedAtTheEnd /\ AnswersMatch

\* A step that takes one call x off the list and runs its callback, whichever of
\* the timer, the response or the failing start of a timer brings it about; the
\* last registers a call in the same step, which makes up the set A.
LEMMA ResolvingKeepsAccounts ==
  ASSUME IInv,
         NEW A \in SUBSET {c \in Call : phase[c] = "sent"},
         NEW x \in Registered \cup A,
         NEW out \in Outcome, out.ok => req[out.of] = req[x],
         Resolve(x, out),
         phase' = [c \in Call |-> IF c \in A THEN "settled" ELSE phase[c]],
         promises' \in Seq(Call), IsInjective(promises'),
         Registered' = (Registered \cup A) \ {x},
         timers' \subseteq timers, net' \subseteq net,
         UNCHANGED <<req, served, mode, dropped>>
  PROVE  Accounts'
<1> USE DEF IInv
<1>1. Registered \subseteq Call /\ x \in Call
  BY FinitelyRegistered
<1>2. outcomes[x] = <<>> /\ x \notin dropped /\ phase'[x] = "settled"
  BY <1>1 DEF PromisesAreOpen, QuietBeforeSettled, DroppedAtTheEnd
<1>3. outcomes' = [outcomes EXCEPT ![x] = <<out>>]
  BY <1>2 DEF Resolve
<1>4. outcomes'[x] = <<out>> /\ \A c \in Call : c # x => outcomes'[c] = outcomes[c]
  BY <1>1, <1>3 DEF TypeOK
<1>5. <<out>> # <<>> /\ Len(<<out>>) = 1 /\ <<out>>[1] = out /\ DOMAIN <<out>> = {1}
  OBVIOUS
<1>6. TypeOK'
  <2>1. phase' \in [Call -> Phase]
    BY DEF TypeOK, Phase
  <2>2. <<out>> \in Seq(Outcome)
    OBVIOUS
  <2>3. outcomes' \in [Call -> Seq(Outcome)]
    BY <1>1, <1>3, <2>2 DEF TypeOK, Outcome
  <2>4. QED
    BY <2>1, <2>3 DEF TypeOK, Outcome
<1>7. ResolvedOnce'
  <2>1. Len(outcomes'[x]) <= 1
    BY <1>4, <1>5
  <2>2. \A c \in Call : c # x => Len(outcomes'[c]) <= 1
    BY <1>4, Zenon DEF ResolvedOnce
  <2>3. QED
    BY <2>1, <2>2 DEF ResolvedOnce
<1>8. PromisesAreOpen'
  BY <1>1, <1>4, Zenon DEF PromisesAreOpen, QuietBeforeSettled, DroppedAtTheEnd
<1>9. QuietBeforeSettled'
  BY <1>2, <1>4 DEF QuietBeforeSettled
<1>10. SettledIsAccounted'
  <2>1. ASSUME NEW c \in Call, phase'[c] = "settled", c # x
        PROVE  outcomes'[c] = <<>> <=> c \in dropped' \cup Registered'
    BY <1>4, <2>1 DEF SettledIsAccounted, QuietBeforeSettled
  <2>2. outcomes'[x] # <<>> /\ x \notin dropped' \cup Registered'
    BY <1>2, <1>4, <1>5
  <2>3. QED
    BY <2>1, <2>2 DEF SettledIsAccounted
<1>11. DroppedAtTheEnd'
  BY DEF DroppedAtTheEnd, TypeOK
<1>12. AnswersMatch'
  BY <1>4, <1>5 DEF AnswersMatch
<1>13. QED
  BY <1>6, <1>7, <1>8, <1>9, <1>10, <1>11, <1>12 DEF Accounts

\* The timers that are left suffice for a list from which a call was taken: the
\* timer of the call c has gone off, and it took a promise with its identifier
\* off the list if there was one.
LEMMA TimeoutLeavesEnough ==
  ASSUME IInv, NEW c \in timers, timers' = timers \ {c},
         UNCHANGED <<phase, req>>, Registered' \subseteq Registered,
         (\E x \in Registered : req[x] = req[c] /\ Registered' = Registered \ {x})
           \/ Owing(req[c]) = {}
  PROVE  TimersSuffice'
<1> USE DEF IInv
<1>1. IsFiniteSet(timers')
  BY FS_RemoveElement DEF TimersSuffice
<1>2. ASSUME NEW id \in ReqId
      PROVE  Cardinality(Owing(id)') <= Cardinality(Armed(id)')
  <2>1. /\ IsFiniteSet(Owing(id)) /\ Cardinality(Owing(id)) \in Nat
        /\ IsFiniteSet(Armed(id)) /\ Cardinality(Armed(id)) \in Nat
        /\ Cardinality(Owing(id)) <= Cardinality(Armed(id))
    BY FinitelyRegistered, FinitelyArmed DEF TimersSuffice
  <2>2. Owing(id)' \in SUBSET Owing(id)
    BY DEF Owing
  <2>3. CASE id # req[c]
    <3>1. Armed(id)' = Armed(id)
      BY <2>3 DEF Armed
    <3>2. Cardinality(Owing(id)') \in Nat /\ Cardinality(Owing(id)') <= Cardinality(Owing(id))
      BY <2>1, <2>2, FS_Subset, FS_CardinalityType
    <3>3. QED
      BY <2>1, <3>1, <3>2
  <2>4. CASE id = req[c]
    <3>1. Armed(id)' = Armed(id) \ {c} /\ c \in Armed(id)
      BY <2>4 DEF Armed
    <3>2. Cardinality(Armed(id)') = Cardinality(Armed(id)) - 1
      BY <2>1, <3>1, FS_RemoveElement
    <3>3. CASE Owing(id) = {}
      <4>1. Cardinality(Owing(id)') = 0 /\ Cardinality(Armed(id)) # 0
        BY <2>1, <2>2, <3>1, <3>3, FS_EmptySet
      <4>2. QED
        BY <2>1, <3>2, <4>1
    <3>4. CASE \E x \in Registered : req[x] = req[c] /\ Registered' = Registered \ {x}
      <4>1. PICK x \in Owing(id) : Owing(id)' = Owing(id) \ {x}
        BY <2>4, <3>4 DEF Owing
      <4>2. Cardinality(Owing(id)') = Cardinality(Owing(id)) - 1
        BY <2>1, <4>1, FS_RemoveElement
      <4>3. QED
        BY <2>1, <3>2, <4>2
    <3>5. QED
      BY <2>4, <3>3, <3>4
  <2>5. QED
    BY <2>3, <2>4
<1>3. QED
  BY <1>1, <1>2 DEF TimersSuffice

\* A promise comes with its timer; one whose timer cannot be started takes a
\* promise with the same identifier off the list.
LEMMA RegisteringLeavesEnough ==
  ASSUME IInv, NEW c \in Call, phase[c] = "sent",
         phase' = [phase EXCEPT ![c] = "settled"], UNCHANGED req,
         \/ timers' = timers \cup {c} /\ Registered' = Registered \cup {c}
         \/ /\ timers' = timers
            /\ \E x \in Registered \cup {c} :
                 req[x] = req[c] /\ Registered' = (Registered \cup {c}) \ {x}
  PROVE  TimersSuffice'
<1> USE DEF IInv
<1>1. c \notin timers /\ c \notin Registered
  BY DEF TimersSuffice, PromisesAreOpen
<1>2. IsFiniteSet(timers') /\ \A t \in timers' : phase'[t] = "settled"
  BY FS_AddElement DEF TimersSuffice, TypeOK
<1>3. ASSUME NEW id \in ReqId
      PROVE  Cardinality(Owing(id)') <= Cardinality(Armed(id)')
  <2>1. /\ IsFiniteSet(Owing(id)) /\ Cardinality(Owing(id)) \in Nat
        /\ IsFiniteSet(Armed(id)) /\ Cardinality(Armed(id)) \in Nat
        /\ Cardinality(Owing(id)) <= Cardinality(Armed(id))
    BY FinitelyRegistered, FinitelyArmed DEF TimersSuffice
  <2>2. CASE id # req[c]
    <3>1. Armed(id)' = Armed(id) /\ Owing(id)' = Owing(id)
      BY <2>2 DEF Armed, Owing
    <3>2. QED
      BY <2>1, <3>1
  <2>3. CASE id = req[c]
    <3> DEFINE more == Owing(id) \cup {c}
    <3>1. IsFiniteSet(more) /\ Cardinality(more) = Cardinality(Owing(id)) + 1
      BY <1>1, <2>1, FS_AddElement DEF Owing
    <3>2. CASE timers' = timers \cup {c} /\ Registered' = Registered \cup {c}
      <4>1. Owing(id)' = more /\ Armed(id)' = Armed(id) \cup {c} /\ c \notin Armed(id)
        BY <1>1, <2>3, <3>2 DEF Armed, Owing
      <4>2. Cardinality(Armed(id)') = Cardinality(Armed(id)) + 1
        BY <2>1, <4>1, FS_AddElement
      <4>3. QED
        BY <2>1, <3>1, <4>1, <4>2
    <3>3. CASE /\ timers' = timers
               /\ \E x \in Registered \cup {c} :
                    req[x] = req[c] /\ Registered' = (Registered \cup {c}) \ {x}
      <4>1. Armed(id)' = Armed(id)
        BY <3>3 DEF Armed
      <4>2. PICK x \in more : Owing(id)' = more \ {x}
        BY <2>3, <3>3 DEF Owing
      <4>3. Cardinality(Owing(id)') = Cardinality(more) - 1
        BY <3>1, <4>2, FS_RemoveElement
      <4>4. QED
        BY <2>1, <3>1, <4>1, <4>3
    <3>4. QED
      BY <3>2, <3>3
  <2>4. QED
    BY <2>2, <2>3
<1>4. QED
  BY <1>2, <1>3 DEF TimersSuffice

\* Nothing is disturbed by a list that loses promises while the timers stay.
LEMMA FewerPromisesLeaveEnough ==
  ASSUME IInv, UNCHANGED <<req, timers>>, Registered' \subseteq Registered,
         \A c \in timers : phase'[c] = "settled"
  PROVE  TimersSuffice'
<1> USE DEF IInv
<1>1. ASSUME NEW id \in ReqId
      PROVE  Cardinality(Owing(id)') <= Cardinality(Armed(id)')
  <2>1. /\ IsFiniteSet(Owing(id)) /\ Cardinality(Owing(id)) \in Nat
        /\ Cardinality(Armed(id)) \in Nat
        /\ Cardinality(Owing(id)) <= Cardinality(Armed(id))
    BY FinitelyRegistered, FinitelyArmed DEF TimersSuffice
  <2>2. Owing(id)' \in SUBSET Owing(id) /\ Armed(id)' = Armed(id)
    BY DEF Owing, Armed
  <2>3. Cardinality(Owing(id)') \in Nat /\ Cardinality(Owing(id)') <= Cardinality(Owing(id))
    BY <2>1, <2>2, FS_Subset, FS_CardinalityType
  <2>4. QED
    BY <2>1, <2>2, <2>3
<1>2. QED
  BY <1>1 DEF TimersSuffice

\* A call that is made, written or lost before it is registered changes nothing
\* but its own phase.
LEMMA SendingKeepsAccounts ==
  ASSUME IInv, NEW c \in Call, phase[c] # "settled",
         NEW to \in {"queued", "sent", "unsent"},
         phase' = [phase EXCEPT ![c] = to], outcomes[c] = <<>>,
         UNCHANGED <<mode, dropped, req, promises, timers, outcomes, net, served>>
  PROVE  IInv'
<1> USE DEF IInv
<1>1. phase'[c] = to /\ \A e \in Call : e # c => phase'[e] = phase[e]
  BY DEF TypeOK
<1>2. c \notin Registered /\ c \notin dropped /\ c \notin timers
  BY DEF PromisesAreOpen, DroppedAtTheEnd, TimersSuffice
<1>3. TypeOK' /\ ResolvedOnce'
  BY DEF TypeOK, Phase, ResolvedOnce
<1>4. Registered' = Registered /\ Registered \subseteq Call
  BY FinitelyRegistered DEF Registered
<1>5. PromisesAreOpen'
  BY <1>1, <1>2, <1>4 DEF PromisesAreOpen
<1>6. QuietBeforeSettled'
  BY <1>1 DEF QuietBeforeSettled
<1>7. SettledIsAccounted'
  BY <1>1, <1>4 DEF SettledIsAccounted
<1>8. DroppedAtTheEnd' /\ AnswersMatch'
  BY <1>1, <1>2 DEF DroppedAtTheEnd, AnswersMatch, TypeOK
<1>9. TimersSuffice'
  BY <1>1, <1>2, <1>4, FewerPromisesLeaveEnough DEF TimersSuffice, TypeOK
<1>10. QED
  BY <1>3, <1>5, <1>6, <1>7, <1>8, <1>9

\* A refused call has its outcome before it was sent.
LEMMA RefusingKeepsAccounts ==
  ASSUME IInv, NEW c \in Call, AskRefused(c), UNCHANGED <<mode, dropped>>
  PROVE  IInv'
<1> USE DEF IInv, AskRefused
<1>1. phase'[c] = "refused" /\ \A e \in Call : e # c => phase'[e] = phase[e]
  BY DEF TypeOK
<1>2. c \notin Registered /\ c \notin dropped /\ c \notin timers /\ outcomes[c] = <<>>
  BY DEF PromisesAreOpen, DroppedAtTheEnd, TimersSuffice, QuietBeforeSettled
<1>3. outcomes'[c] = <<Failure>> /\ \A e \in Call : e # c => outcomes'[e] = outcomes[e]
  BY <1>2 DEF Resolve, TypeOK
<1>4. Registered' = Registered /\ Registered \subseteq Call
  BY FinitelyRegistered DEF Registered
<1>5. TypeOK'
  <2>1. <<Failure>> \in Seq(Outcome)
    BY DEF Outcome
  <2>2. outcomes' \in [Call -> Seq(Outcome)]
    BY <1>2, <2>1 DEF TypeOK, Outcome, Resolve
  <2>3. QED
    BY <2>2 DEF TypeOK, Outcome, Phase
<1>6. ResolvedOnce'
  <2>1. Len(<<Failure>>) <= 1
    OBVIOUS
  <2>2. \A e \in Call : e # c => Len(outcomes'[e]) <= 1
    BY <1>3, Zenon DEF ResolvedOnce
  <2>3. QED
    BY <1>3, <2>1, <2>2 DEF ResolvedOnce
<1>7. PromisesAreOpen'
  BY <1>1, <1>2, <1>3, <1>4 DEF PromisesAreOpen
<1>8. QuietBeforeSettled'
  BY <1>1, <1>3 DEF QuietBeforeSettled
<1>9. SettledIsAccounted'
  BY <1>1, <1>3, <1>4 DEF SettledIsAccounted
<1>10. DroppedAtTheEnd'
  BY <1>1, <1>2 DEF DroppedAtTheEnd, TypeOK
<1>11. AnswersMatch'
  <2>1. DOMAIN <<Failure>> = {1} /\ ~ <<Failure>>[1].ok
    BY DEF Failure
  <2>2. QED
    BY <1>3, <2>1 DEF AnswersMatch
<1>12. TimersSuffice'
  BY <1>1, <1>2, <1>4, FewerPromisesLeaveEnough DEF TimersSuffice, TypeOK
<1>13. QED
  BY <1>5, <1>6, <1>7, <1>8, <1>9, <1>10, <1>11, <1>12

\* A promise is registered and its timer is armed, whatever else is pending.
LEMMA RegisteringKeepsAccounts ==
  ASSUME IInv, NEW c \in Call, SendDone(c), UNCHANGED <<mode, dropped>>
  PROVE  IInv'
<1> USE DEF IInv, SendDone
<1>1. phase'[c] = "settled" /\ \A e \in Call : e # c => phase'[e] = phase[e]
  BY DEF TypeOK
<1>2. c \notin Registered /\ c \notin dropped /\ c \notin timers /\ outcomes[c] = <<>>
  BY DEF PromisesAreOpen, DroppedAtTheEnd, TimersSuffice, QuietBeforeSettled
<1>3. /\ promises' \in Seq(Call) /\ IsInjective(promises')
      /\ Registered' = Registered \cup {c}
  BY <1>2, AppendMembers DEF TypeOK, PromisesAreOpen, Registered
<1>4. TypeOK' /\ ResolvedOnce'
  BY <1>3 DEF TypeOK, Phase, ResolvedOnce
<1>5. PromisesAreOpen'
  BY <1>1, <1>2, <1>3 DEF PromisesAreOpen
<1>6. QuietBeforeSettled' /\ SettledIsAccounted'
  BY <1>1, <1>2, <1>3 DEF QuietBeforeSettled, SettledIsAccounted
<1>7. DroppedAtTheEnd' /\ AnswersMatch'
  BY <1>1 DEF DroppedAtTheEnd, AnswersMatch, TypeOK
<1>8. TimersSuffice'
  BY <1>3, RegisteringLeavesEnough
<1>9. QED
  BY <1>4, <1>5, <1>6, <1>7, <1>8

\* A call whose timer cannot be started is registered, and in the same step the
\* first promise with its identifier fails.
LEMMA FailingTimerKeepsAccounts ==
  ASSUME IInv, NEW c \in Call, SendDoneNoTimer(c), UNCHANGED <<mode, dropped>>
  PROVE  IInv'
<1> USE DEF IInv
<1> DEFINE registered == Append(promises, c)
           i == PromiseIndex(registered, req[c])
           x == registered[i]
<1>1. /\ phase[c] = "sent" /\ phase' = [phase EXCEPT ![c] = "settled"]
      /\ promises' = RemoveAt(registered, i)
      /\ Resolve(x, Failure)
      /\ UNCHANGED <<req, timers, net, served>>
  BY DEF SendDoneNoTimer
<1>2. c \notin Registered
  BY <1>1 DEF PromisesAreOpen
<1>3. /\ registered \in Seq(Call) /\ IsInjective(registered)
      /\ ToSet(registered) = Registered \cup {c}
  BY <1>2, AppendMembers DEF TypeOK, PromisesAreOpen, Registered
<1> HIDE DEF registered
<1>4. Pending(registered, req[c])
  BY <1>3, PendingIsOwed
<1>5. /\ x \in Registered \cup {c} /\ req[x] = req[c]
      /\ RemoveAt(registered, i) \in Seq(Call) /\ IsInjective(RemoveAt(registered, i))
      /\ ToSet(RemoveAt(registered, i)) = (Registered \cup {c}) \ {x}
  BY <1>3, <1>4, TakenOff
<1> HIDE DEF i, x
<1>6. Registered' = (Registered \cup {c}) \ {x}
  BY <1>1, <1>5 DEF Registered
<1>7. Accounts'
  <2>1. phase' = [e \in Call |-> IF e \in {c} THEN "settled" ELSE phase[e]]
    BY <1>1 DEF TypeOK
  <2>2. Failure \in Outcome /\ ~ Failure.ok
    BY DEF Outcome, Failure
  <2>3. {c} \in SUBSET {e \in Call : phase[e] = "sent"}
    BY <1>1
  <2>4. timers' \subseteq timers /\ net' \subseteq net
    BY <1>1
  <2>5. QED
    BY <1>1, <1>5, <1>6, <2>1, <2>2, <2>3, <2>4, ResolvingKeepsAccounts
<1>8. TimersSuffice'
  BY <1>1, <1>5, <1>6, RegisteringLeavesEnough
<1>9. QED
  BY <1>7, <1>8 DEF Accounts

\* A timer that goes off takes the first promise with its identifier off the
\* list, be it that of its own call or of another, or finds none.
LEMMA TimeoutKeepsAccounts ==
  ASSUME IInv, NEW c \in Call, Timeout(c), UNCHANGED <<mode, dropped>>
  PROVE  IInv'
<1> USE DEF IInv
<1>1. /\ c \in timers /\ timers' = timers \ {c}
      /\ UNCHANGED <<phase, req, net, served>>
  BY DEF Timeout
<1>2. CASE Pending(promises, req[c])
  <2> DEFINE i == PromiseIndex(promises, req[c])
             x == promises[i]
  <2>1. Resolve(x, Failure) /\ promises' = RemoveAt(promises, i)
    BY <1>2 DEF Timeout
  <2>2. /\ x \in Registered /\ req[x] = req[c]
        /\ RemoveAt(promises, i) \in Seq(Call) /\ IsInjective(RemoveAt(promises, i))
        /\ ToSet(RemoveAt(promises, i)) = Registered \ {x}
    BY <1>2, TakenOff DEF TypeOK, PromisesAreOpen, Registered
  <2> HIDE DEF i, x
  <2>3. Registered' = Registered \ {x}
    BY <2>1, <2>2 DEF Registered
  <2>4. Accounts'
    <3>1. phase' = [e \in Call |-> IF e \in {} THEN "settled" ELSE phase[e]]
      BY <1>1 DEF TypeOK
    <3>2. Failure \in Outcome /\ ~ Failure.ok
      BY DEF Outcome, Failure
    <3>3. /\ {} \in SUBSET {e \in Call : phase[e] = "sent"} /\ x \in Registered \cup {}
          /\ Registered' = (Registered \cup {}) \ {x}
          /\ timers' \subseteq timers /\ net' \subseteq net
      BY <1>1, <2>2, <2>3
    <3>4. QED
      BY <1>1, <2>1, <2>2, <3>1, <3>2, <3>3, ResolvingKeepsAccounts
  <2>5. TimersSuffice'
    BY <1>1, <2>2, <2>3, TimeoutLeavesEnough
  <2>6. QED
    BY <2>4, <2>5 DEF Accounts
<1>3. CASE ~ Pending(promises, req[c])
  <2>1. UNCHANGED <<outcomes, promises>>
    BY <1>3 DEF Timeout
  <2>2. Owing(req[c]) = {}
    BY <1>3, PendingIsOwed DEF TypeOK, Owing, Registered
  <2>3. Registered' = Registered
    BY <2>1 DEF Registered
  <2>4. TimersSuffice'
    BY <1>1, <2>2, <2>3, TimeoutLeavesEnough
  <2>5. Accounts'
    BY <1>1, <2>1, <2>3
       DEF Accounts, TypeOK, ResolvedOnce, PromisesAreOpen, QuietBeforeSettled,
           SettledIsAccounted, DroppedAtTheEnd, AnswersMatch
  <2>6. QED
    BY <2>4, <2>5 DEF Accounts
<1>4. QED
  BY <1>2, <1>3

\* An answer takes the first promise with its identifier off the list.
LEMMA AnswerKeepsAccounts ==
  ASSUME IInv, NEW d \in net, NEW again \in BOOLEAN, ReceiveAnswer(d, again),
         UNCHANGED <<mode, dropped>>
  PROVE  IInv'
<1> USE DEF IInv
<1> DEFINE i == PromiseIndex(promises, d.id)
           x == promises[i]
<1>1. /\ Pending(promises, d.id)
      /\ Resolve(x, Success(d.of)) /\ promises' = RemoveAt(promises, i)
      /\ net' \subseteq net
      /\ UNCHANGED <<phase, req, timers, served>>
  BY DEF ReceiveAnswer, Accepts
<1>2. d.of \in Call /\ d.id = req[d.of]
  BY DEF TypeOK, AnswersMatch
<1>3. /\ x \in Registered /\ req[x] = d.id
      /\ RemoveAt(promises, i) \in Seq(Call) /\ IsInjective(RemoveAt(promises, i))
      /\ ToSet(RemoveAt(promises, i)) = Registered \ {x}
  BY <1>1, TakenOff DEF TypeOK, PromisesAreOpen, Registered
<1> HIDE DEF i, x
<1>4. Registered' = Registered \ {x}
  BY <1>1, <1>3 DEF Registered
<1>5. Accounts'
  <2>1. phase' = [e \in Call |-> IF e \in {} THEN "settled" ELSE phase[e]]
    BY <1>1 DEF TypeOK
  <2>2. Success(d.of) \in Outcome /\ Success(d.of).of = d.of
    BY <1>2 DEF Outcome, Success
  <2>3. /\ {} \in SUBSET {e \in Call : phase[e] = "sent"} /\ x \in Registered \cup {}
        /\ Registered' = (Registered \cup {}) \ {x}
        /\ timers' \subseteq timers
    BY <1>1, <1>3, <1>4
  <2>4. Success(d.of).ok => req[Success(d.of).of] = req[x]
    BY <1>2, <1>3, <2>2
  <2>5. QED
    BY <1>1, <1>3, <2>1, <2>2, <2>3, <2>4, ResolvingKeepsAccounts
<1>6. TimersSuffice'
  BY <1>1, <1>4, FewerPromisesLeaveEnough DEF TimersSuffice
<1>7. QED
  BY <1>5, <1>6 DEF Accounts

\* A response that comes into being carries the identifier of its request; one
\* that is lost or ignored changes nothing.
LEMMA NetworkKeepsAccounts ==
  ASSUME IInv, UNCHANGED <<phase, req, promises, timers, outcomes, mode, dropped>>,
         \/ \E c \in Call : PeerAnswers(c)
         \/ net' \subseteq net /\ served' = served
  PROVE  IInv'
<1> USE DEF IInv
<1>1. Registered' = Registered
  BY DEF Registered
<1>2. TimersSuffice'
  BY <1>1, FewerPromisesLeaveEnough DEF TimersSuffice
<1>3. ResolvedOnce' /\ PromisesAreOpen' /\ QuietBeforeSettled' /\ SettledIsAccounted'
  BY <1>1 DEF ResolvedOnce, PromisesAreOpen, QuietBeforeSettled, SettledIsAccounted
<1>4. TypeOK' /\ DroppedAtTheEnd' /\ AnswersMatch'
  <2>1. CASE net' \subseteq net /\ served' = served
    BY <2>1 DEF TypeOK, DroppedAtTheEnd, AnswersMatch
  <2>2. CASE \E c \in Call : PeerAnswers(c)
    <3>1. PICK c \in Call : PeerAnswers(c)
      BY <2>2
    <3>2. \E k \in Kind : c \in CallsOf[k]
      BY DEF Call, Kind, CallsOf
    <3>3. kind[c] \in Kind
      BY <3>2 DEF kind
    <3>4. PICK shape \in Shape : net' = net \cup {[id |-> req[c], shape |-> shape, of |-> c]}
      BY <3>1, <3>3 DEF PeerAnswers, Shape
    <3>5. mode = "listening" /\ served' = served \cup {c}
      BY <3>1 DEF PeerAnswers
    <3>6. TypeOK'
      BY <3>4, <3>5 DEF TypeOK
    <3>7. DroppedAtTheEnd' /\ AnswersMatch'
      BY <3>4, <3>5 DEF DroppedAtTheEnd, AnswersMatch
    <3>8. QED
      BY <3>6, <3>7
  <2>3. QED
    BY <2>1, <2>2
<1>5. QED
  BY <1>2, <1>3, <1>4

\* The protocol is freed: what was registered is dropped, what is queued is not.
LEMMA FreeingKeepsAccounts ==
  ASSUME IInv, Free
  PROVE  IInv'
<1> USE DEF IInv, Free
<1>1. dropped = {} /\ dropped' = Registered /\ Registered \subseteq Call
  BY FinitelyRegistered DEF DroppedAtTheEnd, Started, Registered, ToSet
<1>2. Registered' = {} /\ promises' \in Seq(Call) /\ IsInjective(promises')
  BY DEF Registered, ToSet, IsInjective
<1>3. TypeOK' /\ ResolvedOnce'
  BY <1>1, <1>2 DEF TypeOK, Mode, ResolvedOnce
<1>4. PromisesAreOpen' /\ QuietBeforeSettled'
  BY <1>2 DEF PromisesAreOpen, QuietBeforeSettled
<1>5. SettledIsAccounted'
  BY <1>1, <1>2 DEF SettledIsAccounted
<1>6. DroppedAtTheEnd' /\ AnswersMatch'
  BY <1>1 DEF DroppedAtTheEnd, AnswersMatch, PromisesAreOpen
<1>7. TimersSuffice'
  BY <1>2, FewerPromisesLeaveEnough DEF TimersSuffice
<1>8. QED
  BY <1>3, <1>4, <1>5, <1>6, <1>7

-----------------------------------------------------------------------------
(* The invariants                                                          *)
-----------------------------------------------------------------------------
\* Before the protocol is started there are no promises and no timers.
LEMMA InitKeepsAccounts == Init => IInv
<1> SUFFICES ASSUME Init PROVE IInv
  OBVIOUS
<1> USE DEF Init
<1>1. Registered = {} /\ IsInjective(promises)
  BY DEF Registered, ToSet, IsInjective
<1>2. TypeOK
  BY DEF TypeOK, Phase, Mode
<1>3. ResolvedOnce /\ QuietBeforeSettled /\ SettledIsAccounted /\ DroppedAtTheEnd
  BY DEF ResolvedOnce, QuietBeforeSettled, SettledIsAccounted, DroppedAtTheEnd
<1>4. PromisesAreOpen /\ AnswersMatch
  BY <1>1 DEF PromisesAreOpen, AnswersMatch
<1>5. TimersSuffice
  <2>1. \A id \in ReqId : Owing(id) = {} /\ Armed(id) = {}
    BY <1>1 DEF Owing, Armed
  <2>2. Cardinality({}) = 0 /\ IsFiniteSet({}) /\ 0 <= 0
    BY FS_EmptySet
  <2>3. \A id \in ReqId : Cardinality(Owing(id)) <= Cardinality(Armed(id))
    BY <2>1, <2>2, Zenon
  <2>4. QED
    BY <2>2, <2>3 DEF TimersSuffice
<1>6. QED
  BY <1>2, <1>3, <1>4, <1>5 DEF IInv

\* No step breaks the invariant.
LEMMA StepKeepsAccounts == IInv /\ [Next]_vars => IInv'
<1> SUFFICES ASSUME IInv, [Next]_vars PROVE IInv'
  OBVIOUS
<1>1. CASE Start
  BY <1>1 DEF Start, IInv, TypeOK, Mode, ResolvedOnce, PromisesAreOpen, QuietBeforeSettled,
              SettledIsAccounted, DroppedAtTheEnd, TimersSuffice, AnswersMatch,
              Registered, Owing, Armed
<1>2. CASE Free
  BY <1>2, FreeingKeepsAccounts
<1>3. ASSUME NEW c \in Call, Step(c), UNCHANGED <<mode, dropped>>
      PROVE  IInv'
  <2>1. CASE Ask(c)
    BY <1>3, <2>1, SendingKeepsAccounts DEF Ask, IInv, QuietBeforeSettled
  <2>2. CASE AskRefused(c)
    BY <1>3, <2>2, RefusingKeepsAccounts
  <2>3. CASE Transmit(c)
    BY <1>3, <2>3, SendingKeepsAccounts DEF Transmit, IInv, QuietBeforeSettled
  <2>4. CASE SendFails(c)
    BY <1>3, <2>4, SendingKeepsAccounts DEF SendFails, IInv, QuietBeforeSettled
  <2>5. CASE SendDone(c)
    BY <1>3, <2>5, RegisteringKeepsAccounts
  <2>6. CASE SendDoneNoTimer(c)
    BY <1>3, <2>6, FailingTimerKeepsAccounts
  <2>7. CASE Timeout(c)
    BY <1>3, <2>7, TimeoutKeepsAccounts
  <2>8. CASE PeerAnswers(c)
    BY <1>3, <2>8, NetworkKeepsAccounts DEF PeerAnswers
  <2>9. QED
    BY <1>3, <2>1, <2>2, <2>3, <2>4, <2>5, <2>6, <2>7, <2>8 DEF Step
<1>4. ASSUME NEW d \in net, NEW again \in BOOLEAN, Arrival(d, again),
             UNCHANGED <<mode, dropped>>
      PROVE  IInv'
  <2>1. CASE Lose(d)
    BY <1>4, <2>1, NetworkKeepsAccounts DEF Lose
  <2>2. CASE ReceiveIgnored(d, again)
    BY <1>4, <2>2, NetworkKeepsAccounts DEF ReceiveIgnored
  <2>3. CASE ReceiveAnswer(d, again)
    BY <1>4, <2>3, AnswerKeepsAccounts
  <2>4. QED
    BY <1>4, <2>1, <2>2, <2>3 DEF Arrival
<1>5. CASE UNCHANGED vars
  BY <1>5 DEF vars, IInv, TypeOK, ResolvedOnce, PromisesAreOpen, QuietBeforeSettled,
              SettledIsAccounted, DroppedAtTheEnd, TimersSuffice, AnswersMatch,
              Registered, Owing, Armed
<1>6. QED
  BY <1>1, <1>2, <1>3, <1>4, <1>5 DEF Next

\* The books are kept: who is registered, dropped, resolved or still to be sent,
\* and how many timers there are (protocol.c: send_request_cb,
\* request_timeout_cb, recv_cb_response, kad_uv_protocol_free).
THEOREM BooksAreKept == Spec => []IInv
BY InitKeepsAccounts, StepKeepsAccounts, PTL DEF Spec

\* The structures of the protocol keep their shape.
THEOREM ProtocolTypeCorrect == Spec => []TypeOK
<1>1. IInv => TypeOK
  BY DEF IInv
<1>2. QED
  BY <1>1, BooksAreKept, PTL

\* No callback runs twice, whichever timers and responses find the promises,
\* and however many calls share an identifier.
THEOREM AlwaysResolvedOnce == Spec => []ResolvedOnce
<1>1. IInv => ResolvedOnce
  BY DEF IInv
<1>2. QED
  BY <1>1, BooksAreKept, PTL

\* A call that was written to the network is never lost track of: until its
\* callback has run it is in the list, with timers enough, or was dropped when
\* the protocol was freed.
THEOREM NobodyForgotten == Spec => []NotForgotten
<1>1. IInv => TimersCoverPromises
  <2> SUFFICES ASSUME IInv, NEW id \in ReqId
               PROVE  Cardinality({i \in DOMAIN promises : req[promises[i]] = id})
                        <= Cardinality({c \in timers : req[c] = id})
    BY DEF TimersCoverPromises
  <2>1. Cardinality({i \in DOMAIN promises : req[promises[i]] = id}) = Cardinality(Owing(id))
    BY PlacesAreOwing DEF IInv
  <2>2. QED
    BY <2>1 DEF IInv, TimersSuffice, Armed
<1>2. IInv => \A c \in Call : phase[c] = "settled" =>
        (outcomes[c] = <<>> <=> c \in dropped \/ \E i \in DOMAIN promises : promises[i] = c)
  <2>1. \A c : c \in Registered <=> \E i \in DOMAIN promises : promises[i] = c
    BY DEF Registered, ToSet
  <2>2. QED
    BY <2>1 DEF IInv, SettledIsAccounted
<1>3. IInv => NotForgotten
  BY <1>1, <1>2 DEF NotForgotten
<1>4. QED
  BY <1>3, BooksAreKept, PTL

\* A callback is never given the answer to a call with another identifier; a
\* call whose identifier is its own is given its own answer.
THEOREM AlwaysOwnAnswer == Spec => []OwnAnswer
<1>1. IInv => OwnAnswer
  <2> SUFFICES ASSUME IInv, NEW c \in Call, \A d \in Call \ {c} : req[d] # req[c],
                      NEW k \in DOMAIN outcomes[c], outcomes[c][k].ok
               PROVE  outcomes[c][k].of = c
    BY DEF OwnAnswer
  <2>1. outcomes[c] \in Seq(Outcome)
    BY DEF IInv, TypeOK, Outcome
  <2>2. outcomes[c][k] \in Outcome
    BY <2>1
  <2>3. PICK e \in Call : outcomes[c][k] = Success(e)
    BY <2>2 DEF Outcome, Failure
  <2>4. outcomes[c][k].of \in Call
    BY <2>3 DEF Success
  <2>5. req[outcomes[c][k].of] = req[c]
    BY DEF IInv, AnswersMatch
  <2>6. QED
    BY <2>4, <2>5
<1>2. QED
  BY <1>1, BooksAreKept, PTL

-----------------------------------------------------------------------------
(* The refinement                                                          *)
-----------------------------------------------------------------------------
\* What Requests sees of the state.
Made == {c \in Call : phase[c] # "idle"}
Called == [c \in Call |-> [k \in DOMAIN outcomes[c] |-> outcomes[c][k].ok]]

\* A callback that runs for the first time is one that Requests sees.
LEMMA FirstOutcomeIsCalled ==
  ASSUME NEW x \in Call, NEW out, outcomes \in [Call -> Seq(Outcome)],
         outcomes[x] = <<>>, Resolve(x, out)
  PROVE  Called[x] = <<>> /\ Called' = [Called EXCEPT ![x] = <<out.ok>>]
<1>1. outcomes' = [outcomes EXCEPT ![x] = <<out>>]
  BY DEF Resolve
<1>2. [k \in DOMAIN <<out>> |-> <<out>>[k].ok] = <<out.ok>>
  OBVIOUS
<1>3. [k \in DOMAIN outcomes[x] |-> outcomes[x][k].ok] = <<>>
  OBVIOUS
<1>4. QED
  BY <1>1, <1>2, <1>3 DEF Called

\* What every step that resolves a registered call is for Requests, whoever it
\* was that found the promise.
LEMMA ResolvingIsCallBack ==
  ASSUME IInv, NEW x \in Call, NEW out \in Outcome, Resolve(x, out),
         outcomes[x] = <<>>, x \notin dropped, phase[x] # "idle",
         out.ok => mode # "freed",
         Made' = Made, UNCHANGED <<mode, dropped>>
  PROVE  Callbacks!Next
<1>1. Called[x] = <<>> /\ Called' = [Called EXCEPT ![x] = <<out.ok>>]
  BY FirstOutcomeIsCalled DEF IInv, TypeOK, Outcome
<1>2. out.ok \in BOOLEAN
  <2>1. Failure.ok = FALSE /\ \A c : Success(c).ok = TRUE
    BY DEF Failure, Success
  <2>2. QED
    BY <2>1 DEF Outcome
<1>3. x \in Made \ dropped
  BY DEF Made
<1>4. Callbacks!CallBack(x, out.ok)
  BY <1>1, <1>3 DEF Callbacks!CallBack, Made, Called
<1>5. QED
  BY <1>2, <1>4 DEF Callbacks!Next

\* A step after which Requests sees what it saw before.
Unseen == UNCHANGED <<Made, Called, dropped, mode # "freed">>

\* A call is made; it is called back at once if it was refused.
LEMMA AskingIsMaking ==
  ASSUME IInv, NEW c \in Call, Ask(c) \/ AskRefused(c), UNCHANGED <<mode, dropped>>
  PROVE  Callbacks!Next
<1>1. c \notin Made /\ outcomes[c] = <<>>
  BY DEF Ask, AskRefused, Made, IInv, QuietBeforeSettled
<1>2. Made' = Made \cup {c}
  <2>1. phase'[c] # "idle" /\ \A e \in Call : e # c => phase'[e] = phase[e]
    BY DEF Ask, AskRefused, IInv, TypeOK
  <2>2. QED
    BY <2>1 DEF Made
<1>3. Called' \in {Called, [Called EXCEPT ![c] = <<FALSE>>]}
  <2>1. CASE Ask(c)
    BY <2>1 DEF Ask, Called
  <2>2. CASE AskRefused(c)
    <3>1. Resolve(c, Failure) /\ Failure.ok = FALSE
      BY <2>2 DEF AskRefused, Failure
    <3>2. Called' = [Called EXCEPT ![c] = <<Failure.ok>>]
      BY <1>1, <3>1, FirstOutcomeIsCalled DEF IInv, TypeOK, Outcome
    <3>3. QED
      BY <3>1, <3>2
  <2>3. QED
    BY <2>1, <2>2
<1>4. Callbacks!Make(c)
  BY <1>1, <1>2, <1>3 DEF Callbacks!Make, Made, Called
<1>5. QED
  BY <1>4 DEF Callbacks!Next

\* What was registered when the protocol is freed is forgotten.
LEMMA FreeingIsClosing ==
  ASSUME IInv, Free
  PROVE  Callbacks!Next
<1>1. dropped' = Registered /\ UNCHANGED <<Made, Called>>
  BY DEF Free, Registered, ToSet, Made, Called
<1>2. \A c \in Registered : c \in Made /\ Called[c] = <<>>
  <2>1. ASSUME NEW c \in Registered
        PROVE  c \in Call /\ phase[c] = "settled" /\ outcomes[c] = <<>>
    BY FinitelyRegistered DEF IInv, PromisesAreOpen
  <2>2. \A c \in Registered : [k \in DOMAIN outcomes[c] |-> outcomes[c][k].ok] = <<>>
    BY <2>1
  <2>3. QED
    BY <2>1, <2>2 DEF Made, Called
<1>3. dropped' \in SUBSET {c \in Made : Called[c] = <<>>}
  BY <1>1, <1>2
<1>4. Callbacks!Close
  BY <1>1, <1>3 DEF Callbacks!Close, Free, Started, Made, Called
<1>5. QED
  BY <1>4 DEF Callbacks!Next

\* At first no request was made.
LEMMA InitIsRequests == Init => Callbacks!Init
<1> SUFFICES ASSUME Init PROVE Callbacks!Init
  OBVIOUS
<1>1. Made = {}
  BY DEF Init, Made
<1>2. Called = [c \in Call |-> <<>>]
  BY DEF Init, Called
<1>3. QED
  BY <1>1, <1>2 DEF Init, Callbacks!Init, Made, Called

\* Every step is a step of Requests, or one that it does not see.
LEMMA StepIsRequests == IInv /\ [Next]_vars => Callbacks!Next \/ Unseen
<1> SUFFICES ASSUME IInv, [Next]_vars PROVE Callbacks!Next \/ Unseen
  OBVIOUS
<1>1. CASE Start
  BY <1>1 DEF Start, Unseen, Made, Called
<1>2. CASE Free
  BY <1>2, FreeingIsClosing
<1>3. ASSUME NEW c \in Call, Step(c), UNCHANGED <<mode, dropped>>
      PROVE  Callbacks!Next \/ Unseen
  <2>1. CASE Ask(c) \/ AskRefused(c)
    BY <1>3, <2>1, AskingIsMaking
  <2>2. CASE Transmit(c) \/ SendFails(c) \/ SendDone(c)
    <3>1. UNCHANGED outcomes
      BY <2>2 DEF Transmit, SendFails, SendDone
    <3>2. phase[c] # "idle" /\ phase'[c] # "idle"
          /\ \A e \in Call : e # c => phase'[e] = phase[e]
      BY <2>2 DEF Transmit, SendFails, SendDone, IInv, TypeOK
    <3>3. QED
      BY <1>3, <3>1, <3>2 DEF Unseen, Made, Called
  <2>3. CASE SendDoneNoTimer(c)
    <3> DEFINE registered == Append(promises, c)
               x == registered[PromiseIndex(registered, req[c])]
    <3>1. phase[c] = "sent" /\ Resolve(x, Failure)
          /\ phase' = [phase EXCEPT ![c] = "settled"]
      BY <2>3 DEF SendDoneNoTimer
    <3>2. c \notin Registered
      BY <3>1 DEF IInv, PromisesAreOpen
    <3>3. /\ registered \in Seq(Call) /\ IsInjective(registered)
          /\ ToSet(registered) = Registered \cup {c}
      BY <3>2, AppendMembers DEF IInv, TypeOK, PromisesAreOpen, Registered
    <3> HIDE DEF registered
    <3>4. x \in Registered \cup {c}
      BY <3>3, PendingIsOwed, TakenOff
    <3> HIDE DEF x
    <3>5. /\ x \in Call /\ outcomes[x] = <<>> /\ x \notin dropped /\ phase[x] # "idle"
      BY <3>1, <3>4, FinitelyRegistered
         DEF IInv, PromisesAreOpen, QuietBeforeSettled, DroppedAtTheEnd
    <3>6. Made' = Made
      BY <3>1 DEF Made, IInv, TypeOK
    <3>7. Failure \in Outcome /\ ~ Failure.ok
      BY DEF Outcome, Failure
    <3>8. QED
      BY <1>3, <3>1, <3>5, <3>6, <3>7, ResolvingIsCallBack
  <2>4. CASE Timeout(c)
    <3>1. CASE ~ Pending(promises, req[c])
      BY <1>3, <2>4, <3>1 DEF Timeout, Unseen, Made, Called
    <3>2. CASE Pending(promises, req[c])
      <4> DEFINE x == promises[PromiseIndex(promises, req[c])]
      <4>1. Resolve(x, Failure) /\ UNCHANGED phase
        BY <2>4, <3>2 DEF Timeout
      <4>2. x \in Registered
        BY <3>2, TakenOff DEF IInv, TypeOK, PromisesAreOpen, Registered
      <4> HIDE DEF x
      <4>3. x \in Call /\ outcomes[x] = <<>> /\ x \notin dropped /\ phase[x] # "idle"
        BY <4>2, FinitelyRegistered DEF IInv, PromisesAreOpen
      <4>4. Made' = Made
        BY <4>1 DEF Made
      <4>5. Failure \in Outcome /\ ~ Failure.ok
        BY DEF Outcome, Failure
      <4>6. QED
        BY <1>3, <4>1, <4>3, <4>4, <4>5, ResolvingIsCallBack
    <3>3. QED
      BY <3>1, <3>2
  <2>5. CASE PeerAnswers(c)
    BY <1>3, <2>5 DEF PeerAnswers, Unseen, Made, Called
  <2>6. QED
    BY <1>3, <2>1, <2>2, <2>3, <2>4, <2>5 DEF Step
<1>4. ASSUME NEW d \in net, NEW again \in BOOLEAN, Arrival(d, again),
             UNCHANGED <<mode, dropped>>
      PROVE  Callbacks!Next \/ Unseen
  <2>1. CASE Lose(d) \/ ReceiveIgnored(d, again)
    BY <1>4, <2>1 DEF Lose, ReceiveIgnored, Unseen, Made, Called
  <2>2. CASE ReceiveAnswer(d, again)
    <3> DEFINE x == promises[PromiseIndex(promises, d.id)]
    <3>1. Resolve(x, Success(d.of)) /\ UNCHANGED phase /\ Pending(promises, d.id)
      BY <2>2 DEF ReceiveAnswer, Accepts
    <3>2. x \in Registered
      BY <3>1, TakenOff DEF IInv, TypeOK, PromisesAreOpen, Registered
    <3> HIDE DEF x
    <3>3. x \in Call /\ outcomes[x] = <<>> /\ x \notin dropped /\ phase[x] # "idle"
      BY <3>2, FinitelyRegistered DEF IInv, PromisesAreOpen
    <3>4. Made' = Made
      BY <3>1 DEF Made
    <3>5. Success(d.of) \in Outcome /\ mode # "freed"
      BY DEF Outcome, IInv, TypeOK, DroppedAtTheEnd
    <3>6. QED
      BY <1>4, <3>1, <3>3, <3>4, <3>5, ResolvingIsCallBack
  <2>3. QED
    BY <1>4, <2>1, <2>2 DEF Arrival
<1>5. CASE UNCHANGED vars
  BY <1>5 DEF vars, Unseen, Made, Called
<1>6. QED
  BY <1>1, <1>2, <1>3, <1>4, <1>5 DEF Next

\* The protocol implements what it promises: callbacks come at most once, one at
\* a time and for calls that were made; when it is freed it forgets what was
\* registered for good and answers nobody else with success.
THEOREM ImplementsRequests == Spec => KeepsRequests
<1>1. IInv /\ [Next]_vars => [Callbacks!Next]_<<Made, Called, dropped, mode # "freed">>
  BY StepIsRequests DEF Unseen
<1>2. QED
  BY <1>1, InitIsRequests, BooksAreKept, PTL
     DEF Spec, KeepsRequests, Callbacks!Spec, Made, Called
=============================================================================
