---------------------------- MODULE AiTurnsProofs ----------------------------
(***************************************************************************)
(* Proofs about AiTurns for every set of messages and of replies, every    *)
(* buffer length, every silence and every amount of trouble.               *)
(***************************************************************************)
EXTENDS AiTurns, SequenceTheorems, TLAPS

(* A number that was read or made is not ahead of the sequence.            *)
IdsOK ==
  /\ \A m \in Customer : intake[m].id <= seq
  /\ \A n \in Running : turns[n].id <= seq

(* A turn has a claim from the rename to its restore, and none after that. *)
Holding == {"lock", "begin", "silence", "start", "guard", "send", "sent", "over", "prepend"}
Spare == {"reseq", "rejob", "readd"}

HoldsOK ==
  \A n \in Running : /\ turns[n].at \in Holding => n \in DOMAIN scratch
                     /\ turns[n].at \in Spare => n \notin DOMAIN scratch

(* A message that is marked is not taken in again.                         *)
MarkOK == \A m \in marked : intake[m].at \in {"check", "done"}

(* A claim whose turn is over or is not there, and one that an earlier run *)
(* left to a turn that has not claimed yet, holds settled messages only.   *)
Ended == {"claim", "rename", "sent", "over"}
Done(m) == answered[m] > 0 \/ m \in gone

SettledOK ==
  \A n \in DOMAIN scratch :
    (n \in Running => turns[n].at \in Ended) => \A m \in Claimed(n) : Done(m)

(* A message its intake has pushed is somewhere, or settled.               *)
HandedOK == \A m \in Customer : m \in marked \/ Pushed(m) => Done(m) \/ Waits(m)

(* A number under which a job can still be added, or whose turn has yet to *)
(* claim the buffer.                                                       *)
Unclaimed == {"claim", "rename"}
Fresh(n) == n \notin failed /\ (n \in Running => turns[n].at \in Unclaimed)

(* What will come for the buffer, and not find its number used up.         *)
IntakeComes(m) ==
  \/ intake[m].at \in {"check", "push", "append"} /\ m \in flawed \ marked
  \/ intake[m].at \in {"seq", "job", "move"}
  \/ intake[m].at = "add" /\ Fresh(intake[m].id)

Back == {"claim", "rename", "restore", "prepend", "reseq", "rejob"}
TurnComes(n) == turns[n].at \in Back \/ (turns[n].at = "readd" /\ Fresh(turns[n].id))

Comes ==
  \/ delayed # {}
  \/ \E r \in Replies : calls[r].at = "drop"
  \/ \E m \in Customer : IntakeComes(m)
  \/ \E n \in Running : TurnComes(n)

ComingOK == pend # <<>> /\ ~stuck => Comes

(* A reply whose stamp stands is no newer than the last one.               *)
StampOK ==
  \A r \in spoken : calls[r].at # "none" /\ (r \notin overtaken => calls[r].stamp <= lastReply)

(* Message m is at place i of list n, where the buffer is list Free.       *)
Lies(m, n, i) ==
  \/ n = Free /\ i \in DOMAIN pend /\ pend[i] = m
  \/ n \in Unspent /\ i \in DOMAIN scratch[n] /\ scratch[n][i] = m

Nowhere(m) == \A n, i : ~Lies(m, n, i)
Sole(m) == \A n, i, k, j : Lies(m, n, i) /\ Lies(m, k, j) => n = k /\ i = j

(* A message that was not handed over yet is nowhere.                      *)
Once(m) ==
  /\ answered[m] <= 1 /\ (answered[m] = 1 => Nowhere(m)) /\ Sole(m)
  /\ m \notin marked /\ ~Pushed(m) => answered[m] = 0 /\ Nowhere(m)

CopiesOK == \A m \in Customer \ flawed : Once(m)

Base == TypeOK /\ IdsOK /\ HoldsOK
IInv == Base /\ MarkOK /\ SettledOK /\ HandedOK /\ ComingOK /\ StampOK /\ HumanWins /\ CopiesOK

USE AiTurnsAssumption

-----------------------------------------------------------------------------
(* What every step of an intake does.                                      *)

LEMMA UseType ==
  ASSUME TypeOK, NEW what \in Troubles, Use(what)
  PROVE  left' \in [Troubles -> Nat]
BY DEF TypeOK, Use

IntakeMove(m) == Receive(m) \/ Again(m) \/ IntakeStep(m) \/ IntakeFails(m)

Intake == [at : IntakeSteps, id : Nat]

(* The message's own place, and the numbers.                               *)
IntakeGoes(m) ==
  /\ intake' = [intake EXCEPT ![m] = intake'[m]] /\ intake'[m] \in Intake /\ intake'[m].id <= seq'
  /\ seq' \in Nat /\ seq <= seq' /\ stuck' \in BOOLEAN
  /\ delayed \subseteq delayed' /\ delayed' \subseteq 0..seq' /\ Running \intersect delayed' = {}

(* The lists and the histories.                                            *)
IntakeHands(m) ==
  /\ \/ pend' = pend
     \/ At(m, "append") /\ pend' = Append(pend, m) /\ Pushed(m)'
  /\ gone' \in {gone, gone \union {m}} /\ flawed' \in {flawed, flawed \union {m}}
  /\ marked' \in {marked, marked \union {m}}
  /\ m \in marked' => m \in marked \/ Pushed(m)
  /\ m \in marked' => intake'[m].at \in {"check", "done"}
  /\ Pushed(m)' => Pushed(m) \/ m \in gone' \/ pend' = Append(pend, m)
  /\ Pushed(m) => Pushed(m)' \/ m \in marked' \/ m \in flawed'

Rest == <<enabled, now, failed, turns, scratch, lock, people, answered>>

LEMMA IntakeShape ==
  ASSUME Base, MarkOK, NEW m \in Customer, IntakeMove(m)
  PROVE  IntakeGoes(m) /\ IntakeHands(m) /\ left' \in [Troubles -> Nat] /\ UNCHANGED Rest
<1> USE DEF To, At, Pushed, Rest, world, people, messages, buffer, jobs, fate, Intake
<1>0. /\ m \in Nat /\ intake[m] \in Intake /\ intake[m].id <= seq /\ seq \in Nat /\ stuck \in BOOLEAN
      /\ intake \in [Customer -> Intake] /\ left \in [Troubles -> Nat]
      /\ delayed \subseteq 0..seq /\ Running \intersect delayed = {}
      /\ m \in marked => intake[m].at \in {"check", "done"}
  BY DEF Base, TypeOK, IdsOK, MarkOK
<1>u. \A what \in Troubles : Use(what) => left' \in [Troubles -> Nat]
  BY UseType DEF Base
<1> HIDE DEF Intake
<1>i. \A s \in IntakeSteps : /\ [intake[m] EXCEPT !.at = s] \in Intake /\ [intake[m] EXCEPT !.at = s].at = s
                             /\ [intake[m] EXCEPT !.at = s].id = intake[m].id
  BY <1>0 DEF Intake
<1>t. ASSUME NEW s \in IntakeSteps, To(m, s)
      PROVE  /\ intake' = [intake EXCEPT ![m] = intake'[m]] /\ intake'[m] \in Intake
             /\ intake'[m].at = s /\ intake'[m].id = intake[m].id
  <2>1. intake' = [intake EXCEPT ![m] = [intake[m] EXCEPT !.at = s]]
    BY <1>t
  <2>2. intake'[m] = [intake[m] EXCEPT !.at = s]
    BY <1>0, <2>1
  <2> QED BY <1>i, <2>1, <2>2
<1> HIDE DEF To
<1>s. {"none", "check", "push", "append", "seq", "job", "move", "add", "mark", "done"} \subseteq IntakeSteps
  BY DEF IntakeSteps
<1>1. CASE Receive(m)
  <2>1. left' \in [Troubles -> Nat]
    BY <1>1, <1>u DEF Receive, Troubles
  <2>2. To(m, "check") /\ intake[m].at = "none" /\ UNCHANGED <<world, marked, buffer, turns, scratch, lock, people, fate>>
    BY <1>1 DEF Receive
  <2> QED BY <1>0, <1>s, <1>t, <2>1, <2>2 DEF IntakeGoes, IntakeHands
<1>2. CASE Check(m)
  <2>1. \E s \in {"push", "done"} : To(m, s) /\ (s = "push" => m \notin marked)
    BY <1>2 DEF Check
  <2>2. left' \in [Troubles -> Nat] /\ stuck' \in BOOLEAN
    BY <1>0, <1>2, <1>u DEF Check, Troubles, Strand
  <2>3. UNCHANGED <<world, marked, pend, jobs, turns, scratch, lock, people, fate>> /\ intake[m].at = "check"
    BY <1>2 DEF Check
  <2> QED BY <1>0, <1>s, <1>t, <2>1, <2>2, <2>3 DEF IntakeGoes, IntakeHands
<1>3. CASE Push(m)
  BY <1>0, <1>3, <1>s, <1>t DEF Push, IntakeGoes, IntakeHands
<1>4. CASE PushList(m)
  BY <1>0, <1>4, <1>s, <1>t DEF PushList, IntakeGoes, IntakeHands
<1>5. CASE ReadSeq(m)
  <2>1. intake' = [intake EXCEPT ![m] = [at |-> "job", id |-> seq]] /\ intake'[m] = [at |-> "job", id |-> seq]
    BY <1>0, <1>5 DEF ReadSeq
  <2>2. [at |-> "job", id |-> seq] \in Intake
    BY <1>0, <1>s DEF Intake
  <2> QED BY <1>0, <1>5, <2>1, <2>2 DEF ReadSeq, IntakeGoes, IntakeHands
<1>6. CASE FindJob(m)
  <2>1. \E s \in {"move", "add"} : To(m, s)
    BY <1>6 DEF FindJob
  <2> QED BY <1>0, <1>6, <1>s, <1>t, <2>1 DEF FindJob, IntakeGoes, IntakeHands
<1>7. CASE Move(m)
  <2>1. CASE To(m, "mark") /\ stuck' = FALSE /\ UNCHANGED seq
    <3>1. intake[m].at = "move" /\ UNCHANGED <<left, world, marked, pend, delayed, failed, turns, scratch, lock, people, fate>>
      BY <1>7 DEF Move
    <3>2. /\ intake' = [intake EXCEPT ![m] = intake'[m]] /\ intake'[m] \in Intake /\ intake'[m].id = intake[m].id
          /\ intake'[m].at = "mark"
      BY <1>s, <1>t, <2>1
    <3>3. IntakeGoes(m)
      <4>1. stuck' \in BOOLEAN
        BY <2>1
      <4>2. seq' = seq /\ delayed' = delayed
        BY <2>1, <3>1
      <4> QED BY <1>0, <3>2, <4>1, <4>2 DEF IntakeGoes
    <3> QED BY <1>0, <2>1, <3>1, <3>2, <3>3 DEF IntakeHands
  <2>2. CASE seq' = seq + 1 /\ UNCHANGED stuck /\ intake' = [intake EXCEPT ![m] = [at |-> "add", id |-> seq + 1]]
    <3>1. intake'[m] = [at |-> "add", id |-> seq + 1] /\ [at |-> "add", id |-> seq + 1] \in Intake
      BY <1>0, <1>s, <2>2 DEF Intake
    <3> QED BY <1>0, <1>7, <2>2, <3>1 DEF Move, IntakeGoes, IntakeHands
  <2> QED BY <1>7, <2>1, <2>2 DEF Move
<1>8. CASE Arm(m)
  <2>1. stuck' \in BOOLEAN /\ delayed \subseteq delayed' /\ delayed' \subseteq 0..seq /\ Running \intersect delayed' = {}
    <3>1. /\ delayed' = IF Exists(intake[m].id) THEN delayed ELSE delayed \union {intake[m].id}
          /\ stuck' = (stuck /\ intake[m].id \in failed \union Running)
      BY <1>8 DEF Arm, AddJob
    <3>2. intake[m].id \in 0..seq
      BY <1>0 DEF Intake
    <3>3. stuck' \in BOOLEAN
      BY <3>1
    <3> QED BY <1>0, <3>1, <3>2, <3>3 DEF Exists
  <2> QED BY <1>0, <1>8, <1>s, <1>t, <2>1 DEF Arm, IntakeGoes, IntakeHands
<1>9. CASE Mark(m)
  BY <1>0, <1>9, <1>s, <1>t DEF Mark, IntakeGoes, IntakeHands
<1>10. CASE Again(m)
  <2>1. left' \in [Troubles -> Nat]
    BY <1>10, <1>u DEF Again, Troubles
  <2>2. To(m, "check") /\ intake[m].at = "done" /\ UNCHANGED <<world, marked, buffer, turns, scratch, lock, people, fate>>
    BY <1>10 DEF Again
  <2> QED BY <1>0, <1>s, <1>t, <2>1, <2>2 DEF IntakeGoes, IntakeHands
<1>11. CASE IntakeFails(m)
  <2>1. \E s \in {"check", "done"} : To(m, s)
    BY <1>11 DEF IntakeFails
  <2>2. left' \in [Troubles -> Nat] /\ stuck' \in BOOLEAN
    BY <1>0, <1>11, <1>u DEF IntakeFails, Troubles, Strand
  <2>3. UNCHANGED <<world, marked, pend, jobs, turns, scratch, lock, people, answered, gone>>
    BY <1>11 DEF IntakeFails
  <2>4. flawed' = IF Pushed(m) THEN flawed \union {m} ELSE flawed
    BY <1>11 DEF IntakeFails
  <2> QED BY <1>0, <1>s, <1>t, <2>1, <2>2, <2>3, <2>4 DEF IntakeGoes, IntakeHands
<1> QED BY <1>1, <1>2, <1>3, <1>4, <1>5, <1>6, <1>7, <1>8, <1>9, <1>10, <1>11 DEF IntakeMove, IntakeStep

(* The steps of an intake keep the shape and the numbers.                  *)
LEMMA IntakeBase ==
  ASSUME Base, MarkOK, NEW m \in Customer, IntakeMove(m)
  PROVE  Base' /\ MarkOK'
<1>1. IntakeGoes(m) /\ IntakeHands(m) /\ left' \in [Troubles -> Nat] /\ UNCHANGED Rest
  BY IntakeShape
<1>2. /\ intake \in [Customer -> Intake] /\ pend \in Seq(Customer) /\ seq \in Nat
      /\ \A k \in Customer : intake[k].id \in Nat /\ intake[k].id <= seq
      /\ \A n \in Running : turns[n].id \in Nat /\ turns[n].id <= seq
      /\ delayed \union failed \union Running \subseteq 0..seq
  BY DEF Base, TypeOK, IdsOK, Intake, Turn
<1>3. /\ intake' \in [Customer -> Intake] /\ \A k \in Customer : intake'[k].id <= seq'
      /\ \A k \in Customer \ {m} : intake'[k] = intake[k]
  <2>1. intake'[m] \in Intake /\ intake'[m].id <= seq' /\ seq <= seq' /\ seq' \in Nat
        /\ intake' = [intake EXCEPT ![m] = intake'[m]]
    BY <1>1 DEF IntakeGoes
  <2>2. /\ intake' \in [Customer -> Intake] /\ \A k \in Customer \ {m} : intake'[k] = intake[k]
    BY <1>2, <2>1
  <2> QED BY <1>2, <2>1, <2>2
<1>4. pend' \in Seq(Customer) /\ gone' \subseteq Customer /\ flawed' \subseteq Customer /\ marked' \subseteq Customer
      /\ stuck' \in BOOLEAN /\ seq' \in Nat
  <2>1. gone \subseteq Customer /\ flawed \subseteq Customer /\ marked \subseteq Customer
    BY DEF Base, TypeOK
  <2>2. Append(pend, m) \in Seq(Customer)
    BY <1>2
  <2>3. pend' \in {pend, Append(pend, m)} /\ gone' \in {gone, gone \union {m}}
        /\ flawed' \in {flawed, flawed \union {m}} /\ marked' \in {marked, marked \union {m}}
    BY <1>1 DEF IntakeHands
  <2> QED BY <1>1, <1>2, <2>1, <2>2, <2>3 DEF IntakeGoes
<1>5. 0..seq \subseteq 0..seq' /\ delayed' \subseteq 0..seq' /\ Running \intersect delayed' = {}
      /\ \A n \in Running : turns[n].id <= seq'
  BY <1>1, <1>2 DEF IntakeGoes
<1>6. TypeOK'
  BY <1>1, <1>2, <1>3, <1>4, <1>5 DEF TypeOK, Base, Rest, people, Intake, Running
<1>7. IdsOK' /\ HoldsOK'
  BY <1>1, <1>3, <1>5 DEF Base, IdsOK, HoldsOK, Rest, Running
<1>8. MarkOK'
  BY <1>1, <1>3, <1>4 DEF MarkOK, IntakeHands
<1> QED BY <1>6, <1>7, <1>8 DEF Base

-----------------------------------------------------------------------------
(* What every step of a turn does, while it goes on and when it ends.      *)

LEMMA TurnOf ==
  ASSUME TypeOK, NEW n \in Running
  PROVE  /\ turns[n] \in Turn /\ turns[n].at \in TurnSteps /\ turns[n].since \in Nat /\ turns[n].id \in Nat
         /\ turns[n].lock \in {"none", "held", "timeout", "lapsed", "lost"} /\ turns[n].unseen \subseteq Replies
         /\ n \in Nat /\ n <= seq /\ n \notin delayed /\ turns[n].since <= now
         /\ turns[n].lock = "held" => lock = n
<1>1. turns[n] \in Turn /\ n \in 0..seq /\ seq \in Nat
  BY DEF TypeOK
<1>2. turns[n].since <= now /\ (turns[n].lock = "held" => lock = n) /\ n \notin delayed
  BY DEF TypeOK
<1> QED BY <1>1, <1>2 DEF Turn

LEMMA ClaimOf ==
  ASSUME TypeOK, NEW n
  PROVE  /\ Claimed(n) \subseteq Customer
         /\ n \in DOMAIN scratch => scratch[n] \in Seq(Customer) /\ n \in 0..seq
<1>1. CASE n \in DOMAIN scratch
  <2>1. scratch[n] \in Seq(Customer) /\ n \in 0..seq
    BY <1>1 DEF TypeOK
  <2> QED BY <1>1, <2>1 DEF Claimed, ToSet
<1>2. CASE n \notin DOMAIN scratch
  BY <1>2 DEF Claimed
<1> QED BY <1>1, <1>2

(* The turn that goes on, the numbers and the lock.                        *)
TurnGoes(n) ==
  /\ turns' = [turns EXCEPT ![n] = turns'[n]] /\ turns'[n] \in Turn
  /\ turns'[n].id <= seq' /\ turns'[n].since <= now
  /\ seq' \in Nat /\ seq <= seq'
  /\ \/ lock' = lock /\ (turns'[n].lock = "held" => turns[n].lock = "held")
     \/ lock = Free /\ lock' = n
     \/ lock' = Free /\ turns[n].lock = "held" /\ turns'[n].lock # "held"

(* From which step to which.                                               *)
TurnPath(n) ==
  /\ turns'[n].at \in Holding => turns[n].at \in Holding \/ n \in DOMAIN scratch
  /\ turns'[n].at \in Spare => turns[n].at \in Spare
  /\ turns'[n].at \in Unclaimed => turns[n].at \in Unclaimed
  /\ turns[n].at \in Unclaimed => turns'[n].at \in Back
  /\ turns[n].at \in Back => \/ turns'[n].at \in Back
                             \/ turns'[n].at = "readd" /\ Fresh(turns'[n].id)
  /\ turns[n].at = "readd" => turns'[n].at = "readd" /\ turns'[n].id = turns[n].id
  /\ turns[n].at = "sent" => turns'[n].at = "sent"
  /\ turns'[n].at = "send" => /\ turns'[n].since = turns[n].since
                              /\ (~TookOver(n) \/ turns[n].at = "send") /\ turns'[n].unseen = turns[n].unseen

(* What becomes of its claim.                                              *)
TurnHands(n) ==
  /\ gone' \in {gone, gone \union Claimed(n)}
  /\ turns'[n].at = "over" => turns[n].at = "over" \/ gone' = gone \union Claimed(n)
  /\ turns'[n].at = "sent" => turns[n].at = "sent" \/ Answer(n)
  /\ \/ answered' = answered /\ flawed' = flawed
     \/ /\ Answer(n) /\ turns[n].at = "send"
        /\ \/ turns'[n].at = "sent" /\ flawed' = flawed
           \/ flawed' = flawed \union Claimed(n)

Kind == <<enabled, now, messages, pend, delayed, failed, stuck, scratch, people>>

TurnGoing(n) ==
  \/ Claim(n) \/ Acquire(n) \/ LockTimeout(n) \/ Lapse(n) \/ Renew(n) \/ Begin(n) \/ CheckSilence(n)
  \/ FlushStarts(n) \/ NoReply(n) \/ Guard(n) \/ Send(n) \/ TurnThrows(n) \/ RestoreSeq(n)
  \/ ReadScratch(n) /\ n \in DOMAIN scratch
  \/ RestoreJob(n) /\ turns[n].id \notin delayed

(* A turn with a new step, lock, start or number.                          *)
LEMMA Changes ==
  ASSUME TypeOK, NEW n \in Running, NEW t, turns' = [turns EXCEPT ![n] = t], t \in Turn
  PROVE  turns' = [turns EXCEPT ![n] = turns'[n]] /\ turns'[n] = t
<1>1. turns'[n] = t
  BY DEF Running
<1> QED BY <1>1

LEMMA GoesOn ==
  ASSUME TypeOK, NEW n \in Running, NEW s \in TurnSteps, Go(n, s)
  PROVE  /\ turns' = [turns EXCEPT ![n] = turns'[n]] /\ turns'[n] \in Turn
         /\ turns'[n].at = s /\ turns'[n].lock = turns[n].lock /\ turns'[n].since = turns[n].since
         /\ turns'[n].id = turns[n].id /\ turns'[n].unseen = turns[n].unseen
<1> DEFINE t == [turns[n] EXCEPT !.at = s]
<1>1. turns[n] \in Turn
  BY TurnOf
<1>2. t \in Turn /\ t.at = s /\ t.lock = turns[n].lock /\ t.since = turns[n].since
      /\ t.id = turns[n].id /\ t.unseen = turns[n].unseen
  BY <1>1 DEF Turn
<1>3. turns' = [turns EXCEPT ![n] = t]
  BY DEF Go
<1> HIDE DEF t
<1> QED BY <1>2, <1>3, Changes

(* A turn that changes its step and its lock.                              *)
LEMMA GoesLock ==
  ASSUME TypeOK, NEW n \in Running, NEW s \in TurnSteps, NEW l \in {"none", "held", "timeout", "lapsed", "lost"},
         turns' = [turns EXCEPT ![n].at = s, ![n].lock = l]
  PROVE  /\ turns' = [turns EXCEPT ![n] = turns'[n]] /\ turns'[n] \in Turn
         /\ turns'[n].at = s /\ turns'[n].lock = l /\ turns'[n].since = turns[n].since
         /\ turns'[n].id = turns[n].id /\ turns'[n].unseen = turns[n].unseen
<1> DEFINE t == [turns[n] EXCEPT !.at = s, !.lock = l]
<1>1. turns[n] \in Turn
  BY TurnOf
<1>2. t \in Turn /\ t.at = s /\ t.lock = l /\ t.since = turns[n].since
      /\ t.id = turns[n].id /\ t.unseen = turns[n].unseen
  BY <1>1 DEF Turn
<1>3. turns' = [turns EXCEPT ![n] = t]
  BY DEF Running
<1> HIDE DEF t
<1> QED BY <1>2, <1>3, Changes

(* A turn that changes its step and its number.                            *)
Renumbers(n, s, i) == turns' = [turns EXCEPT ![n].at = s, ![n].id = i]

LEMMA GoesId ==
  ASSUME TypeOK, NEW n \in Running, NEW s \in TurnSteps, NEW i \in Nat, Renumbers(n, s, i)
  PROVE  /\ turns' = [turns EXCEPT ![n] = turns'[n]] /\ turns'[n] \in Turn
         /\ turns'[n].at = s /\ turns'[n].lock = turns[n].lock /\ turns'[n].since = turns[n].since
         /\ turns'[n].id = i /\ turns'[n].unseen = turns[n].unseen
<1> DEFINE t == [turns[n] EXCEPT !.at = s, !.id = i]
<1>1. turns[n] \in Turn
  BY TurnOf
<1>2. t \in Turn /\ t.at = s /\ t.lock = turns[n].lock /\ t.since = turns[n].since
      /\ t.id = i /\ t.unseen = turns[n].unseen
  BY <1>1 DEF Turn
<1>3. turns' = [turns EXCEPT ![n] = t]
  BY DEF Running, Renumbers
<1> HIDE DEF t
<1> QED BY <1>2, <1>3, Changes

(* A turn that is over keeps its start, and lets the lock go or not.       *)
LEMMA OverIs ==
  ASSUME TypeOK, NEW n \in Running, NEW s \in TurnSteps, Unlock(n),
         turns' = [turns EXCEPT ![n].at = s, ![n].lock = "none"],
         turns[n].id <= seq, UNCHANGED seq
  PROVE  TurnGoes(n) /\ turns'[n].at = s /\ turns'[n].since = turns[n].since
<1>1. /\ turns' = [turns EXCEPT ![n] = turns'[n]] /\ turns'[n] \in Turn
      /\ turns'[n].at = s /\ turns'[n].lock = "none" /\ turns'[n].since = turns[n].since
      /\ turns'[n].id = turns[n].id
  BY GoesLock
<1>2. turns[n].since <= now /\ seq \in Nat
  BY TurnOf DEF TypeOK
<1>3. lock' = lock \/ (lock' = Free /\ turns[n].lock = "held")
  BY DEF Unlock
<1> QED BY <1>1, <1>2, <1>3 DEF TurnGoes

LEMMA TurnShape ==
  ASSUME Base, NEW n \in Running, TurnGoing(n)
  PROVE  TurnGoes(n) /\ TurnPath(n) /\ TurnHands(n) /\ left' \in [Troubles -> Nat] /\ UNCHANGED Kind
<1> USE DEF Kind, world, people, messages, buffer, jobs, fate, In, Holding, Spare, Unclaimed, Back
<1>0. /\ turns[n] \in Turn /\ turns[n].since <= now /\ turns[n].id <= seq /\ seq \in Nat /\ n \in Nat
      /\ now \in Nat /\ turns[n].id \in Nat /\ turns[n].since \in Nat /\ left \in [Troubles -> Nat]
      /\ turns[n].at \in Holding => n \in DOMAIN scratch
  BY TurnOf DEF Base, TypeOK, IdsOK, HoldsOK
<1>b. TypeOK
  BY DEF Base
<1>u. \A what \in Troubles : Use(what) => left' \in [Troubles -> Nat]
  BY UseType DEF Base
<1>s. {"claim", "rename", "lock", "begin", "silence", "start", "guard", "send", "sent", "over", "restore", "prepend",
       "reseq", "rejob", "readd"} \subseteq TurnSteps
  BY DEF TurnSteps
<1>g. ASSUME NEW s \in TurnSteps, Go(n, s), UNCHANGED <<seq, lock>>
      PROVE  TurnGoes(n) /\ turns'[n].at = s /\ turns'[n].since = turns[n].since
             /\ turns'[n].id = turns[n].id /\ turns'[n].unseen = turns[n].unseen
  BY <1>0, <1>b, <1>g, GoesOn DEF TurnGoes
<1>o. ASSUME Over(n), UNCHANGED <<seq, answered, flawed>>, turns[n].at \in {"begin", "silence", "guard", "send"}
      PROVE  TurnGoes(n) /\ TurnPath(n) /\ TurnHands(n)
  <2>1. TurnGoes(n) /\ turns'[n].at = "over" /\ gone' = gone \union Claimed(n)
    BY <1>0, <1>b, <1>o, <1>s, OverIs DEF Over
  <2> QED BY <1>0, <1>o, <2>1 DEF TurnPath, TurnHands
<1>1. CASE Claim(n)
  <2>1. /\ turns[n].at = "claim" /\ seq' = seq + 1 /\ Go(n, "rename") /\ UNCHANGED <<left, lock, fate, Kind>>
    BY <1>1 DEF Claim
  <2>2. /\ turns' = [turns EXCEPT ![n] = turns'[n]] /\ turns'[n] \in Turn /\ turns'[n].at = "rename"
        /\ turns'[n].lock = turns[n].lock /\ turns'[n].since = turns[n].since /\ turns'[n].id = turns[n].id
    BY <1>b, <1>s, <2>1, GoesOn
  <2> QED BY <1>0, <2>1, <2>2 DEF TurnGoes, TurnPath, TurnHands
<1>2. CASE Acquire(n)
  <2>1. /\ turns[n].at = "lock" /\ lock = Free /\ lock' = n /\ UNCHANGED <<left, seq, fate, Kind>>
        /\ turns' = [turns EXCEPT ![n].at = "begin", ![n].lock = "held"]
    BY <1>2 DEF Acquire
  <2>2. /\ turns' = [turns EXCEPT ![n] = turns'[n]] /\ turns'[n] \in Turn /\ turns'[n].at = "begin"
        /\ turns'[n].since = turns[n].since /\ turns'[n].id = turns[n].id
    BY <1>b, <1>s, <2>1, GoesLock
  <2> QED BY <1>0, <2>1, <2>2 DEF TurnGoes, TurnPath, TurnHands
<1>3. CASE LockTimeout(n)
  <2>1. /\ turns[n].at = "lock" /\ UNCHANGED <<lock, seq, fate, Kind>>
        /\ turns' = [turns EXCEPT ![n].at = "restore", ![n].lock = "timeout"]
    BY <1>3 DEF LockTimeout
  <2>2. /\ turns' = [turns EXCEPT ![n] = turns'[n]] /\ turns'[n] \in Turn /\ turns'[n].at = "restore"
        /\ turns'[n].lock = "timeout" /\ turns'[n].since = turns[n].since /\ turns'[n].id = turns[n].id
    BY <1>b, <1>s, <2>1, GoesLock
  <2>3. left' \in [Troubles -> Nat]
    BY <1>3, <1>u DEF LockTimeout, Troubles
  <2> QED BY <1>0, <2>1, <2>2, <2>3 DEF TurnGoes, TurnPath, TurnHands
<1> DEFINE Same == /\ turns' = [turns EXCEPT ![n] = turns'[n]] /\ turns'[n] \in Turn /\ turns'[n].at = turns[n].at
                   /\ turns'[n].lock # "held" /\ turns'[n].since = turns[n].since /\ turns'[n].id = turns[n].id
                   /\ turns'[n].unseen = turns[n].unseen
<1>l. ASSUME NEW l \in {"lapsed", "lost"}, turns' = [turns EXCEPT ![n].lock = l]
      PROVE  Same
  <2> DEFINE t == [turns[n] EXCEPT !.lock = l]
  <2>1. /\ t \in Turn /\ t.at = turns[n].at /\ t.lock = l /\ t.since = turns[n].since
        /\ t.id = turns[n].id /\ t.unseen = turns[n].unseen
    BY <1>0 DEF Turn
  <2>2. turns' = [turns EXCEPT ![n] = t]
    BY <1>l
  <2> HIDE DEF t
  <2>3. turns' = [turns EXCEPT ![n] = turns'[n]] /\ turns'[n] = t
    BY <1>b, <2>1, <2>2, Changes
  <2> QED BY <1>l, <2>1, <2>3
<1>4. CASE Lapse(n)
  <2>1. /\ turns[n].lock = "held" /\ lock' = Free /\ UNCHANGED <<seq, fate, Kind>> /\ Same
    BY <1>4, <1>l DEF Lapse
  <2>2. left' \in [Troubles -> Nat]
    BY <1>4, <1>u DEF Lapse, Troubles
  <2> QED BY <1>0, <2>1, <2>2 DEF TurnGoes, TurnPath, TurnHands
<1>5. CASE Renew(n)
  <2>1. UNCHANGED <<left, lock, seq, fate, Kind>> /\ Same
    BY <1>5, <1>l DEF Renew
  <2> QED BY <1>0, <2>1 DEF TurnGoes, TurnPath, TurnHands
<1> HIDE DEF Same
<1>6. CASE Begin(n)
  <2>1. turns[n].at = "begin" /\ UNCHANGED <<left, seq, answered, flawed, Kind>>
    BY <1>6 DEF Begin
  <2>2. CASE Go(n, "silence") /\ UNCHANGED <<lock, gone>>
    BY <1>0, <1>g, <1>s, <2>1, <2>2 DEF TurnPath, TurnHands
  <2>3. CASE Over(n)
    BY <1>0, <1>o, <2>1, <2>3
  <2> QED BY <1>6, <2>2, <2>3 DEF Begin
<1>7. CASE CheckSilence(n)
  <2>1. turns[n].at = "silence" /\ UNCHANGED <<left, seq, answered, flawed, Kind>>
    BY <1>7 DEF CheckSilence
  <2>2. CASE Go(n, "start") /\ UNCHANGED <<lock, gone>>
    BY <1>0, <1>g, <1>s, <2>1, <2>2 DEF TurnPath, TurnHands
  <2>3. CASE Over(n)
    BY <1>0, <1>o, <2>1, <2>3
  <2> QED BY <1>7, <2>2, <2>3 DEF CheckSilence
<1>8. CASE FlushStarts(n)
  <2> DEFINE t == [turns[n] EXCEPT !.at = "guard", !.since = now]
  <2>1. /\ t \in Turn /\ t.at = "guard" /\ t.lock = turns[n].lock /\ t.since = now /\ t.id = turns[n].id
    BY <1>0, <1>s DEF Turn
  <2>2. turns' = [turns EXCEPT ![n] = t] /\ turns[n].at = "start" /\ UNCHANGED <<left, seq, lock, fate, Kind>>
    BY <1>8 DEF FlushStarts
  <2> HIDE DEF t
  <2>3. turns' = [turns EXCEPT ![n] = turns'[n]] /\ turns'[n] = t
    BY <1>b, <2>1, <2>2, Changes
  <2> QED BY <1>0, <2>1, <2>2, <2>3 DEF TurnGoes, TurnPath, TurnHands
<1>9. CASE NoReply(n)
  <2>1. turns[n].at \in {"begin", "guard", "send"} /\ UNCHANGED <<seq, answered, flawed, Kind>> /\ Over(n)
    BY <1>9 DEF NoReply
  <2>2. left' \in [Troubles -> Nat]
    BY <1>9, <1>u DEF NoReply, Troubles
  <2> QED BY <1>o, <2>1, <2>2
<1>10. CASE Guard(n)
  <2>1. turns[n].at = "guard" /\ UNCHANGED <<left, seq, answered, flawed, Kind>>
    BY <1>10 DEF Guard
  <2>2. CASE ~TookOver(n) /\ Go(n, "send") /\ UNCHANGED <<lock, gone>>
    BY <1>0, <1>g, <1>s, <2>1, <2>2 DEF TurnPath, TurnHands
  <2>3. CASE Over(n)
    BY <1>0, <1>o, <2>1, <2>3
  <2> QED BY <1>10, <2>2, <2>3 DEF Guard
<1>11. CASE Send(n)
  <2>1. /\ turns[n].at = "send" /\ UNCHANGED <<left, seq, flawed, gone, Kind>> /\ Answer(n) /\ Unlock(n)
        /\ turns' = [turns EXCEPT ![n].at = "sent", ![n].lock = "none"]
    BY <1>11 DEF Send
  <2>2. TurnGoes(n) /\ turns'[n].at = "sent"
    BY <1>0, <1>b, <1>s, <2>1, OverIs
  <2> QED BY <1>0, <2>1, <2>2 DEF TurnPath, TurnHands
<1>12. CASE TurnThrows(n)
  <2>1. /\ turns[n].at \in {"claim", "rename", "lock", "silence", "guard", "send"}
        /\ UNCHANGED <<seq, gone, Kind>> /\ Unlock(n)
        /\ turns' = [turns EXCEPT ![n].at = "restore", ![n].lock = "none"]
        /\ \/ UNCHANGED <<answered, flawed>>
           \/ turns[n].at = "send" /\ Answer(n) /\ flawed' = flawed \union Claimed(n)
    BY <1>12 DEF TurnThrows
  <2>2. TurnGoes(n) /\ turns'[n].at = "restore"
    BY <1>0, <1>b, <1>s, <2>1, OverIs
  <2>3. left' \in [Troubles -> Nat]
    BY <1>12, <1>u DEF TurnThrows, Troubles
  <2> QED BY <1>0, <2>1, <2>2, <2>3 DEF TurnPath, TurnHands
<1>13. CASE RestoreSeq(n)
  <2>1. /\ turns[n].at = "reseq" /\ UNCHANGED <<left, lock, seq, fate, Kind>>
        /\ Renumbers(n, "rejob", seq)
    BY <1>13 DEF RestoreSeq, Renumbers
  <2>2. /\ turns' = [turns EXCEPT ![n] = turns'[n]] /\ turns'[n] \in Turn /\ turns'[n].at = "rejob"
        /\ turns'[n].lock = turns[n].lock /\ turns'[n].since = turns[n].since /\ turns'[n].id = seq
    BY <1>0, <1>b, <1>s, <2>1, GoesId
  <2> QED BY <1>0, <2>1, <2>2 DEF TurnGoes, TurnPath, TurnHands
<1>14. CASE ReadScratch(n) /\ n \in DOMAIN scratch
  <2>1. /\ turns[n].at = "restore" /\ Go(n, "prepend") /\ UNCHANGED <<left, lock, seq, fate, Kind>>
    BY <1>14 DEF ReadScratch
  <2> QED BY <1>0, <1>14, <1>g, <1>s, <2>1 DEF TurnPath, TurnHands
<1>15. CASE RestoreJob(n) /\ turns[n].id \notin delayed
  <2>1. turns[n].at = "rejob" /\ UNCHANGED <<left, lock, fate, Kind>>
    BY <1>15 DEF RestoreJob
  <2>2. CASE seq' = seq + 1 /\ Renumbers(n, "readd", seq + 1)
    <3>1. /\ turns' = [turns EXCEPT ![n] = turns'[n]] /\ turns'[n] \in Turn /\ turns'[n].at = "readd"
          /\ turns'[n].lock = turns[n].lock /\ turns'[n].since = turns[n].since /\ turns'[n].id = seq + 1
      BY <1>0, <1>b, <1>s, <2>2, GoesId
    <3>2. Fresh(seq + 1)
      <4>1. failed \union Running \subseteq 0..seq
        BY <1>b DEF TypeOK
      <4> QED BY <1>0, <4>1 DEF Fresh
    <3> QED BY <1>0, <2>1, <2>2, <3>1, <3>2 DEF TurnGoes, TurnPath, TurnHands
  <2>3. CASE ~Exists(turns[n].id) /\ Go(n, "readd") /\ UNCHANGED seq
    <3>1. TurnGoes(n) /\ turns'[n].at = "readd" /\ turns'[n].id = turns[n].id
      BY <1>g, <1>s, <2>1, <2>3
    <3>2. Fresh(turns[n].id)
      BY <2>3 DEF Exists, Fresh
    <3> QED BY <1>0, <2>1, <3>1, <3>2 DEF TurnPath, TurnHands
  <2> QED BY <1>15, <2>2, <2>3 DEF RestoreJob, Renumbers
<1> QED BY <1>1, <1>2, <1>3, <1>4, <1>5, <1>6, <1>7, <1>8, <1>9, <1>10, <1>11, <1>12, <1>13, <1>14, <1>15 DEF TurnGoing

(* The jobs, once the turn has ended.                                      *)
EndJobs(n) ==
  /\ turns' = Drop(turns, n)
  /\ delayed \subseteq delayed' /\ delayed' \subseteq 0..seq /\ (Running \ {n}) \intersect delayed' = {}
  /\ failed' \in {failed, failed \union {n}}

(* What becomes of its claim.                                              *)
EndHands(n) ==
  /\ scratch' \in {scratch, Drop(scratch, n)}
  /\ gone' \in {gone, gone \union Claimed(n)} /\ flawed' \in {flawed, flawed \union Claimed(n)}
  /\ turns[n].at \in Ended \/ Claimed(n) = {} \/ gone' = gone \union Claimed(n)
  /\ turns[n].at = "sent" => n \notin DOMAIN scratch' \/ flawed' = flawed \union Claimed(n)

(* What will still come for the buffer.                                    *)
EndComes(n) ==
  /\ stuck' \in BOOLEAN
  /\ stuck => stuck' \/ pend = <<>> \/ delayed' # {}
  /\ TurnComes(n) => \/ stuck' \/ pend = <<>> \/ delayed' # {}
                     \/ \E k \in Running \ {n} : turns[k].at \in Unclaimed

EndKind == <<enabled, now, messages, pend, seq, lock, people, answered>>

TurnEnding(n) ==
  \/ Rename(n) /\ pend = <<>>
  \/ Release(n) \/ ReleaseFails(n) \/ Rearm(n) \/ RestoreFails(n) \/ TurnDies(n)
  \/ ReadScratch(n) /\ n \notin DOMAIN scratch
  \/ RestoreJob(n) /\ turns[n].id \in delayed

LEMMA EndShape ==
  ASSUME Base, NEW n \in Running, TurnEnding(n)
  PROVE  EndJobs(n) /\ EndHands(n) /\ EndComes(n) /\ left' \in [Troubles -> Nat] /\ UNCHANGED EndKind
<1> USE DEF EndKind, world, people, messages, buffer, jobs, fate, In, Spare, Unclaimed, Back, Ended
<1>0. /\ turns[n].id \in Nat /\ turns[n].id <= seq /\ seq \in Nat /\ n \in 0..seq
      /\ delayed \subseteq 0..seq /\ Running \intersect delayed = {} /\ stuck \in BOOLEAN
      /\ left \in [Troubles -> Nat]
      /\ turns[n].at \in Spare => n \notin DOMAIN scratch
  BY TurnOf DEF Base, TypeOK, IdsOK, HoldsOK
<1>u. \A what \in Troubles : Use(what) => left' \in [Troubles -> Nat]
  BY UseType DEF Base
<1>c. n \notin DOMAIN scratch => Claimed(n) = {}
  BY DEF Claimed
<1>d. n \notin DOMAIN Drop(scratch, n)
  BY DEF Drop
<1>s. ASSUME Strand(TRUE), pend' = pend PROVE stuck' \in BOOLEAN /\ (stuck' \/ pend = <<>> \/ delayed # {})
  BY <1>s DEF Strand
<1>1. CASE Rename(n) /\ pend = <<>>
  <2>1. /\ turns[n].at = "rename" /\ turns' = Drop(turns, n) /\ stuck' = FALSE
        /\ pend' = <<>> /\ scratch' = scratch
        /\ UNCHANGED <<left, world, messages, jobs, lock, people, fate>>
    BY <1>1 DEF Rename
  <2>2. stuck' \in BOOLEAN
    BY <2>1
  <2> QED BY <1>0, <1>1, <2>1, <2>2 DEF EndJobs, EndHands, EndComes
<1>2. CASE Release(n)
  <2>1. turns[n].at \in {"sent", "over"} /\ scratch' = Drop(scratch, n) /\ turns' = Drop(turns, n)
        /\ UNCHANGED <<left, world, messages, buffer, lock, people, fate>>
    BY <1>2 DEF Release
  <2>2. EndComes(n)
    BY <1>0, <2>1 DEF EndComes, TurnComes
  <2> QED BY <1>0, <1>d, <2>1, <2>2 DEF EndJobs, EndHands
<1>3. CASE ReleaseFails(n)
  <2>1. /\ turns[n].at \in {"sent", "over"} /\ scratch' \in {scratch, Drop(scratch, n)} /\ turns' = Drop(turns, n)
        /\ failed' = failed \union {n}
        /\ flawed' = IF turns[n].at = "sent" THEN flawed \union Claimed(n) ELSE flawed
        /\ UNCHANGED <<world, messages, pend, seq, delayed, stuck, lock, people, answered, gone>>
    BY <1>3 DEF ReleaseFails, Outlives
  <2>2. left' \in [Troubles -> Nat]
    BY <1>3, <1>u DEF ReleaseFails, Troubles
  <2>3. EndComes(n)
    BY <1>0, <2>1 DEF EndComes, TurnComes
  <2>4. EndJobs(n)
    BY <1>0, <2>1 DEF EndJobs
  <2> QED BY <2>1, <2>2, <2>3, <2>4 DEF EndHands
<1>f. ASSUME Fails(n) PROVE turns' = Drop(turns, n) /\ failed' \in {failed, failed \union {n}}
  BY <1>f DEF Fails
<1>4. CASE Rearm(n)
  <2>1. turns[n].at = "readd" /\ AddJob(turns[n].id) /\ Fails(n)
        /\ UNCHANGED <<left, world, messages, pend, seq, scratch, lock, people, fate>>
    BY <1>4 DEF Rearm
  <2> DEFINE i == turns[n].id
  <2>2. /\ delayed' = IF Exists(i) THEN delayed ELSE delayed \union {i}
        /\ stuck' = (stuck /\ i \in failed \union Running)
    BY <2>1 DEF AddJob
  <2>3. i \in 0..seq
    BY <1>0
  <2>c. TurnComes(n) => Fresh(i)
    BY <2>1 DEF TurnComes
  <2>n. turns[n].at \notin Unclaimed
    BY <2>1
  <2> HIDE DEF i
  <2>4. EndJobs(n)
    BY <1>0, <1>f, <2>1, <2>2, <2>3 DEF EndJobs, Exists
  <2>5. stuck' \in BOOLEAN
    BY <2>2
  <2>6. ~stuck' /\ stuck => delayed' # {}
    BY <2>2 DEF Exists
  <2>7. Fresh(i) => delayed' # {} \/ \E k \in Running \ {n} : turns[k].at \in Unclaimed
    <3>1. CASE i \in Running
      BY <2>n, <3>1 DEF Fresh
    <3>2. CASE i \notin Running
      BY <2>2, <3>2 DEF Fresh, Exists
    <3> QED BY <3>1, <3>2
  <2>8. EndComes(n)
    BY <2>5, <2>6, <2>7, <2>c DEF EndComes
  <2> QED BY <1>0, <1>c, <2>1, <2>4, <2>8 DEF EndHands
<1>5. CASE RestoreFails(n)
  <2>1. /\ turns[n].at \in {"restore", "prepend", "reseq", "rejob", "readd"}
        /\ Fails(n) /\ Left(n) /\ gone' = gone \union Claimed(n) /\ Strand(TRUE)
        /\ UNCHANGED <<world, messages, pend, seq, delayed, lock, people, answered, flawed>>
    BY <1>5 DEF RestoreFails
  <2>2. left' \in [Troubles -> Nat]
    BY <1>5, <1>u DEF RestoreFails, Troubles
  <2>3. EndJobs(n)
    BY <1>0, <1>f, <2>1 DEF EndJobs
  <2>4. EndComes(n)
    BY <1>s, <2>1 DEF EndComes
  <2>5. scratch' \in {scratch, Drop(scratch, n)}
    BY <2>1 DEF Left
  <2> QED BY <2>1, <2>2, <2>3, <2>4, <2>5 DEF EndHands
<1>6. CASE TurnDies(n)
  <2>1. /\ turns' = Drop(turns, n) /\ Left(n) /\ gone' = gone \union Claimed(n)
        /\ flawed' = IF turns[n].at = "sent" THEN flawed \union Claimed(n) ELSE flawed
        /\ \/ delayed' = delayed \union {n} /\ UNCHANGED <<failed, stuck>>
           \/ failed' = failed \union {n} /\ UNCHANGED delayed /\ Strand(TRUE)
        /\ UNCHANGED <<world, messages, pend, seq, lock, people, answered>>
    BY <1>6 DEF TurnDies, Outlives
  <2>2. left' \in [Troubles -> Nat]
    BY <1>6, <1>u DEF TurnDies, Troubles
  <2>3. EndJobs(n)
    BY <1>0, <2>1 DEF EndJobs
  <2>4. EndComes(n)
    <3>1. CASE delayed' = delayed \union {n} /\ UNCHANGED stuck
      BY <1>0, <3>1 DEF EndComes
    <3>2. CASE Strand(TRUE) /\ UNCHANGED delayed
      BY <1>s, <2>1, <3>2 DEF EndComes
    <3> QED BY <2>1, <3>1, <3>2
  <2>5. scratch' \in {scratch, Drop(scratch, n)}
    BY <2>1 DEF Left
  <2> QED BY <2>1, <2>2, <2>3, <2>4, <2>5 DEF EndHands
<1>7. CASE ReadScratch(n) /\ n \notin DOMAIN scratch
  <2>1. Fails(n) /\ Strand(TRUE)
        /\ UNCHANGED <<left, world, messages, pend, seq, delayed, scratch, lock, people, fate>>
    BY <1>7 DEF ReadScratch
  <2>2. turns[n].at = "restore"
    BY <1>7 DEF ReadScratch
  <2>3. EndJobs(n)
    BY <1>0, <1>f, <2>1 DEF EndJobs
  <2>4. EndComes(n)
    BY <1>s, <2>1 DEF EndComes
  <2> QED BY <1>0, <1>7, <1>c, <2>1, <2>2, <2>3, <2>4 DEF EndHands
<1>8. CASE RestoreJob(n) /\ turns[n].id \in delayed
  <2>1. Fails(n)
    BY <1>8 DEF RestoreJob, Exists
  <2>2. turns[n].at = "rejob"
        /\ UNCHANGED <<left, world, messages, pend, seq, delayed, stuck, scratch, lock, people, fate>>
    BY <1>8 DEF RestoreJob, Exists
  <2>3. EndJobs(n)
    BY <1>0, <1>f, <2>1, <2>2 DEF EndJobs
  <2>4. EndComes(n)
    BY <1>0, <1>8, <2>2 DEF EndComes
  <2> QED BY <1>0, <1>c, <2>2, <2>3, <2>4 DEF EndHands
<1> QED BY <1>1, <1>2, <1>3, <1>4, <1>5, <1>6, <1>7, <1>8 DEF TurnEnding

(* A turn that claims the buffer, and one that puts its claim back.        *)
Takes(n) ==
  /\ turns[n].at = "rename" /\ turns'[n].at = "lock" /\ pend # <<>>
  /\ scratch' = Put(scratch, n, pend) /\ pend' = <<>> /\ stuck' = FALSE
  /\ UNCHANGED <<left, enabled, now, messages, jobs, people, fate>>

PutsBack(n) ==
  /\ turns[n].at = "prepend" /\ turns'[n].at = "reseq" /\ n \in DOMAIN scratch
  /\ pend' = Kept(scratch[n] \o pend) /\ scratch' = Drop(scratch, n)
  /\ gone' = gone \union (ToSet(scratch[n] \o pend) \ ToSet(pend'))
  /\ UNCHANGED <<left, enabled, now, messages, jobs, stuck, people, answered, flawed>>

LEMMA TakeShape ==
  ASSUME Base, NEW n \in Running, Rename(n), pend # <<>>
  PROVE  TurnGoes(n) /\ Takes(n)
<1>1. /\ turns[n].at = "rename" /\ Go(n, "lock") /\ scratch' = Put(scratch, n, pend) /\ pend' = <<>>
      /\ stuck' = FALSE /\ UNCHANGED <<left, world, messages, jobs, lock, people, fate>>
  BY DEF Rename, In
<1>2. /\ turns' = [turns EXCEPT ![n] = turns'[n]] /\ turns'[n] \in Turn /\ turns'[n].at = "lock"
      /\ turns'[n].lock = turns[n].lock /\ turns'[n].since = turns[n].since /\ turns'[n].id = turns[n].id
  <2>1. "lock" \in TurnSteps
    BY DEF TurnSteps
  <2> QED BY <1>1, <2>1, GoesOn DEF Base
<1>3. turns[n].since <= now /\ turns[n].id <= seq /\ seq \in Nat
  BY TurnOf DEF Base, IdsOK, TypeOK
<1>4. TurnGoes(n)
  BY <1>1, <1>2, <1>3 DEF TurnGoes, jobs
<1>5. Takes(n)
  BY <1>1, <1>2 DEF Takes, world
<1> QED BY <1>4, <1>5

LEMMA BackShape ==
  ASSUME Base, NEW n \in Running, Prepend(n)
  PROVE  TurnGoes(n) /\ PutsBack(n)
<1>1. /\ turns[n].at = "prepend" /\ Go(n, "reseq") /\ pend' = Kept(scratch[n] \o pend)
      /\ gone' = gone \union (ToSet(scratch[n] \o pend) \ ToSet(pend')) /\ scratch' = Drop(scratch, n)
      /\ UNCHANGED <<left, world, messages, jobs, stuck, lock, people, answered, flawed>>
  BY DEF Prepend, In
<1>2. /\ turns' = [turns EXCEPT ![n] = turns'[n]] /\ turns'[n] \in Turn /\ turns'[n].at = "reseq"
      /\ turns'[n].lock = turns[n].lock /\ turns'[n].since = turns[n].since /\ turns'[n].id = turns[n].id
  <2>1. "reseq" \in TurnSteps
    BY DEF TurnSteps
  <2> QED BY <1>1, <2>1, GoesOn DEF Base
<1>3. turns[n].since <= now /\ turns[n].id <= seq /\ seq \in Nat /\ n \in DOMAIN scratch
  BY <1>1, TurnOf DEF Base, IdsOK, TypeOK, HoldsOK, Holding
<1>4. TurnGoes(n)
  BY <1>1, <1>2, <1>3 DEF TurnGoes, jobs
<1>5. PutsBack(n)
  BY <1>1, <1>2, <1>3 DEF PutsBack, world
<1> QED BY <1>4, <1>5

-----------------------------------------------------------------------------
(* Every step of a turn keeps the shape and the numbers.                   *)

(* One turn goes on.                                                       *)
LEMMA Goers ==
  ASSUME TypeOK, NEW n \in Running, TurnGoes(n)
  PROVE  /\ Running' = Running /\ turns' \in [Running' -> Turn]
         /\ \A k \in Running \ {n} : turns'[k] = turns[k]
         /\ lock' \in Int /\ \A k \in Running : turns'[k].lock = "held" => lock' = k
         /\ \A k \in Running : turns'[k].since <= now
         /\ seq \in Nat /\ seq' \in Nat /\ 0..seq \subseteq 0..seq'
<1>1. turns \in [Running -> Turn] /\ turns' = [turns EXCEPT ![n] = turns'[n]] /\ turns'[n] \in Turn
  BY DEF TurnGoes, TypeOK
<1>2. /\ Running' = Running /\ turns' \in [Running' -> Turn]
      /\ \A k \in Running \ {n} : turns'[k] = turns[k]
  BY <1>1 DEF Running
<1>3. /\ seq \in Nat /\ seq' \in Nat /\ 0..seq \subseteq 0..seq' /\ n \in Int /\ lock \in Int /\ Free \in Int
  BY TurnOf DEF TurnGoes, TypeOK, Free
<1>4. \A k \in Running : turns'[k].since <= now
  BY <1>2, TurnOf DEF TurnGoes
<1>5. \A k \in Running : turns[k].lock = "held" => lock = k
  BY TurnOf
<1>6. \A k \in Running : k # Free
  BY TurnOf DEF Free
<1>7. lock' \in Int /\ \A k \in Running : turns'[k].lock = "held" => lock' = k
  <2> HIDE DEF Free
  <2>1. CASE lock' = lock /\ (turns'[n].lock = "held" => turns[n].lock = "held")
    BY <1>2, <1>3, <1>5, <2>1
  <2>2. CASE lock = Free /\ lock' = n
    BY <1>2, <1>3, <1>5, <1>6, <2>2
  <2>3. CASE lock' = Free /\ turns[n].lock = "held" /\ turns'[n].lock # "held"
    BY <1>2, <1>3, <1>5, <2>3
  <2> QED BY <2>1, <2>2, <2>3 DEF TurnGoes
<1> QED BY <1>2, <1>3, <1>4, <1>7

LEMMA GoersIds ==
  ASSUME TypeOK, IdsOK, NEW n \in Running, TurnGoes(n), UNCHANGED messages
  PROVE  IdsOK'
<1>1. /\ Running' = Running /\ \A k \in Running \ {n} : turns'[k] = turns[k]
      /\ turns'[n].id <= seq' /\ seq <= seq' /\ seq \in Nat /\ seq' \in Nat
  BY Goers DEF TurnGoes
<1>2. /\ \A k \in Running : turns[k].id \in Nat /\ turns[k].id <= seq
      /\ \A m \in Customer : intake[m].id \in Nat /\ intake[m].id <= seq
  BY TurnOf DEF TypeOK, IdsOK
<1>3. \A k \in Running' : turns'[k].id <= seq'
  BY <1>1, <1>2
<1>4. \A m \in Customer : intake'[m].id <= seq'
  <2>1. intake' = intake
    BY DEF messages
  <2>2. ASSUME NEW m \in Customer PROVE intake[m].id <= seq'
    <3>1. intake[m].id \in Nat /\ intake[m].id <= seq
      BY <1>2
    <3> QED BY <1>1, <3>1
  <2> QED BY <2>1, <2>2
<1> QED BY <1>3, <1>4 DEF IdsOK

LEMMA Answers ==
  ASSUME TypeOK, NEW n, Answer(n)
  PROVE  /\ answered' \in [Customer -> Nat]
         /\ \A m \in Customer : answered'[m] = IF m \in Claimed(n) THEN answered[m] + 1 ELSE answered[m]
BY DEF Answer, TypeOK

LEMMA GoingBase ==
  ASSUME Base, NEW n \in Running, TurnGoing(n)
  PROVE  Base'
<1>1. TurnGoes(n) /\ TurnPath(n) /\ TurnHands(n) /\ left' \in [Troubles -> Nat] /\ UNCHANGED Kind
  BY TurnShape
<1>2. TypeOK /\ HoldsOK
  BY DEF Base
<1>3. /\ Running' = Running /\ turns' \in [Running' -> Turn]
      /\ \A k \in Running \ {n} : turns'[k] = turns[k]
      /\ lock' \in Int /\ \A k \in Running : turns'[k].lock = "held" => lock' = k
      /\ \A k \in Running : turns'[k].since <= now
      /\ seq \in Nat /\ seq' \in Nat /\ 0..seq \subseteq 0..seq'
  BY <1>1, <1>2, Goers
<1>4. answered' \in [Customer -> Nat] /\ gone' \subseteq Customer /\ flawed' \subseteq Customer
  <2>1. Claimed(n) \subseteq Customer
    BY <1>2, ClaimOf
  <2>2. gone' \subseteq Customer /\ flawed' \subseteq Customer
    BY <1>1, <1>2, <2>1 DEF TurnHands, TypeOK
  <2>3. answered' \in [Customer -> Nat]
    BY <1>1, <1>2, Answers DEF TurnHands, TypeOK
  <2> QED BY <2>2, <2>3
<1>5. TypeOK'
  <2>1. DOMAIN scratch \subseteq 0..seq' /\ delayed \union failed \union Running \subseteq 0..seq'
    BY <1>2, <1>3 DEF TypeOK
  <2> QED BY <1>1, <1>2, <1>3, <1>4, <2>1 DEF TypeOK, Kind, messages, people
<1>6. IdsOK'
  BY <1>1, GoersIds DEF Base, Kind
<1>7. HoldsOK'
  BY <1>1, <1>2, <1>3 DEF HoldsOK, TurnPath, Kind
<1> QED BY <1>5, <1>6, <1>7 DEF Base

(* A list among the claims, or taken from them.                            *)
LEMMA Puts ==
  ASSUME TypeOK, NEW n \in 0..seq, NEW list \in Seq(Customer), scratch' = Put(scratch, n, list)
  PROVE  /\ DOMAIN scratch' = DOMAIN scratch \union {n} /\ scratch'[n] = list
         /\ \A k \in DOMAIN scratch \ {n} : scratch'[k] = scratch[k]
         /\ DOMAIN scratch' \subseteq 0..seq /\ scratch' \in [DOMAIN scratch' -> Seq(Customer)]
BY DEF TypeOK, Put

LEMMA Drops ==
  ASSUME TypeOK, NEW n, scratch' = Drop(scratch, n)
  PROVE  /\ DOMAIN scratch' = DOMAIN scratch \ {n}
         /\ \A k \in DOMAIN scratch' : scratch'[k] = scratch[k]
         /\ DOMAIN scratch' \subseteq 0..seq /\ scratch' \in [DOMAIN scratch' -> Seq(Customer)]
BY DEF TypeOK, Drop

LEMMA TakeBase ==
  ASSUME Base, NEW n \in Running, Rename(n), pend # <<>>
  PROVE  Base'
<1>1. TurnGoes(n) /\ Takes(n)
  BY TakeShape
<1>2. TypeOK /\ HoldsOK /\ n \in 0..seq /\ pend \in Seq(Customer)
  BY TurnOf DEF Base, TypeOK
<1>3. /\ Running' = Running /\ turns' \in [Running' -> Turn]
      /\ \A k \in Running \ {n} : turns'[k] = turns[k]
      /\ lock' \in Int /\ \A k \in Running : turns'[k].lock = "held" => lock' = k
      /\ \A k \in Running : turns'[k].since <= now
  BY <1>1, <1>2, Goers
<1>4. /\ DOMAIN scratch' = DOMAIN scratch \union {n}
      /\ DOMAIN scratch' \subseteq 0..seq /\ scratch' \in [DOMAIN scratch' -> Seq(Customer)]
  BY <1>1, <1>2, Puts DEF Takes
<1>5. pend' \in Seq(Customer) /\ stuck' \in BOOLEAN
  <2>1. pend' = <<>> /\ stuck' = FALSE
    BY <1>1 DEF Takes
  <2>2. <<>> \in Seq(Customer)
    OBVIOUS
  <2>3. stuck' \in BOOLEAN
    BY <2>1
  <2> QED BY <2>1, <2>2, <2>3
<1>6. TypeOK'
  BY <1>1, <1>2, <1>3, <1>4, <1>5 DEF TypeOK, Takes, messages, people, jobs, fate
<1>7. IdsOK'
  BY <1>1, GoersIds DEF Base, Takes
<1>8. HoldsOK'
  BY <1>1, <1>2, <1>3, <1>4 DEF HoldsOK, Takes, Spare
<1> QED BY <1>6, <1>7, <1>8 DEF Base

(* What is kept of a list is the end of it.                                *)
LEMMA KeptIs ==
  ASSUME NEW list \in Seq(Customer)
  PROVE  /\ Kept(list) \in Seq(Customer)
         /\ \E d \in Nat : /\ Len(Kept(list)) + d = Len(list)
                           /\ \A i \in DOMAIN Kept(list) : i + d \in DOMAIN list /\ Kept(list)[i] = list[i + d]
<1> DEFINE f == IF Len(list) > MaxPending THEN Len(list) - MaxPending + 1 ELSE 1
<1>1. Len(list) \in Nat /\ MaxPending \in Nat /\ MaxPending > 0
  OBVIOUS
<1>2. f \in Nat /\ 1 <= f /\ f <= Len(list) + 1
  BY <1>1
<1>3. Kept(list) = SubSeq(list, f, Len(list))
  BY DEF Kept
<1> HIDE DEF f
<1>4. /\ Kept(list) \in Seq(Customer) /\ Len(Kept(list)) = Len(list) - f + 1
      /\ \A i \in 1 .. (Len(list) - f + 1) : Kept(list)[i] = list[f + i - 1]
  BY <1>1, <1>2, <1>3, SubSeqProperties
<1>5. f - 1 \in Nat /\ Len(Kept(list)) + (f - 1) = Len(list) /\ DOMAIN Kept(list) = 1 .. (Len(list) - f + 1)
  BY <1>1, <1>2, <1>4
<1>6. \A i \in DOMAIN Kept(list) : i + (f - 1) \in DOMAIN list /\ Kept(list)[i] = list[i + (f - 1)]
  <2> TAKE i \in DOMAIN Kept(list)
  <2>1. i \in 1 .. (Len(list) - f + 1) /\ i \in Nat
    BY <1>1, <1>2, <1>5
  <2>2. Kept(list)[i] = list[f + i - 1] /\ f + i - 1 = i + (f - 1)
    BY <1>2, <1>4, <2>1
  <2>3. i + (f - 1) \in 1 .. Len(list)
    BY <1>1, <1>2, <2>1
  <2> QED BY <2>2, <2>3
<1> QED BY <1>4, <1>5, <1>6

LEMMA BackBase ==
  ASSUME Base, NEW n \in Running, Prepend(n)
  PROVE  Base'
<1>1. TurnGoes(n) /\ PutsBack(n)
  BY BackShape
<1>2. TypeOK /\ HoldsOK /\ pend \in Seq(Customer)
  BY DEF Base, TypeOK
<1>3. /\ Running' = Running /\ turns' \in [Running' -> Turn]
      /\ \A k \in Running \ {n} : turns'[k] = turns[k]
      /\ lock' \in Int /\ \A k \in Running : turns'[k].lock = "held" => lock' = k
      /\ \A k \in Running : turns'[k].since <= now
  BY <1>1, <1>2, Goers
<1>4. /\ DOMAIN scratch' = DOMAIN scratch \ {n}
      /\ DOMAIN scratch' \subseteq 0..seq /\ scratch' \in [DOMAIN scratch' -> Seq(Customer)]
  BY <1>1, <1>2, Drops DEF PutsBack
<1>5. scratch[n] \o pend \in Seq(Customer)
  <2>1. scratch[n] \in Seq(Customer)
    BY <1>1, <1>2, ClaimOf DEF PutsBack
  <2> QED BY <1>2, <2>1
<1>6. pend' \in Seq(Customer) /\ gone' \subseteq Customer
  <2>1. ToSet(scratch[n] \o pend) \subseteq Customer
    BY <1>5 DEF ToSet
  <2>2. pend' \in Seq(Customer)
    BY <1>1, <1>5, KeptIs DEF PutsBack
  <2> QED BY <1>1, <1>2, <2>1, <2>2 DEF PutsBack, TypeOK
<1>7. TypeOK'
  BY <1>1, <1>2, <1>3, <1>4, <1>6 DEF TypeOK, PutsBack, messages, people, jobs
<1>8. IdsOK'
  BY <1>1, GoersIds DEF Base, PutsBack
<1>9. HoldsOK'
  BY <1>1, <1>2, <1>3, <1>4 DEF HoldsOK, PutsBack, Holding
<1> QED BY <1>7, <1>8, <1>9 DEF Base

(* One turn ends.                                                          *)
LEMMA Enders ==
  ASSUME TypeOK, NEW n, turns' = Drop(turns, n)
  PROVE  /\ Running' = Running \ {n} /\ turns' \in [Running' -> Turn]
         /\ \A k \in Running' : turns'[k] = turns[k]
BY DEF TypeOK, Drop, Running

LEMMA EndBase ==
  ASSUME Base, NEW n \in Running, TurnEnding(n)
  PROVE  Base'
<1>1. EndJobs(n) /\ EndHands(n) /\ EndComes(n) /\ left' \in [Troubles -> Nat] /\ UNCHANGED EndKind
  BY EndShape
<1>2. TypeOK /\ HoldsOK /\ IdsOK /\ n \in 0..seq
  BY TurnOf DEF Base, TypeOK
<1>3. /\ Running' = Running \ {n} /\ turns' \in [Running' -> Turn]
      /\ \A k \in Running' : turns'[k] = turns[k]
  BY <1>1, <1>2, Enders DEF EndJobs
<1>4. delayed' \union failed' \union Running' \subseteq 0..seq /\ Running' \intersect delayed' = {}
  BY <1>1, <1>2, <1>3 DEF EndJobs, TypeOK
<1>5. /\ DOMAIN scratch' \subseteq DOMAIN scratch /\ \A k \in Running' : k \in DOMAIN scratch => k \in DOMAIN scratch'
      /\ DOMAIN scratch' \subseteq 0..seq /\ scratch' \in [DOMAIN scratch' -> Seq(Customer)]
  <2>1. CASE scratch' = scratch
    BY <1>2, <2>1 DEF TypeOK
  <2>2. CASE scratch' = Drop(scratch, n)
    BY <1>2, <1>3, <2>2, Drops
  <2> QED BY <1>1, <2>1, <2>2 DEF EndHands
<1>6. gone' \subseteq Customer /\ flawed' \subseteq Customer
  <2>1. Claimed(n) \subseteq Customer
    BY <1>2, ClaimOf
  <2> QED BY <1>1, <1>2, <2>1 DEF EndHands, TypeOK
<1>7. TypeOK'
  BY <1>1, <1>2, <1>3, <1>4, <1>5, <1>6 DEF TypeOK, EndKind, EndComes, messages, people
<1>8. IdsOK'
  BY <1>1, <1>2, <1>3 DEF IdsOK, EndKind, messages
<1>9. HoldsOK'
  BY <1>2, <1>3, <1>5 DEF HoldsOK
<1> QED BY <1>7, <1>8, <1>9 DEF Base

LEMMA Begins ==
  ASSUME TypeOK, NEW n \in delayed, Fire(n)
  PROVE  /\ Running' = Running \union {n} /\ n \notin Running /\ turns'[n] = NewTurn
         /\ \A k \in Running : turns'[k] = turns[k]
         /\ turns' \in [Running' -> Turn] /\ NewTurn \in Turn
<1>1. turns' = [k \in Running \union {n} |-> IF k = n THEN NewTurn ELSE turns[k]] /\ n \notin Running
  BY DEF Fire, TypeOK, Put, Running
<1>2. NewTurn \in Turn
  BY DEF NewTurn, Turn, TurnSteps
<1>3. /\ Running' = Running \union {n} /\ turns'[n] = NewTurn /\ \A k \in Running : turns'[k] = turns[k]
  BY <1>1 DEF Running
<1>4. turns' \in [Running' -> Turn]
  BY <1>1, <1>2, <1>3 DEF TypeOK
<1> QED BY <1>1, <1>2, <1>3, <1>4

LEMMA FireBase ==
  ASSUME Base, NEW n \in delayed, Fire(n)
  PROVE  Base'
<1>1. TypeOK /\ IdsOK /\ HoldsOK /\ n \in 0..seq /\ seq \in Nat /\ now \in Nat
  BY DEF Base, TypeOK
<1>2. /\ Running' = Running \union {n} /\ n \notin Running /\ turns'[n] = NewTurn
      /\ \A k \in Running : turns'[k] = turns[k]
      /\ turns' \in [Running' -> Turn]
  BY <1>1, Begins
<1>3. /\ delayed' = delayed \ {n}
      /\ UNCHANGED <<left, world, messages, pend, seq, failed, stuck, scratch, lock, people, fate>>
  BY DEF Fire
<1>4. NewTurn.at = "claim" /\ NewTurn.lock = "none" /\ NewTurn.since = 0 /\ NewTurn.id = 0
  BY DEF NewTurn
<1>5. TypeOK'
  <2>1. \A k \in Running' : turns'[k].since <= now /\ (turns'[k].lock = "held" => lock = k)
    BY <1>1, <1>2, <1>4, TurnOf
  <2>2. delayed' \union failed \union Running' \subseteq 0..seq /\ Running' \intersect delayed' = {}
    BY <1>1, <1>2, <1>3 DEF TypeOK
  <2> QED BY <1>1, <1>2, <1>3, <2>1, <2>2 DEF TypeOK, world, messages, people, fate
<1>6. IdsOK'
  BY <1>1, <1>2, <1>3, <1>4 DEF IdsOK, messages
<1>7. HoldsOK'
  BY <1>1, <1>2, <1>3, <1>4 DEF HoldsOK, Holding, Spare
<1> QED BY <1>5, <1>6, <1>7 DEF Base

-----------------------------------------------------------------------------
(* What every step of a reply's call does.                                 *)

CallMove(r) == Reply(r) \/ CallStep(r) \/ CallFails(r)

Record == [at : CallSteps, stamp : Nat, id : Nat]

(* The call, and the jobs.                                                 *)
CallGoes(r) ==
  /\ calls' = [calls EXCEPT ![r] = calls'[r]] /\ calls'[r] \in Record
  /\ delayed' \subseteq delayed /\ failed' \subseteq failed /\ stuck' \in BOOLEAN
  /\ \/ pend' = pend /\ gone' = gone
     \/ pend' = <<>> /\ gone' = gone \union ToSet(pend)

(* What will still come for the buffer.                                    *)
CallComes(r) ==
  \/ pend' = <<>> \/ stuck'
  \/ calls'[r].at = "drop" /\ stuck' = stuck /\ pend' = pend
  \/ /\ delayed' = delayed /\ failed' = failed /\ stuck' = stuck /\ pend' = pend
     /\ calls[r].at = "drop" => delayed # {}

(* What is known of the reply.                                             *)
CallSpeaks(r) ==
  /\ calls[r].at # "none" => calls'[r].at # "none" /\ calls'[r].stamp = calls[r].stamp
  /\ \/ UNCHANGED <<lastReply, spoken, overtaken, turns>>
     \/ /\ calls[r].at # "none" /\ spoken' = spoken \union {r} /\ Unseen(r)
        /\ \/ lastReply >= calls[r].stamp /\ UNCHANGED <<lastReply, overtaken>>
           \/ /\ lastReply' = calls[r].stamp
              /\ overtaken' = overtaken \union {q \in spoken : calls[q].stamp > calls[r].stamp}

CallKind == <<enabled, now, messages, seq, scratch, lock, answered, flawed>>

LEMMA CallShape ==
  ASSUME Base, NEW r \in Replies, CallMove(r)
  PROVE  CallGoes(r) /\ CallComes(r) /\ CallSpeaks(r) /\ left' \in [Troubles -> Nat] /\ UNCHANGED CallKind
<1> USE DEF CallKind, world, people, messages, buffer, jobs, fate
<1>0. /\ calls \in [Replies -> Record] /\ calls[r] \in Record /\ seq \in Nat /\ stuck \in BOOLEAN /\ now \in Nat
      /\ left \in [Troubles -> Nat]
  BY DEF Base, TypeOK, Record
<1>u. \A what \in Troubles : Use(what) => left' \in [Troubles -> Nat]
  BY UseType DEF Base
<1>c. ASSUME NEW s \in CallSteps, Call(r, s)
      PROVE  /\ calls' = [calls EXCEPT ![r] = calls'[r]] /\ calls'[r] \in Record
             /\ calls'[r].at = s /\ calls'[r].stamp = calls[r].stamp
  <2>1. calls' = [calls EXCEPT ![r] = [calls[r] EXCEPT !.at = s]]
    BY <1>c DEF Call
  <2>2. calls'[r] = [calls[r] EXCEPT !.at = s]
    BY <1>0, <2>1
  <2>3. /\ [calls[r] EXCEPT !.at = s] \in Record /\ [calls[r] EXCEPT !.at = s].at = s
        /\ [calls[r] EXCEPT !.at = s].stamp = calls[r].stamp
    BY <1>0 DEF Record
  <2> QED BY <2>1, <2>2, <2>3
<1>s. {"none", "read", "stamp", "seq", "remove", "drop", "done"} \subseteq CallSteps
  BY DEF CallSteps
<1>1. CASE Reply(r)
  <2>1. PICK stamp \in 0..now : calls' = [calls EXCEPT ![r] = [at |-> "read", stamp |-> stamp, id |-> 0]]
    BY <1>1 DEF Reply
  <2>2. /\ calls'[r] = [at |-> "read", stamp |-> stamp, id |-> 0] /\ calls'[r] \in Record
    BY <1>0, <1>s, <2>1 DEF Record
  <2>3. left' \in [Troubles -> Nat]
    BY <1>1, <1>u DEF Reply, Troubles
  <2>4. /\ calls[r].at = "none"
        /\ UNCHANGED <<world, messages, buffer, turns, scratch, lock, lastReply, spoken, overtaken, fate>>
    BY <1>1 DEF Reply
  <2> QED BY <1>0, <2>1, <2>2, <2>3, <2>4 DEF CallGoes, CallComes, CallSpeaks
<1>2. CASE ReadStamp(r)
  <2>1. calls[r].at = "read"
        /\ UNCHANGED <<left, world, messages, buffer, scratch, lock, lastReply, overtaken, fate>>
    BY <1>2 DEF ReadStamp
  <2>2. CASE lastReply >= calls[r].stamp /\ Call(r, "done") /\ spoken' = spoken \union {r} /\ Unseen(r)
    BY <1>0, <1>c, <1>s, <2>1, <2>2 DEF CallGoes, CallComes, CallSpeaks
  <2>3. CASE Call(r, "stamp") /\ UNCHANGED <<spoken, turns>>
    BY <1>0, <1>c, <1>s, <2>1, <2>3 DEF CallGoes, CallComes, CallSpeaks
  <2> QED BY <1>2, <2>2, <2>3 DEF ReadStamp
<1>3. CASE WriteStamp(r)
  <2>1. /\ calls[r].at = "stamp" /\ lastReply' = calls[r].stamp /\ Call(r, "seq")
        /\ spoken' = spoken \union {r} /\ Unseen(r)
        /\ overtaken' = overtaken \union {q \in spoken : calls[q].stamp > calls[r].stamp}
        /\ UNCHANGED <<left, world, messages, buffer, scratch, lock, fate>>
    BY <1>3 DEF WriteStamp
  <2> QED BY <1>0, <1>c, <1>s, <2>1 DEF CallGoes, CallComes, CallSpeaks
<1>4. CASE CancelSeq(r)
  <2> DEFINE c == [calls[r] EXCEPT !.at = "remove", !.id = seq]
  <2>1. /\ calls[r].at = "seq" /\ calls' = [calls EXCEPT ![r] = c]
        /\ UNCHANGED <<left, world, messages, buffer, turns, scratch, lock, lastReply, spoken, overtaken, fate>>
    BY <1>4 DEF CancelSeq
  <2>2. c \in Record /\ c.at = "remove" /\ c.stamp = calls[r].stamp
    BY <1>0, <1>s DEF Record
  <2> HIDE DEF c
  <2>3. calls'[r] = c
    BY <1>0, <2>1
  <2> QED BY <1>0, <2>1, <2>2, <2>3 DEF CallGoes, CallComes, CallSpeaks
<1>5. CASE CancelJob(r)
  <2>1. /\ calls[r].at = "remove" /\ Call(r, "drop") /\ delayed' \subseteq delayed /\ failed' \subseteq failed
        /\ UNCHANGED <<world, messages, pend, seq, stuck, turns, scratch, lock, lastReply, spoken, overtaken, fate>>
    BY <1>5 DEF CancelJob
  <2>2. left' \in [Troubles -> Nat]
    BY <1>0, <1>5, <1>u DEF CancelJob, Troubles
  <2> QED BY <1>0, <1>c, <1>s, <2>1, <2>2 DEF CallGoes, CallComes, CallSpeaks
<1>6. CASE CancelBuffer(r)
  <2>1. /\ calls[r].at = "drop" /\ Call(r, "done") /\ gone' = gone \union ToSet(pend) /\ pend' = <<>>
        /\ stuck' = FALSE
        /\ UNCHANGED <<left, world, messages, jobs, turns, scratch, lock, lastReply, spoken, overtaken, answered, flawed>>
    BY <1>6 DEF CancelBuffer
  <2>2. stuck' \in BOOLEAN
    BY <2>1
  <2>3. /\ calls' = [calls EXCEPT ![r] = calls'[r]] /\ calls'[r] \in Record /\ calls'[r].at = "done"
        /\ calls'[r].stamp = calls[r].stamp
    BY <1>c, <1>s, <2>1
  <2>4. CallGoes(r)
    BY <2>1, <2>2, <2>3 DEF CallGoes
  <2> QED BY <1>0, <2>1, <2>3, <2>4 DEF CallComes, CallSpeaks
<1>7. CASE CallFails(r)
  <2>1. /\ calls[r].at # "none" /\ \E s \in {"read", "done"} : Call(r, s)
        /\ UNCHANGED <<world, messages, pend, jobs, turns, scratch, lock, lastReply, spoken, overtaken, fate>>
    BY <1>7 DEF CallFails, Calling
  <2>2. left' \in [Troubles -> Nat]
    BY <1>7, <1>u DEF CallFails, Troubles
  <2>3. stuck' \in BOOLEAN
    BY <1>7 DEF CallFails, Strand
  <2>4. ~stuck' => stuck' = stuck /\ (pend = <<>> \/ delayed # {} \/ calls[r].at # "drop")
    BY <1>0, <1>7, <2>3 DEF CallFails, Strand
  <2>5. /\ calls' = [calls EXCEPT ![r] = calls'[r]] /\ calls'[r] \in Record /\ calls'[r].at # "none"
        /\ calls'[r].stamp = calls[r].stamp
    BY <1>c, <1>s, <2>1
  <2>6. CallComes(r)
    BY <2>1, <2>4 DEF CallComes
  <2> QED BY <2>1, <2>2, <2>3, <2>5, <2>6 DEF CallGoes, CallSpeaks
<1> QED BY <1>1, <1>2, <1>3, <1>4, <1>5, <1>6, <1>7 DEF CallMove, CallStep

(* A reply that turns have not seen changes nothing else of them.          *)
Alike ==
  /\ Running' = Running /\ turns' \in [Running' -> Turn]
  /\ \A n \in Running : /\ turns'[n].at = turns[n].at /\ turns'[n].lock = turns[n].lock
                        /\ turns'[n].since = turns[n].since /\ turns'[n].id = turns[n].id
                        /\ turns[n].unseen \subseteq turns'[n].unseen

LEMMA UnseenAlike ==
  ASSUME TypeOK, NEW r \in Replies, turns' = turns \/ Unseen(r)
  PROVE  Alike /\ (Unseen(r) => \A n \in Running : turns[n].at = "send" => r \in turns'[n].unseen)
<1>0. turns \in [Running -> Turn]
  BY DEF TypeOK
<1>1. CASE Unseen(r)
  <2>1. turns' = [n \in Running |-> IF turns[n].at = "send"
                                    THEN [turns[n] EXCEPT !.unseen = turns[n].unseen \union {r}] ELSE turns[n]]
    BY <1>1 DEF Unseen, In
  <2>2. Running' = Running
    BY <2>1 DEF Running
  <2>3. ASSUME NEW n \in Running
        PROVE  /\ turns'[n] \in Turn /\ turns'[n].at = turns[n].at /\ turns'[n].lock = turns[n].lock
               /\ turns'[n].since = turns[n].since /\ turns'[n].id = turns[n].id
               /\ turns[n].unseen \subseteq turns'[n].unseen
               /\ turns[n].at = "send" => r \in turns'[n].unseen
    <3>1. turns[n] \in Turn
      BY <1>0
    <3>2. CASE turns[n].at = "send"
      <4>1. turns'[n] = [turns[n] EXCEPT !.unseen = turns[n].unseen \union {r}]
        BY <2>1, <3>2
      <4>2. turns[n].unseen \union {r} \subseteq Replies
        BY <3>1 DEF Turn
      <4> QED BY <3>1, <4>1, <4>2 DEF Turn
    <3>3. CASE turns[n].at # "send"
      BY <2>1, <3>1, <3>3
    <3> QED BY <3>2, <3>3
  <2>4. turns' \in [Running' -> Turn]
    <3>1. turns' = [n \in Running |-> turns'[n]]
      BY <2>1
    <3> QED BY <2>2, <2>3, <3>1
  <2> QED BY <2>2, <2>3, <2>4 DEF Alike
<1>2. CASE turns' = turns /\ ~Unseen(r)
  BY <1>0, <1>2 DEF Alike, Running
<1> QED BY <1>1, <1>2

LEMMA CallBase ==
  ASSUME Base, NEW r \in Replies, CallMove(r)
  PROVE  Base'
<1>1. CallGoes(r) /\ CallSpeaks(r) /\ left' \in [Troubles -> Nat] /\ UNCHANGED CallKind
  BY CallShape
<1>2. TypeOK /\ IdsOK /\ HoldsOK
  BY DEF Base
<1>3. Alike
  BY <1>1, <1>2, UnseenAlike DEF CallSpeaks
<1>4. pend' \in Seq(Customer) /\ gone' \subseteq Customer
  <2>1. pend \in Seq(Customer) /\ <<>> \in Seq(Customer) /\ gone \subseteq Customer
    BY <1>2 DEF TypeOK
  <2>2. ToSet(pend) \subseteq Customer
    BY <2>1 DEF ToSet
  <2> QED BY <1>1, <2>1, <2>2 DEF CallGoes
<1>5. calls' \in [Replies -> Record]
  BY <1>1, <1>2 DEF CallGoes, TypeOK, Record
<1>6. lastReply' \in Int /\ spoken' \subseteq Replies /\ overtaken' \subseteq spoken'
  <2>1. calls[r].stamp \in Int /\ lastReply \in Int /\ spoken \subseteq Replies /\ overtaken \subseteq spoken
    BY <1>2 DEF TypeOK
  <2> QED BY <1>1, <2>1 DEF CallSpeaks
<1>7. \A n \in Running' : turns'[n].since <= now /\ (turns'[n].lock = "held" => lock = n)
  BY <1>2, <1>3, TurnOf DEF Alike
<1>8. delayed' \union failed' \union Running' \subseteq 0..seq /\ Running' \intersect delayed' = {}
  BY <1>1, <1>2, <1>3 DEF TypeOK, CallGoes, Alike
<1>9. TypeOK'
  BY <1>1, <1>2, <1>3, <1>4, <1>5, <1>6, <1>7, <1>8 DEF TypeOK, CallGoes, CallKind, Alike, Record, messages
<1>10. IdsOK'
  BY <1>1, <1>2, <1>3 DEF IdsOK, CallKind, Alike, messages
<1>11. HoldsOK'
  BY <1>1, <1>2, <1>3 DEF HoldsOK, CallKind, Alike
<1> QED BY <1>9, <1>10, <1>11 DEF Base

-----------------------------------------------------------------------------
(* The clock, the switch and the lock that expires.                        *)

Else == <<messages, pend, seq, delayed, failed, stuck, turns, scratch, people, answered, flawed, gone>>
Around == Expire \/ Tick \/ SwitchOff

LEMMA AroundShape ==
  ASSUME Base, Around
  PROVE  /\ left' \in [Troubles -> Nat] /\ enabled' \in BOOLEAN /\ now' \in Nat /\ now <= now'
         /\ lock' = lock \/ (lock' = Free /\ ~(lock \in Running /\ turns[lock].lock = "held"))
         /\ UNCHANGED Else
<1> USE DEF Else, world, people, messages, buffer, jobs, fate
<1>0. left \in [Troubles -> Nat] /\ enabled \in BOOLEAN /\ now \in Nat
  BY DEF Base, TypeOK
<1>u. \A what \in Troubles : Use(what) => left' \in [Troubles -> Nat]
  BY UseType DEF Base
<1>1. CASE Expire
  BY <1>0, <1>1 DEF Expire
<1>2. CASE Tick
  <2>1. left' \in [Troubles -> Nat]
    BY <1>2, <1>u DEF Tick, Troubles
  <2> QED BY <1>0, <1>2, <2>1 DEF Tick
<1>3. CASE SwitchOff
  <2>1. left' \in [Troubles -> Nat]
    BY <1>3, <1>u DEF SwitchOff, Troubles
  <2>2. enabled' \in BOOLEAN
    BY <1>3 DEF SwitchOff
  <2> QED BY <1>0, <1>3, <2>1, <2>2 DEF SwitchOff
<1> QED BY <1>1, <1>2, <1>3 DEF Around

LEMMA AroundBase ==
  ASSUME Base, Around
  PROVE  Base'
<1>1. /\ left' \in [Troubles -> Nat] /\ enabled' \in BOOLEAN /\ now' \in Nat /\ now <= now'
      /\ lock' = lock \/ (lock' = Free /\ ~(lock \in Running /\ turns[lock].lock = "held"))
      /\ UNCHANGED Else
  BY AroundShape
<1>2. TypeOK /\ IdsOK /\ HoldsOK /\ now \in Nat
  BY DEF Base, TypeOK
<1>3. \A n \in Running : turns[n].since <= now' /\ (turns[n].lock = "held" => lock' = n)
  BY <1>1, <1>2, TurnOf
<1>4. lock' \in Int
  BY <1>1, <1>2 DEF TypeOK, Free
<1>5. TypeOK'
  BY <1>1, <1>2, <1>3, <1>4 DEF TypeOK, Else, messages, people, Running
<1>6. IdsOK' /\ HoldsOK'
  BY <1>1, <1>2 DEF IdsOK, HoldsOK, Else, messages, Running
<1> QED BY <1>5, <1>6 DEF Base

-----------------------------------------------------------------------------
(* The steps there are.                                                    *)

TurnMove(n) == TurnGoing(n) \/ (Rename(n) /\ pend # <<>>) \/ Prepend(n) \/ TurnEnding(n)

Moved ==
  \/ \E m \in Customer : IntakeMove(m)
  \/ \E n \in delayed : Fire(n)
  \/ \E n \in Running : TurnMove(n)
  \/ \E r \in Replies : CallMove(r)
  \/ Around

LEMMA NextMoves ==
  ASSUME Next
  PROVE  Moved
<1>1. ASSUME NEW n \in Running,
             \/ TurnStep(n) \/ Lapse(n) \/ Renew(n) \/ NoReply(n) \/ ReleaseFails(n)
             \/ TurnThrows(n) \/ RestoreFails(n) \/ TurnDies(n)
      PROVE  TurnMove(n)
  BY <1>1 DEF TurnMove, TurnStep, TurnGoing, TurnEnding
<1> QED BY <1>1 DEF Moved, Next, IntakeMove, CallMove, Around

LEMMA BaseStep ==
  ASSUME Base, MarkOK, Next
  PROVE  Base' /\ MarkOK'
<1>1. Moved
  BY NextMoves
<1>2. ASSUME UNCHANGED messages PROVE MarkOK'
  BY <1>2 DEF MarkOK, messages
<1>3. ASSUME NEW m \in Customer, IntakeMove(m) PROVE Base' /\ MarkOK'
  BY <1>3, IntakeBase
<1>4. ASSUME NEW n \in delayed, Fire(n) PROVE Base' /\ MarkOK'
  BY <1>2, <1>4, FireBase DEF Fire
<1>5. ASSUME NEW n \in Running, TurnMove(n) PROVE Base' /\ MarkOK'
  <2>1. CASE TurnGoing(n)
    BY <1>2, <2>1, GoingBase, TurnShape DEF Kind
  <2>2. CASE Rename(n) /\ pend # <<>>
    BY <1>2, <2>2, TakeBase, TakeShape DEF Takes
  <2>3. CASE Prepend(n)
    BY <1>2, <2>3, BackBase, BackShape DEF PutsBack
  <2>4. CASE TurnEnding(n)
    BY <1>2, <2>4, EndBase, EndShape DEF EndKind
  <2> QED BY <1>5, <2>1, <2>2, <2>3, <2>4 DEF TurnMove
<1>6. ASSUME NEW r \in Replies, CallMove(r) PROVE Base' /\ MarkOK'
  BY <1>2, <1>6, CallBase, CallShape DEF CallKind
<1>7. ASSUME Around PROVE Base' /\ MarkOK'
  BY <1>2, <1>7, AroundBase, AroundShape DEF Else
<1> QED BY <1>1, <1>3, <1>4, <1>5, <1>6, <1>7 DEF Moved

-----------------------------------------------------------------------------
(* A turn that sends has looked, and the replies it did not see came after *)
(* its look, or with an older stamp.                                       *)

(* A reply that turn n may have overlooked.                                *)
Old(n, r) == calls[r].stamp <= turns[n].since /\ now - calls[r].stamp >= Silence
Sends(n) == turns[n].at = "send"
Missed(n) == spoken \ (overtaken \union turns[n].unseen)

LEMMA WinsIs ==
  HumanWins <=> \A n \in Running : Sends(n) => \A r \in Missed(n) : Old(n, r)
BY DEF HumanWins, In, Sends, Missed, Old

LEMMA SendStep ==
  ASSUME Base, MarkOK, StampOK, HumanWins, Next
  PROVE  StampOK' /\ HumanWins'
<1>0. TypeOK /\ Moved /\ now \in Nat /\ lastReply \in Int /\ Silence \in Nat /\ spoken \subseteq Replies
      /\ (\A r \in Replies : calls[r].stamp \in Nat) /\ (\A n \in Running : turns[n].since \in Nat)
  BY NextMoves, TurnOf DEF Base, TypeOK
<1>w. \A n \in Running : Sends(n) => \A r \in Missed(n) : Old(n, r)
  BY WinsIs
<1>p. HumanWins' <=> \A n \in Running' : Sends(n)' => \A r \in Missed(n)' : Old(n, r)'
  BY DEF HumanWins, In, Sends, Missed, Old
<1>a. ASSUME UNCHANGED people PROVE StampOK'
  BY <1>a DEF StampOK, people
<1>b. ASSUME UNCHANGED people, UNCHANGED now,
             \A n \in Running' : Sends(n)' =>
               /\ n \in Running /\ turns'[n].since = turns[n].since
               /\ (~TookOver(n) \/ Sends(n)) /\ turns'[n].unseen = turns[n].unseen
      PROVE  StampOK' /\ HumanWins'
  <2>1. ASSUME NEW n \in Running', Sends(n)', NEW r \in Missed(n)'
        PROVE  Old(n, r)'
    <3>1. n \in Running /\ turns'[n].since = turns[n].since /\ r \in spoken \ overtaken /\ r \in Replies
          /\ calls'[r].stamp = calls[r].stamp /\ now' = now
      BY <1>0, <1>b, <2>1 DEF Missed, people
    <3>2. CASE ~TookOver(n)
      <4>1. calls[r].stamp <= lastReply
        BY <3>1 DEF StampOK
      <4>2. now - lastReply >= Silence /\ lastReply <= turns[n].since
        BY <1>0, <3>1, <3>2 DEF TookOver, Silent
      <4>3. Old(n, r)
        BY <1>0, <3>1, <4>1, <4>2 DEF Old
      <4> QED BY <3>1, <4>3 DEF Old
    <3>3. CASE Sends(n) /\ turns'[n].unseen = turns[n].unseen
      <4>1. r \in Missed(n)
        BY <2>1, <3>1, <3>3 DEF Missed, people
      <4>2. Old(n, r)
        BY <1>w, <3>1, <3>3, <4>1
      <4> QED BY <3>1, <4>2 DEF Old
    <3> QED BY <1>b, <2>1, <3>2, <3>3
  <2> QED BY <1>a, <1>b, <1>p, <2>1
<1>1. ASSUME NEW m \in Customer, IntakeMove(m) PROVE StampOK' /\ HumanWins'
  <2>1. UNCHANGED Rest
    BY <1>1, IntakeShape
  <2>2. UNCHANGED people /\ UNCHANGED now /\ turns' = turns
    BY <2>1 DEF Rest
  <2> QED BY <1>b, <2>2 DEF Sends, Running
<1>2. ASSUME NEW n \in delayed, Fire(n) PROVE StampOK' /\ HumanWins'
  <2>1. UNCHANGED people /\ UNCHANGED now
    BY <1>2 DEF Fire, world
  <2>2. /\ Running' = Running \union {n} /\ turns'[n] = NewTurn /\ \A k \in Running : turns'[k] = turns[k]
    BY <1>0, <1>2, Begins
  <2>3. turns'[n].at = "claim"
    BY <2>2 DEF NewTurn
  <2> QED BY <1>b, <2>1, <2>2, <2>3 DEF Sends
<1>3. ASSUME NEW n \in Running, TurnMove(n) PROVE StampOK' /\ HumanWins'
  <2>1. CASE TurnGoing(n)
    <3>1. TurnGoes(n) /\ TurnPath(n) /\ UNCHANGED people /\ UNCHANGED now
      BY <2>1, TurnShape DEF Kind
    <3>2. Running' = Running /\ \A k \in Running \ {n} : turns'[k] = turns[k]
      BY <1>0, <3>1, Goers
    <3>3. Sends(n)' => /\ turns'[n].since = turns[n].since
                       /\ (~TookOver(n) \/ Sends(n)) /\ turns'[n].unseen = turns[n].unseen
      BY <3>1 DEF TurnPath, Sends
    <3>4. \A k \in Running \ {n} : Sends(k)' => Sends(k)
      BY <3>2 DEF Sends
    <3> QED BY <1>b, <3>1, <3>2, <3>3, <3>4
  <2>2. CASE (Rename(n) /\ pend # <<>>) \/ Prepend(n)
    <3>1. TurnGoes(n) /\ turns'[n].at # "send" /\ UNCHANGED people /\ UNCHANGED now
      BY <2>2, TakeShape, BackShape DEF Takes, PutsBack
    <3>2. Running' = Running /\ \A k \in Running \ {n} : turns'[k] = turns[k]
      BY <1>0, <3>1, Goers
    <3> QED BY <1>b, <3>1, <3>2 DEF Sends
  <2>3. CASE TurnEnding(n)
    <3>1. turns' = Drop(turns, n) /\ UNCHANGED people /\ UNCHANGED now
      BY <2>3, EndShape DEF EndJobs, EndKind
    <3>2. Running' = Running \ {n} /\ \A k \in Running' : turns'[k] = turns[k]
      BY <1>0, <3>1, Enders
    <3> QED BY <1>b, <3>1, <3>2 DEF Sends
  <2> QED BY <1>3, <2>1, <2>2, <2>3 DEF TurnMove
<1>4. ASSUME NEW r \in Replies, CallMove(r) PROVE StampOK' /\ HumanWins'
  <2>1. CallGoes(r) /\ CallSpeaks(r) /\ now' = now
    BY <1>4, CallShape DEF CallKind
  <2>2. Alike /\ (Unseen(r) => \A n \in Running : Sends(n) => r \in turns'[n].unseen)
    BY <1>0, <2>1, UnseenAlike DEF CallSpeaks, Sends
  <2>3. /\ \A q \in Replies \ {r} : calls'[q] = calls[q]
        /\ \A q \in spoken : calls'[q].at # "none" /\ calls'[q].stamp = calls[q].stamp
    <3>1. calls' = [calls EXCEPT ![r] = calls'[r]]
      BY <2>1 DEF CallGoes
    <3>2. \A q \in Replies \ {r} : calls'[q] = calls[q]
      BY <1>0, <3>1 DEF TypeOK
    <3>3. \A q \in spoken : calls[q].at # "none" /\ q \in Replies
      BY <1>0 DEF StampOK
    <3> QED BY <2>1, <3>2, <3>3 DEF CallSpeaks
  <2>4. spoken' \ (spoken \union {r}) = {} /\ overtaken \subseteq overtaken' /\ (r \in spoken' => r \in spoken \/ Unseen(r))
    BY <2>1 DEF CallSpeaks
  <2>5. StampOK'
    <3>1. CASE UNCHANGED <<lastReply, spoken, overtaken, turns>>
      BY <2>3, <3>1 DEF StampOK
    <3>2. CASE calls[r].at # "none" /\ spoken' = spoken \union {r} /\ lastReply >= calls[r].stamp
               /\ UNCHANGED <<lastReply, overtaken>>
      <4>1. calls'[r].at # "none" /\ calls'[r].stamp <= lastReply
        BY <1>0, <2>1, <3>2 DEF CallSpeaks
      <4>2. \A q \in spoken : q \notin overtaken => calls[q].stamp <= lastReply
        BY DEF StampOK
      <4> QED BY <2>3, <3>2, <4>1, <4>2 DEF StampOK
    <3>3. CASE /\ calls[r].at # "none" /\ spoken' = spoken \union {r} /\ lastReply' = calls[r].stamp
               /\ overtaken' = overtaken \union {q \in spoken : calls[q].stamp > calls[r].stamp}
      <4>1. calls'[r].at # "none" /\ calls'[r].stamp <= lastReply'
        BY <1>0, <2>1, <3>3 DEF CallSpeaks
      <4>2. \A q \in spoken : q \notin overtaken' => calls[q].stamp <= lastReply'
        <5>1. ASSUME NEW q \in spoken, q \notin overtaken' PROVE calls[q].stamp <= lastReply'
          <6>1. ~(calls[q].stamp > calls[r].stamp)
            BY <3>3, <5>1
          <6>2. calls[q].stamp \in Nat /\ calls[r].stamp \in Nat
            BY <1>0
          <6> QED BY <3>3, <6>1, <6>2
        <5> QED BY <5>1
      <4> QED BY <2>3, <3>3, <4>1, <4>2 DEF StampOK
    <3> QED BY <2>1, <3>1, <3>2, <3>3 DEF CallSpeaks
  <2>6. ASSUME NEW n \in Running', Sends(n)', NEW q \in Missed(n)'
        PROVE  Old(n, q)'
    <3>1. n \in Running /\ Sends(n) /\ turns'[n].since = turns[n].since /\ turns[n].unseen \subseteq turns'[n].unseen
      BY <2>2, <2>6 DEF Alike, Sends
    <3>2. q \in spoken
      BY <2>2, <2>4, <2>6, <3>1 DEF Missed
    <3>3. q \in Missed(n)
      BY <2>4, <2>6, <3>1, <3>2 DEF Missed
    <3>4. Old(n, q)
      BY <1>w, <3>1, <3>3
    <3> QED BY <2>1, <2>3, <3>1, <3>2, <3>4 DEF Old
  <2> QED BY <1>p, <2>5, <2>6
<1>5. ASSUME Around PROVE StampOK' /\ HumanWins'
  <2>1. now' \in Nat /\ now <= now' /\ UNCHANGED people /\ turns' = turns
    BY <1>5, AroundShape DEF Else
  <2>2. ASSUME NEW n \in Running, Sends(n), NEW r \in Missed(n) PROVE Old(n, r)'
    <3>1. Old(n, r) /\ r \in Replies /\ calls[r].stamp \in Nat /\ calls' = calls
      BY <1>0, <1>w, <2>1, <2>2 DEF Missed, people
    <3> QED BY <1>0, <2>1, <3>1 DEF Old
  <2>3. Running' = Running /\ \A n \in Running : Sends(n)' = Sends(n) /\ Missed(n)' = Missed(n)
    BY <2>1 DEF Sends, Missed, people, Running
  <2> QED BY <1>a, <1>p, <2>1, <2>2, <2>3
<1> QED BY <1>0, <1>1, <1>2, <1>3, <1>4, <1>5 DEF Moved

-----------------------------------------------------------------------------
(* What a message was handed over for is not forgotten.                    *)

Settled(n) == n \in Running => turns[n].at \in Ended
DoneStays == \A m \in Customer : Done(m) => Done(m)'

LEMMA Stays ==
  ASSUME TypeOK, gone \subseteq gone', answered' = answered \/ \E n : Answer(n)
  PROVE  DoneStays
<1>1. \A m \in Customer : answered[m] \in Nat /\ answered'[m] \in Nat /\ answered'[m] >= answered[m]
  <2>1. \A m \in Customer : answered[m] \in Nat
    BY DEF TypeOK
  <2>2. CASE answered' = answered
    BY <2>1, <2>2
  <2>3. ASSUME NEW n, Answer(n) PROVE \A m \in Customer : answered'[m] \in Nat /\ answered'[m] >= answered[m]
    BY <2>1, <2>3, Answers
  <2> QED BY <2>1, <2>2, <2>3
<1> QED BY <1>1 DEF DoneStays, Done

LEMMA SettledKeeps ==
  ASSUME TypeOK, SettledOK, DoneStays,
         \A n \in DOMAIN scratch' : Settled(n)' =>
            /\ n \in DOMAIN scratch /\ scratch'[n] = scratch[n]
            /\ Settled(n) \/ \A m \in Claimed(n) : Done(m)'
  PROVE  SettledOK'
<1>1. ASSUME NEW n \in DOMAIN scratch', Settled(n)', NEW m \in Claimed(n)'
      PROVE  Done(m)'
  <2>1. n \in DOMAIN scratch /\ scratch'[n] = scratch[n]
    BY <1>1
  <2>2. m \in Claimed(n)
    BY <1>1, <2>1 DEF Claimed
  <2>3. m \in Customer
    BY <2>2, ClaimOf
  <2>4. CASE Settled(n)
    BY <2>1, <2>2, <2>3, <2>4 DEF SettledOK, DoneStays, Settled
  <2> QED BY <1>1, <2>2, <2>4
<1> QED BY <1>1 DEF SettledOK, Settled

LEMMA HandedKeeps ==
  ASSUME HandedOK, DoneStays,
         \A m \in Customer : m \in marked' \/ Pushed(m)' => m \in marked \/ Pushed(m) \/ Done(m)' \/ Waits(m)',
         \A m \in Customer : Waits(m) => Waits(m)' \/ Done(m)'
  PROVE  HandedOK'
BY DEF HandedOK, DoneStays

Same == UNCHANGED messages
LEMMA SamePushed ==
  ASSUME Same
  PROVE  \A m : (m \in marked' \/ Pushed(m)') => (m \in marked \/ Pushed(m))
BY DEF Same, messages, Pushed

LEMMA HandStep ==
  ASSUME Base, MarkOK, SettledOK, HandedOK, Next
  PROVE  SettledOK' /\ HandedOK'
<1>0. TypeOK /\ Moved
  BY NextMoves DEF Base
<1>1. ASSUME NEW m \in Customer, IntakeMove(m) PROVE SettledOK' /\ HandedOK'
  <2>1. IntakeGoes(m) /\ IntakeHands(m) /\ UNCHANGED Rest
    BY <1>1, IntakeShape
  <2>2. turns' = turns /\ scratch' = scratch /\ answered' = answered
    BY <2>1 DEF Rest
  <2>3. DoneStays
    <3>1. gone \subseteq gone'
      BY <2>1 DEF IntakeHands
    <3> QED BY <1>0, <2>2, <3>1, Stays
  <2>4. SettledOK'
    BY <1>0, <2>2, <2>3, SettledKeeps DEF Settled, Running
  <2>5. pend \in Seq(Customer) /\ \A k \in ToSet(pend) : k \in ToSet(Append(pend, m))
    <3>1. pend \in Seq(Customer)
      BY <1>0 DEF TypeOK
    <3>2. \A i \in DOMAIN pend : i \in DOMAIN Append(pend, m) /\ Append(pend, m)[i] = pend[i]
      BY <3>1
    <3> QED BY <3>1, <3>2 DEF ToSet
  <2>6. \A k \in Customer : Waits(k) => Waits(k)'
    <3>1. \A k : k \in ToSet(pend) => k \in ToSet(pend)'
      BY <2>1, <2>5 DEF IntakeHands
    <3> QED BY <2>2, <3>1 DEF Waits, Claimed, Running
  <2>7. pend' = Append(pend, m) => Waits(m)'
    <3>1. Len(pend) + 1 \in DOMAIN Append(pend, m) /\ Append(pend, m)[Len(pend) + 1] = m
      BY <2>5
    <3>2. m \in ToSet(Append(pend, m))
      BY <3>1 DEF ToSet
    <3> QED BY <3>2 DEF Waits
  <2>8. ASSUME NEW k \in Customer, k \in marked' \/ Pushed(k)'
        PROVE  k \in marked \/ Pushed(k) \/ Done(k)' \/ Waits(k)'
    <3>1. CASE k = m
      BY <2>1, <2>7, <2>8, <3>1 DEF IntakeHands, Done
    <3>2. CASE k # m
      <4>1. intake' = [intake EXCEPT ![m] = intake'[m]] /\ intake \in [Customer -> Intake]
        BY <1>0, <2>1 DEF IntakeGoes, TypeOK, Intake
      <4>2. intake'[k] = intake[k]
        BY <3>2, <4>1
      <4> QED BY <2>1, <2>8, <3>2, <4>2 DEF IntakeHands, Pushed
    <3> QED BY <3>1, <3>2
  <2> QED BY <2>3, <2>4, <2>6, <2>8, HandedKeeps
<1>2. ASSUME NEW n \in delayed, Fire(n) PROVE SettledOK' /\ HandedOK'
  <2>1. /\ Running' = Running \union {n} /\ n \notin Running /\ turns'[n] = NewTurn
        /\ \A k \in Running : turns'[k] = turns[k]
    BY <1>0, <1>2, Begins
  <2>2. scratch' = scratch /\ pend' = pend /\ answered' = answered /\ gone' = gone /\ Same
    BY <1>2 DEF Fire, fate, Same
  <2>3. DoneStays
    BY <1>0, <2>2, Stays
  <2>4. SettledOK'
    BY <1>0, <2>1, <2>2, <2>3, SettledKeeps DEF Settled
  <2>5. \A k \in Customer : Waits(k) => Waits(k)'
    BY <2>1, <2>2 DEF Waits, Claimed
  <2> QED BY <2>2, <2>3, <2>4, <2>5, HandedKeeps, SamePushed
<1>3. ASSUME NEW n \in Running, TurnMove(n) PROVE SettledOK' /\ HandedOK'
  <2>1. CASE TurnGoing(n)
    <3>1. TurnGoes(n) /\ TurnPath(n) /\ TurnHands(n) /\ UNCHANGED Kind
      BY <2>1, TurnShape
    <3>2. Running' = Running /\ \A k \in Running \ {n} : turns'[k] = turns[k]
      BY <1>0, <3>1, Goers
    <3>3. DoneStays
      <4>1. gone \subseteq gone' /\ (answered' = answered \/ \E k : Answer(k))
        BY <3>1 DEF TurnHands
      <4> QED BY <1>0, <4>1, Stays
    <3>4. scratch' = scratch /\ pend' = pend /\ Same
      BY <3>1 DEF Kind, Same
    <3>5. ASSUME Settled(n)', ~Settled(n) PROVE \A m \in Claimed(n) : Done(m)'
      <4>1. turns'[n].at \in Ended /\ turns[n].at \notin Ended
        BY <3>2, <3>5 DEF Settled
      <4>2. turns'[n].at = "sent" \/ turns'[n].at = "over"
        BY <3>1, <4>1 DEF TurnPath, Unclaimed, Ended
      <4>3. CASE Answer(n)
        <5>1. \A m \in Claimed(n) : m \in Customer
          BY <1>0, ClaimOf
        <5>2. \A m \in Customer : answered[m] \in Nat
          BY <1>0 DEF TypeOK
        <5>3. \A m \in Claimed(n) : answered'[m] = answered[m] + 1
          BY <1>0, <4>3, <5>1, Answers
        <5>4. ASSUME NEW m \in Claimed(n) PROVE answered'[m] > 0
          <6>1. answered[m] \in Nat /\ answered'[m] = answered[m] + 1
            BY <5>1, <5>2, <5>3
          <6> QED BY <6>1
        <5> QED BY <5>4 DEF Done
      <4>4. CASE gone' = gone \union Claimed(n)
        BY <4>4 DEF Done
      <4> QED BY <3>1, <4>1, <4>2, <4>3, <4>4 DEF TurnHands, Ended
    <3>6. SettledOK'
      <4>1. \A k \in DOMAIN scratch' : Settled(k)' => Settled(k) \/ \A m \in Claimed(k) : Done(m)'
        BY <3>2, <3>5 DEF Settled
      <4> QED BY <1>0, <3>3, <3>4, <4>1, SettledKeeps
    <3>7. \A k \in Customer : Waits(k) => Waits(k)'
      BY <3>2, <3>4 DEF Waits, Claimed
    <3> QED BY <3>3, <3>4, <3>6, <3>7, HandedKeeps, SamePushed
  <2>2. CASE Rename(n) /\ pend # <<>>
    <3>1. TurnGoes(n) /\ Takes(n)
      BY <2>2, TakeShape
    <3>2. Running' = Running /\ \A k \in Running \ {n} : turns'[k] = turns[k]
      BY <1>0, <3>1, Goers
    <3>3. answered' = answered /\ gone' = gone /\ Same
      BY <3>1 DEF Takes, fate, Same
    <3>4. DoneStays
      BY <1>0, <3>3, Stays
    <3>5. /\ DOMAIN scratch' = DOMAIN scratch \union {n} /\ scratch'[n] = pend
          /\ \A k \in DOMAIN scratch \ {n} : scratch'[k] = scratch[k]
      <4>1. n \in 0..seq /\ pend \in Seq(Customer)
        BY <1>0, TurnOf DEF TypeOK
      <4> QED BY <1>0, <3>1, <4>1, Puts DEF Takes
    <3>6. ~Settled(n)'
      BY <3>1, <3>2 DEF Takes, Settled, Ended
    <3>7. SettledOK'
      BY <1>0, <3>2, <3>4, <3>5, <3>6, SettledKeeps DEF Settled
    <3>8. \A k \in Claimed(n) : Done(k)
      BY <3>1 DEF SettledOK, Takes, Ended, Claimed
    <3>9. ASSUME NEW k \in Customer, Waits(k) PROVE Waits(k)' \/ Done(k)'
      <4>1. CASE k \in ToSet(pend)
        <5>1. k \in Claimed(n)'
          BY <3>5, <4>1 DEF Claimed
        <5> QED BY <3>2, <5>1 DEF Waits
      <4>2. CASE k \in Claimed(n)
        BY <3>4, <3>8, <4>2 DEF DoneStays
      <4>3. ASSUME NEW j \in Running \ {n}, k \in Claimed(j) PROVE Waits(k)'
        BY <3>2, <3>5, <4>3 DEF Waits, Claimed
      <4> QED BY <3>9, <4>1, <4>2, <4>3 DEF Waits
    <3> QED BY <3>3, <3>4, <3>7, <3>9, HandedKeeps, SamePushed
  <2>3. CASE Prepend(n)
    <3>1. TurnGoes(n) /\ PutsBack(n)
      BY <2>3, BackShape
    <3>2. Running' = Running /\ \A k \in Running \ {n} : turns'[k] = turns[k]
      BY <1>0, <3>1, Goers
    <3>3. answered' = answered /\ gone \subseteq gone' /\ Same
      BY <3>1 DEF PutsBack, Same
    <3>4. DoneStays
      BY <1>0, <3>3, Stays
    <3>5. /\ DOMAIN scratch' = DOMAIN scratch \ {n}
          /\ \A k \in DOMAIN scratch' : scratch'[k] = scratch[k]
      BY <1>0, <3>1, Drops DEF PutsBack
    <3>7. SettledOK'
      BY <1>0, <3>2, <3>4, <3>5, SettledKeeps DEF Settled
    <3>8. \A k : k \in ToSet(scratch[n]) \/ k \in ToSet(pend) => k \in ToSet(scratch[n] \o pend)
      <4>1. scratch[n] \in Seq(Customer) /\ pend \in Seq(Customer)
        BY <1>0, <3>1, ClaimOf DEF PutsBack, TypeOK
      <4>2. \A i \in DOMAIN scratch[n] : i \in DOMAIN (scratch[n] \o pend) /\ (scratch[n] \o pend)[i] = scratch[n][i]
        BY <4>1
      <4>3. \A i \in DOMAIN pend : /\ i + Len(scratch[n]) \in DOMAIN (scratch[n] \o pend)
                                   /\ (scratch[n] \o pend)[i + Len(scratch[n])] = pend[i]
        BY <4>1
      <4> QED BY <4>2, <4>3 DEF ToSet
    <3>9. ASSUME NEW k \in Customer, Waits(k) PROVE Waits(k)' \/ Done(k)'
      <4>1. CASE k \in ToSet(pend) \/ k \in Claimed(n)
        <5>1. k \in ToSet(scratch[n] \o pend)
          BY <3>1, <3>8, <4>1 DEF PutsBack, Claimed
        <5> QED BY <3>1, <5>1 DEF PutsBack, Waits, Done
      <4>3. ASSUME NEW j \in Running \ {n}, k \in Claimed(j) PROVE Waits(k)'
        BY <3>2, <3>5, <4>3 DEF Waits, Claimed
      <4> QED BY <3>9, <4>1, <4>3 DEF Waits
    <3> QED BY <3>3, <3>4, <3>7, <3>9, HandedKeeps, SamePushed
  <2>4. CASE TurnEnding(n)
    <3>1. EndJobs(n) /\ EndHands(n) /\ UNCHANGED EndKind
      BY <2>4, EndShape
    <3>2. Running' = Running \ {n} /\ \A k \in Running' : turns'[k] = turns[k]
      BY <1>0, <3>1, Enders DEF EndJobs
    <3>3. answered' = answered /\ gone \subseteq gone' /\ pend' = pend /\ Same
      BY <3>1 DEF EndKind, EndHands, Same
    <3>4. DoneStays
      BY <1>0, <3>3, Stays
    <3>5. /\ DOMAIN scratch' \subseteq DOMAIN scratch /\ DOMAIN scratch \ {n} \subseteq DOMAIN scratch'
          /\ \A k \in DOMAIN scratch' : scratch'[k] = scratch[k]
      <4>1. CASE scratch' = scratch
        BY <4>1
      <4>2. CASE scratch' = Drop(scratch, n)
        BY <1>0, <4>2, Drops
      <4> QED BY <3>1, <4>1, <4>2 DEF EndHands
    <3>6. ASSUME NEW k \in Claimed(n) PROVE Done(k)'
      <4>1. k \in Customer
        BY <1>0, ClaimOf
      <4>2. CASE turns[n].at \in Ended
        <5>1. Done(k)
          BY <4>2 DEF SettledOK, Claimed
        <5> QED BY <3>4, <4>1, <5>1 DEF DoneStays
      <4>3. CASE gone' = gone \union Claimed(n)
        BY <4>3 DEF Done
      <4> QED BY <3>1, <4>2, <4>3 DEF EndHands
    <3>7. SettledOK'
      BY <1>0, <3>2, <3>4, <3>5, <3>6, SettledKeeps DEF Settled
    <3>9. ASSUME NEW k \in Customer, Waits(k) PROVE Waits(k)' \/ Done(k)'
      <4>3. ASSUME NEW j \in Running \ {n}, k \in Claimed(j) PROVE Waits(k)'
        BY <3>2, <3>5, <4>3 DEF Waits, Claimed
      <4> QED BY <3>3, <3>6, <3>9, <4>3 DEF Waits
    <3> QED BY <3>3, <3>4, <3>7, <3>9, HandedKeeps, SamePushed
  <2> QED BY <1>3, <2>1, <2>2, <2>3, <2>4 DEF TurnMove
<1>4. ASSUME NEW r \in Replies, CallMove(r) PROVE SettledOK' /\ HandedOK'
  <2>1. CallGoes(r) /\ CallSpeaks(r) /\ UNCHANGED CallKind
    BY <1>4, CallShape
  <2>2. Running' = Running /\ \A n \in Running : turns'[n].at = turns[n].at
    BY <1>0, <2>1, UnseenAlike DEF CallSpeaks, Alike
  <2>3. scratch' = scratch /\ answered' = answered /\ gone \subseteq gone' /\ Same
    BY <2>1 DEF CallKind, CallGoes, Same
  <2>4. DoneStays
    BY <1>0, <2>3, Stays
  <2>5. SettledOK'
    BY <1>0, <2>2, <2>3, <2>4, SettledKeeps DEF Settled
  <2>6. \A k \in Customer : Waits(k) => Waits(k)' \/ Done(k)'
    BY <2>1, <2>2, <2>3 DEF Waits, Claimed, CallGoes, Done
  <2> QED BY <2>3, <2>4, <2>5, <2>6, HandedKeeps, SamePushed
<1>5. ASSUME Around PROVE SettledOK' /\ HandedOK'
  <2>1. UNCHANGED Else
    BY <1>5, AroundShape
  <2>2. turns' = turns /\ scratch' = scratch /\ pend' = pend /\ answered' = answered /\ gone' = gone /\ Same
    BY <2>1 DEF Else, Same
  <2>3. DoneStays
    BY <1>0, <2>2, Stays
  <2>4. SettledOK'
    BY <1>0, <2>2, <2>3, SettledKeeps DEF Settled, Running
  <2>5. \A k \in Customer : Waits(k) => Waits(k)'
    BY <2>2 DEF Waits, Claimed, Running
  <2> QED BY <2>2, <2>3, <2>4, <2>5, HandedKeeps, SamePushed
<1> QED BY <1>0, <1>1, <1>2, <1>3, <1>4, <1>5 DEF Moved

-----------------------------------------------------------------------------
(* What waits in the buffer has something coming for it.                   *)

Wants == pend # <<>> /\ ~stuck

(* A turn that will claim the buffer.                                      *)
Claimer == \E n \in Running : turns[n].at \in Unclaimed

LEMMA IntakeComesOn ==
  ASSUME Base, MarkOK, NEW m \in Customer, IntakeMove(m), Wants'
  PROVE  /\ Wants \/ IntakeComes(m)' \/ delayed' # {}
         /\ IntakeComes(m) => IntakeComes(m)' \/ delayed' # {} \/ Claimer
<1> USE DEF At, world, people, messages, buffer, jobs, fate
<1> DEFINE Here == IntakeComes(m)' \/ delayed' # {}
<1>0. /\ intake[m] \in Intake /\ intake \in [Customer -> Intake] /\ seq \in Nat
      /\ m \in marked => intake[m].at \in {"check", "done"}
      /\ failed \union Running \subseteq 0..seq
  BY DEF Base, TypeOK, MarkOK, Intake
<1>t. ASSUME NEW s, To(m, s) PROVE intake'[m].at = s /\ intake'[m].id = intake[m].id
  BY <1>0, <1>t DEF To, Intake
<1>f. ASSUME NEW n, UNCHANGED <<failed, turns>> PROVE Fresh(n)' = Fresh(n)
  BY <1>f DEF Fresh, Running
<1>w. pend' # <<>> /\ ~stuck'
  BY DEF Wants
<1>1. CASE Receive(m)
  <2>1. UNCHANGED buffer /\ intake[m].at = "none"
    BY <1>1 DEF Receive
  <2> QED BY <1>w, <2>1 DEF Wants, IntakeComes
<1>2. CASE Check(m)
  <2>1. intake[m].at = "check" /\ pend' = pend /\ flawed' = flawed /\ marked' = marked /\ delayed' = delayed
    BY <1>2 DEF Check
  <2>2. CASE To(m, "push") /\ UNCHANGED stuck
    <3>1. intake'[m].at = "push"
      BY <1>t, <2>2
    <3> QED BY <1>w, <2>1, <2>2, <3>1 DEF Wants, IntakeComes
  <2>3. CASE m \in marked /\ UNCHANGED stuck
    BY <1>w, <2>1, <2>3 DEF Wants, IntakeComes
  <2>4. CASE Strand(m \in flawed)
    <3>1. ~stuck /\ (m \in flawed => delayed # {})
      BY <1>w, <2>1, <2>4 DEF Strand
    <3> QED BY <1>w, <2>1, <3>1 DEF Wants, IntakeComes
  <2> QED BY <1>2, <2>2, <2>3, <2>4 DEF Check
<1>3. CASE Push(m)
  <2>1. UNCHANGED buffer /\ intake[m].at = "push" /\ flawed' = flawed /\ marked' = marked
        /\ (To(m, "append") \/ To(m, "seq"))
    BY <1>3 DEF Push
  <2>2. intake'[m].at = "append" \/ intake'[m].at = "seq"
    BY <1>t, <2>1
  <2> QED BY <1>w, <2>1, <2>2 DEF Wants, IntakeComes
<1>4. CASE PushList(m)
  <2>1. intake'[m].at = "seq"
    BY <1>4, <1>t DEF PushList
  <2> QED BY <2>1 DEF IntakeComes
<1>5. CASE ReadSeq(m)
  <2>1. intake'[m].at = "job"
    BY <1>0, <1>5 DEF ReadSeq
  <2> QED BY <2>1 DEF IntakeComes
<1>6. CASE FindJob(m)
  <2>1. UNCHANGED <<failed, turns>> /\ To(m, IF Exists(intake[m].id) THEN "move" ELSE "add")
    BY <1>6 DEF FindJob
  <2>2. CASE Exists(intake[m].id)
    <3>1. intake'[m].at = "move"
      BY <1>t, <2>1, <2>2
    <3> QED BY <3>1 DEF IntakeComes
  <2>3. CASE ~Exists(intake[m].id)
    <3>1. intake'[m].at = "add" /\ intake'[m].id = intake[m].id
      BY <1>t, <2>1, <2>3
    <3>2. Fresh(intake[m].id)
      BY <2>3 DEF Exists, Fresh
    <3>3. Fresh(intake[m].id)'
      BY <2>1, <3>1, <3>2 DEF Fresh, Running
    <3> QED BY <3>1, <3>3 DEF IntakeComes
  <2> QED BY <2>2, <2>3
<1>7. CASE Move(m)
  <2>1. UNCHANGED <<pend, delayed, failed, turns>>
    BY <1>7 DEF Move
  <2>2. CASE intake[m].id \in delayed
    BY <2>1, <2>2
  <2>3. CASE intake' = [intake EXCEPT ![m] = [at |-> "add", id |-> seq + 1]]
    <3>1. intake'[m].at = "add" /\ intake'[m].id = seq + 1
      BY <1>0, <2>3
    <3>2. seq + 1 \notin failed /\ seq + 1 \notin Running
      BY <1>0
    <3>3. Fresh(intake[m].id)'
      BY <2>1, <3>1, <3>2 DEF Fresh, Running
    <3> QED BY <3>1, <3>3 DEF IntakeComes
  <2> QED BY <1>7, <2>2, <2>3 DEF Move
<1>8. CASE Arm(m)
  <2> DEFINE i == intake[m].id
  <2>1. /\ delayed' = IF Exists(i) THEN delayed ELSE delayed \union {i}
        /\ stuck' = (stuck /\ i \in failed \union Running) /\ pend' = pend
    BY <1>8 DEF Arm, AddJob
  <2>2. intake[m].at = "add"
    BY <1>8 DEF Arm
  <2> HIDE DEF i
  <2>3. stuck => delayed' # {}
    BY <1>w, <2>1 DEF Exists
  <2>4. Wants \/ delayed' # {}
    BY <1>w, <2>1, <2>3 DEF Wants
  <2>5. ASSUME Fresh(i) PROVE delayed' # {} \/ Claimer
    <3>1. CASE i \in Running
      BY <2>5, <3>1 DEF Fresh, Claimer
    <3>2. CASE i \notin Running
      BY <2>1, <2>5, <3>2 DEF Fresh, Exists
    <3> QED BY <3>1, <3>2
  <2>6. IntakeComes(m) => Fresh(i)
    BY <2>2 DEF IntakeComes, i
  <2> QED BY <2>4, <2>5, <2>6
<1>9. CASE Mark(m)
  <2>1. UNCHANGED buffer /\ intake[m].at = "mark"
    BY <1>9 DEF Mark
  <2> QED BY <1>w, <2>1 DEF Wants, IntakeComes
<1>10. CASE Again(m)
  <2>1. UNCHANGED buffer /\ intake[m].at = "done"
    BY <1>10 DEF Again
  <2> QED BY <1>w, <2>1 DEF Wants, IntakeComes
<1>11. CASE IntakeFails(m)
  <2>1. /\ pend' = pend /\ delayed' = delayed /\ marked' = marked
        /\ flawed' = IF Pushed(m) THEN flawed \union {m} ELSE flawed
    BY <1>11 DEF IntakeFails
  <2>2. CASE To(m, "check") /\ UNCHANGED stuck
    <3>1. intake'[m].at = "check"
      BY <1>t, <2>2
    <3>2. IntakeComes(m) => m \in flawed' \ marked'
      BY <1>0, <2>1 DEF IntakeComes, Pushed
    <3> QED BY <1>w, <2>1, <2>2, <3>1, <3>2 DEF Wants, IntakeComes
  <2>3. CASE Strand(Unarmed(m))
    <3>1. ~stuck /\ (Unarmed(m) => delayed # {})
      BY <1>w, <2>1, <2>3 DEF Strand
    <3>2. IntakeComes(m) => Unarmed(m)
      BY DEF IntakeComes, Unarmed
    <3> QED BY <1>w, <2>1, <3>1, <3>2 DEF Wants
  <2> QED BY <1>11, <2>2, <2>3 DEF IntakeFails
<1> QED BY <1>1, <1>2, <1>3, <1>4, <1>5, <1>6, <1>7, <1>8, <1>9, <1>10, <1>11 DEF IntakeMove, IntakeStep

(* No step leaves the buffer with nothing to come for it.                 *)
LEMMA ComesStep ==
  ASSUME Base, MarkOK, ComingOK, Next
  PROVE  ComingOK'
<1> SUFFICES ASSUME Wants' PROVE Comes'
  BY DEF ComingOK, Wants
<1>0. TypeOK /\ Moved
  BY NextMoves DEF Base
<1>c. Wants => Comes
  BY DEF ComingOK, Wants
<1>1. ASSUME NEW m \in Customer, IntakeMove(m) PROVE Comes'
  <2>1. IntakeGoes(m) /\ IntakeHands(m) /\ UNCHANGED Rest
    BY <1>1, IntakeShape
  <2>2. /\ Wants \/ IntakeComes(m)' \/ delayed' # {}
        /\ IntakeComes(m) => IntakeComes(m)' \/ delayed' # {} \/ Claimer
    BY <1>1, IntakeComesOn
  <2>3. turns' = turns /\ failed' = failed /\ calls' = calls /\ Running' = Running
    BY <2>1 DEF Rest, people, Running
  <2>4. Claimer => Comes'
    <3>1. ASSUME NEW n \in Running, turns[n].at \in Unclaimed PROVE Comes'
      <4>1. n \in Running' /\ TurnComes(n)'
        BY <2>3, <3>1 DEF TurnComes, Back, Unclaimed
      <4> QED BY <4>1 DEF Comes
    <3> QED BY <3>1 DEF Claimer
  <2>5. IntakeComes(m)' \/ delayed' # {} => Comes'
    BY DEF Comes
  <2>6. ASSUME Comes PROVE Comes'
    <3>1. CASE delayed # {}
      BY <2>1, <3>1 DEF Comes, IntakeGoes
    <3>2. ASSUME NEW r \in Replies, calls[r].at = "drop" PROVE Comes'
      BY <2>3, <3>2 DEF Comes
    <3>3. ASSUME NEW k \in Customer, IntakeComes(k) PROVE Comes'
      <4>1. CASE k = m
        BY <2>2, <2>4, <2>5, <3>3, <4>1
      <4>2. CASE k # m
        <5>1. intake' = [intake EXCEPT ![m] = intake'[m]] /\ intake \in [Customer -> Intake]
          BY <1>0, <2>1 DEF IntakeGoes, TypeOK, Intake
        <5>2. intake'[k] = intake[k]
          BY <4>2, <5>1
        <5>3. k \in flawed \ marked => k \in flawed' \ marked'
          BY <2>1, <4>2 DEF IntakeHands
        <5>4. Fresh(intake[k].id) => Fresh(intake[k].id)'
          BY <2>3, <5>2 DEF Fresh
        <5>5. IntakeComes(k)'
          BY <3>3, <5>2, <5>3, <5>4 DEF IntakeComes
        <5> QED BY <5>5 DEF Comes
      <4> QED BY <4>1, <4>2
    <3>4. ASSUME NEW n \in Running, TurnComes(n) PROVE Comes'
      <4>1. n \in Running' /\ TurnComes(n)'
        BY <2>3, <3>4 DEF TurnComes, Fresh
      <4> QED BY <4>1 DEF Comes
    <3> QED BY <2>6, <3>1, <3>2, <3>3, <3>4 DEF Comes
  <2> QED BY <1>c, <2>2, <2>5, <2>6
(* Sources that the step of a turn or of a call leaves alone.              *)
<1>k. ASSUME Comes, UNCHANGED messages, flawed \subseteq flawed', delayed \subseteq delayed',
             \A r \in Replies : calls[r].at = "drop" => calls'[r].at = "drop" \/ delayed' # {},
             \A i : Fresh(i) => Fresh(i)',
             \A n \in Running : TurnComes(n) => n \in Running' /\ TurnComes(n)'
      PROVE  Comes'
  <2>1. CASE delayed # {}
    BY <1>k, <2>1 DEF Comes
  <2>2. ASSUME NEW r \in Replies, calls[r].at = "drop" PROVE Comes'
    BY <1>k, <2>2 DEF Comes
  <2>3. ASSUME NEW k \in Customer, IntakeComes(k) PROVE Comes'
    <3>1. intake' = intake /\ marked' = marked
      BY <1>k DEF messages
    <3>2. Fresh(intake[k].id) => Fresh(intake[k].id)'
      BY <1>k, <3>1 DEF Fresh
    <3>3. IntakeComes(k)'
      BY <1>k, <2>3, <3>1, <3>2 DEF IntakeComes
    <3> QED BY <3>3 DEF Comes
  <2>4. ASSUME NEW n \in Running, TurnComes(n) PROVE Comes'
    BY <1>k, <2>4 DEF Comes
  <2> QED BY <1>k, <2>1, <2>2, <2>3, <2>4 DEF Comes
<1>2. ASSUME NEW n \in delayed, Fire(n) PROVE Comes'
  <2>1. n \in Running' /\ turns'[n].at = "claim"
    BY <1>0, <1>2, Begins DEF NewTurn
  <2>2. TurnComes(n)'
    BY <2>1 DEF TurnComes, Back
  <2> QED BY <2>1, <2>2 DEF Comes
<1>3. ASSUME NEW n \in Running, TurnMove(n) PROVE Comes'
  <2>1. CASE TurnGoing(n)
    <3>1. TurnGoes(n) /\ TurnPath(n) /\ TurnHands(n) /\ UNCHANGED Kind
      BY <2>1, TurnShape
    <3>2. Running' = Running /\ \A k \in Running \ {n} : turns'[k] = turns[k]
      BY <1>0, <3>1, Goers
    <3>3. /\ pend' = pend /\ stuck' = stuck /\ delayed' = delayed /\ failed' = failed /\ calls' = calls
          /\ UNCHANGED messages /\ flawed \subseteq flawed'
      BY <3>1 DEF Kind, people, TurnHands
    <3>4. CASE turns[n].at \in Unclaimed
      <4>1. TurnComes(n)' /\ n \in Running'
        BY <3>1, <3>2, <3>4 DEF TurnPath, TurnComes
      <4> QED BY <4>1 DEF Comes
    <3>5. CASE turns[n].at \notin Unclaimed
      <4>1. \A i : Fresh(i) => i # n /\ Fresh(i)'
        BY <3>2, <3>3, <3>5 DEF Fresh
      <4>2. TurnComes(n) => TurnComes(n)'
        <5>1. CASE turns'[n].at \in Back
          BY <5>1 DEF TurnComes
        <5>2. CASE turns'[n].at = "readd" /\ Fresh(turns'[n].id)
          <6>1. Fresh(turns[n].id)'
            BY <3>2, <3>3, <3>5, <5>2 DEF Fresh
          <6> QED BY <5>2, <6>1 DEF TurnComes
        <5> QED BY <3>1, <5>1, <5>2 DEF TurnPath, TurnComes
      <4>3. \A k \in Running \ {n} : TurnComes(k) => TurnComes(k)'
        <5>1. ASSUME NEW k \in Running \ {n}, TurnComes(k) PROVE TurnComes(k)'
          <6>1. turns'[k] = turns[k] /\ (Fresh(turns[k].id) => Fresh(turns[k].id)')
            BY <3>2, <3>3, <3>5 DEF Fresh
          <6> QED BY <5>1, <6>1 DEF TurnComes
        <5> QED BY <5>1
      <4>4. \A i : Fresh(i) => Fresh(i)'
        BY <4>1
      <4>5. \A k \in Running : TurnComes(k) => k \in Running' /\ TurnComes(k)'
        BY <3>2, <4>2, <4>3
      <4>6. Wants
        BY <3>3 DEF Wants
      <4> QED BY <1>c, <1>k, <3>3, <4>4, <4>5, <4>6
    <3> QED BY <3>4, <3>5
  <2>2. CASE Rename(n) /\ pend # <<>>
    BY <2>2, TakeShape DEF Takes, Wants
  <2>3. CASE Prepend(n)
    <3>1. TurnGoes(n) /\ PutsBack(n)
      BY <2>3, BackShape
    <3>2. Running' = Running /\ turns'[n].at = "reseq"
      BY <1>0, <3>1, Goers DEF PutsBack
    <3>3. TurnComes(n)'
      BY <3>2 DEF TurnComes, Back
    <3> QED BY <3>2, <3>3 DEF Comes
  <2>4. CASE TurnEnding(n)
    <3>1. EndJobs(n) /\ EndHands(n) /\ EndComes(n) /\ UNCHANGED EndKind
      BY <2>4, EndShape
    <3>2. Running' = Running \ {n} /\ \A k \in Running' : turns'[k] = turns[k]
      BY <1>0, <3>1, Enders DEF EndJobs
    <3>3. /\ pend' = pend /\ delayed \subseteq delayed' /\ failed' \subseteq failed \union {n} /\ calls' = calls
          /\ UNCHANGED messages /\ flawed \subseteq flawed'
      BY <3>1 DEF EndKind, people, EndJobs, EndHands
    <3>4. CASE delayed' # {}
      BY <3>4 DEF Comes
    <3>5. ASSUME NEW k \in Running \ {n}, turns[k].at \in Unclaimed PROVE Comes'
      <4>1. k \in Running' /\ TurnComes(k)'
        BY <3>2, <3>5 DEF TurnComes, Back, Unclaimed
      <4> QED BY <4>1 DEF Comes
    <3>6. CASE delayed' = {} /\ ~TurnComes(n)
      <4>1. Wants
        BY <3>1, <3>3, <3>6 DEF Wants, EndComes
      <4>2. turns[n].at \notin Unclaimed
        BY <3>6 DEF TurnComes, Back, Unclaimed
      <4>3. \A i : Fresh(i) => Fresh(i)'
        BY <3>2, <3>3, <4>2 DEF Fresh
      <4>4. ASSUME NEW k \in Running, TurnComes(k) PROVE k \in Running' /\ TurnComes(k)'
        <5>1. k # n /\ k \in Running' /\ turns'[k] = turns[k]
          BY <3>2, <3>6, <4>4
        <5>2. Fresh(turns[k].id) => Fresh(turns[k].id)'
          BY <3>2, <3>3, <4>2, <5>1 DEF Fresh
        <5> QED BY <4>4, <5>1, <5>2 DEF TurnComes
      <4> QED BY <1>c, <1>k, <3>3, <4>1, <4>3, <4>4
    <3> QED BY <3>1, <3>3, <3>4, <3>5, <3>6 DEF EndComes, Wants
  <2> QED BY <1>3, <2>1, <2>2, <2>3, <2>4 DEF TurnMove
<1>4. ASSUME NEW r \in Replies, CallMove(r) PROVE Comes'
  <2>1. CallGoes(r) /\ CallComes(r) /\ CallSpeaks(r) /\ UNCHANGED CallKind
    BY <1>4, CallShape
  <2>2. Alike
    BY <1>0, <2>1, UnseenAlike DEF CallSpeaks
  <2>3. CASE calls'[r].at = "drop"
    BY <2>3 DEF Comes
  <2>4. CASE /\ delayed' = delayed /\ failed' = failed /\ stuck' = stuck /\ pend' = pend
             /\ calls[r].at = "drop" => delayed # {}
    <3>1. Wants
      BY <2>4 DEF Wants
    <3>2. UNCHANGED messages /\ flawed' = flawed
      BY <2>1 DEF CallKind
    <3>3. \A q \in Replies : calls[q].at = "drop" => calls'[q].at = "drop" \/ delayed' # {}
      <4>1. calls' = [calls EXCEPT ![r] = calls'[r]] /\ calls \in [Replies -> Record]
        BY <1>0, <2>1 DEF CallGoes, TypeOK, Record
      <4>2. \A q \in Replies \ {r} : calls'[q] = calls[q]
        BY <4>1
      <4> QED BY <2>4, <4>2
    <3>4. \A i : Fresh(i) => Fresh(i)'
      BY <2>2, <2>4 DEF Fresh, Alike
    <3>5. ASSUME NEW k \in Running, TurnComes(k) PROVE k \in Running' /\ TurnComes(k)'
      <4>1. k \in Running' /\ turns'[k].at = turns[k].at /\ turns'[k].id = turns[k].id
        BY <2>2 DEF Alike
      <4>2. Fresh(turns[k].id) => Fresh(turns[k].id)'
        BY <2>2, <2>4, <4>1 DEF Fresh, Alike
      <4> QED BY <3>5, <4>1, <4>2 DEF TurnComes
    <3> QED BY <1>c, <1>k, <2>4, <3>1, <3>2, <3>3, <3>4, <3>5
  <2> QED BY <2>1, <2>3, <2>4 DEF CallComes, Wants
<1>5. ASSUME Around PROVE Comes'
  <2>1. UNCHANGED Else
    BY <1>5, AroundShape
  <2>2. UNCHANGED <<messages, pend, delayed, failed, stuck, turns, calls, flawed>>
    BY <2>1 DEF Else, people
  <2>3. Wants /\ (\A i : Fresh(i) => Fresh(i)') /\ Running' = Running
    BY <2>2 DEF Wants, Fresh, Running
  <2>4. ASSUME NEW k \in Running, TurnComes(k) PROVE TurnComes(k)'
    BY <2>2, <2>3, <2>4 DEF TurnComes, Fresh
  <2> QED BY <1>c, <1>k, <2>2, <2>3, <2>4
<1> QED BY <1>0, <1>1, <1>2, <1>3, <1>4, <1>5 DEF Moved

-----------------------------------------------------------------------------
(* No message is in two places, or answered and waiting.                   *)

Sent(n) == In(n, "sent")

LEMMA OnceKeeps ==
  ASSUME NEW m, Once(m), answered'[m] = answered[m],
         m \in marked \/ Pushed(m) => m \in marked' \/ Pushed(m)',
         \A n, i : Lies(m, n, i)' => Lies(m, n, i)
  PROVE  Once(m)'
<1>1. Nowhere(m) => Nowhere(m)'
  BY DEF Nowhere
<1>2. Sole(m)'
  BY DEF Once, Sole
<1> QED BY <1>1, <1>2 DEF Once

(* Lists that stay, or go.                                                 *)
Lists == /\ pend' \in {pend, <<>>}
         /\ DOMAIN scratch' \subseteq DOMAIN scratch /\ \A k \in DOMAIN scratch' : scratch'[k] = scratch[k]

LEMMA LiesFewer ==
  ASSUME NEW m, Lists, \A k \in DOMAIN scratch' : Sent(k) /\ ~Sent(k)' => m \notin Claimed(k)
  PROVE  \A n, i : Lies(m, n, i)' => Lies(m, n, i)
<1> SUFFICES ASSUME NEW n, NEW i, Lies(m, n, i)' PROVE Lies(m, n, i)
  OBVIOUS
<1>1. CASE n = Free /\ i \in DOMAIN pend' /\ pend'[i] = m
  BY <1>1 DEF Lies, Lists
<1>2. CASE n \in Unspent' /\ i \in DOMAIN scratch'[n] /\ scratch'[n][i] = m
  <2>1. n \in DOMAIN scratch' /\ ~Sent(n)'
    BY <1>2 DEF Unspent, Sent
  <2>2. n \in DOMAIN scratch /\ i \in DOMAIN scratch[n] /\ scratch[n][i] = m
    BY <1>2, <2>1 DEF Lists
  <2>3. m \in Claimed(n)
    BY <2>2 DEF Claimed, ToSet
  <2>4. n \in Unspent
    BY <2>1, <2>2, <2>3 DEF Unspent, Sent
  <2> QED BY <2>2, <2>4 DEF Lies
<1> QED BY <1>1, <1>2 DEF Lies

(* Lists alone change.                                                     *)
LEMMA CopiesFewer ==
  ASSUME CopiesOK, Lists, UNCHANGED messages, answered' = answered, flawed \subseteq flawed',
         \A k \in DOMAIN scratch' : Sent(k) /\ ~Sent(k)' => Claimed(k) \subseteq flawed'
  PROVE  CopiesOK'
<1> SUFFICES ASSUME NEW m \in Customer \ flawed' PROVE Once(m)'
  BY DEF CopiesOK
<1>1. Once(m)
  BY DEF CopiesOK
<1>2. \A n, i : Lies(m, n, i)' => Lies(m, n, i)
  BY LiesFewer
<1>3. m \in marked \/ Pushed(m) => m \in marked' \/ Pushed(m)'
  BY DEF messages, Pushed
<1> QED BY <1>1, <1>2, <1>3, OnceKeeps

LEMMA IntakeCopies ==
  ASSUME Base, MarkOK, CopiesOK, NEW m \in Customer, IntakeMove(m)
  PROVE  CopiesOK'
<1>0. TypeOK /\ pend \in Seq(Customer)
  BY DEF Base, TypeOK
<1>1. IntakeGoes(m) /\ IntakeHands(m) /\ UNCHANGED Rest
  BY IntakeShape
<1>2. /\ turns' = turns /\ scratch' = scratch /\ answered' = answered
      /\ \A k : Sent(k)' = Sent(k)
  BY <1>1 DEF Rest, Sent, In, Running
<1>3. ASSUME NEW k \in Customer \ flawed'
      PROVE  k \in marked \/ Pushed(k) => k \in marked' \/ Pushed(k)'
  <2>1. CASE k = m
    BY <1>1, <1>3, <2>1 DEF IntakeHands
  <2>2. CASE k # m
    <3>1. intake' = [intake EXCEPT ![m] = intake'[m]] /\ intake \in [Customer -> Intake]
      BY <1>0, <1>1 DEF IntakeGoes, TypeOK, Intake
    <3>2. intake'[k] = intake[k]
      BY <2>2, <3>1
    <3> QED BY <1>1, <2>2, <3>2 DEF IntakeHands, Pushed
  <2> QED BY <2>1, <2>2
<1>4. CASE pend' = pend
  <2>1. Lists
    BY <1>2, <1>4 DEF Lists
  <2>2. ASSUME NEW k \in Customer \ flawed' PROVE Once(k)'
    <3>1. Once(k)
      BY <1>1 DEF CopiesOK, IntakeHands
    <3>2. \A n, i : Lies(k, n, i)' => Lies(k, n, i)
      BY <1>2, <2>1, LiesFewer
    <3> QED BY <1>2, <1>3, <3>1, <3>2, OnceKeeps
  <2> QED BY <2>2 DEF CopiesOK
<1>5. CASE At(m, "append") /\ pend' = Append(pend, m) /\ Pushed(m)'
  <2>1. DOMAIN pend' = DOMAIN pend \union {Len(pend) + 1} /\ pend'[Len(pend) + 1] = m
        /\ \A i \in DOMAIN pend : pend'[i] = pend[i]
    BY <1>0, <1>5
  <2>2. Unspent' = Unspent
    BY <1>2 DEF Unspent, Sent
  <2>3. ASSUME NEW k, NEW n, NEW i, Lies(k, n, i)', ~Lies(k, n, i)
        PROVE  k = m /\ n = Free /\ i = Len(pend) + 1
    BY <1>2, <2>1, <2>2, <2>3 DEF Lies
  <2>4. ASSUME NEW k \in Customer \ flawed' PROVE Once(k)'
    <3>1. Once(k)
      BY <1>1 DEF CopiesOK, IntakeHands
    <3>2. CASE k # m
      <4>1. \A n, i : Lies(k, n, i)' => Lies(k, n, i)
        BY <2>3, <3>2
      <4> QED BY <1>2, <1>3, <3>1, <4>1, OnceKeeps
    <3>3. CASE k = m
      <4>1. m \notin marked /\ ~Pushed(m)
        BY <1>5 DEF MarkOK, Pushed, At
      <4>2. answered[m] = 0 /\ Nowhere(m)
        BY <3>1, <3>3, <4>1 DEF Once
      <4>3. \A n, i : Lies(m, n, i)' => n = Free /\ i = Len(pend) + 1
        BY <2>3, <4>2 DEF Nowhere
      <4>4. Sole(m)'
        BY <4>3 DEF Sole
      <4> QED BY <1>2, <1>5, <3>3, <4>2, <4>4 DEF Once
    <3> QED BY <3>2, <3>3
  <2> QED BY <2>4 DEF CopiesOK
<1> QED BY <1>1, <1>4, <1>5 DEF IntakeHands

LEMMA GoingCopies ==
  ASSUME Base, CopiesOK, NEW n \in Running, TurnGoing(n)
  PROVE  CopiesOK'
<1>0. TypeOK /\ HoldsOK /\ n # Free
  BY TurnOf DEF Base, Free
<1>1. TurnGoes(n) /\ TurnPath(n) /\ TurnHands(n) /\ UNCHANGED Kind
  BY TurnShape
<1>2. Running' = Running /\ \A k \in Running \ {n} : turns'[k] = turns[k]
  BY <1>0, <1>1, Goers
<1>3. pend' = pend /\ scratch' = scratch /\ UNCHANGED messages /\ Lists
  BY <1>1 DEF Kind, Lists
<1>4. \A k : Sent(k) => Sent(k)'
  BY <1>1, <1>2 DEF Sent, In, TurnPath
<1>5. CASE answered' = answered /\ flawed' = flawed
  BY <1>3, <1>4, <1>5, CopiesFewer
<1>6. CASE Answer(n) /\ turns[n].at = "send" /\ flawed \subseteq flawed'
           /\ (turns'[n].at = "sent" \/ flawed' = flawed \union Claimed(n))
  <2>1. ASSUME NEW m \in Customer \ flawed' PROVE Once(m)'
    <3>1. Once(m)
      BY <1>6 DEF CopiesOK
    <3>2. \A k, i : Lies(m, k, i)' => Lies(m, k, i)
      BY <1>3, <1>4, LiesFewer
    <3>3. m \in marked \/ Pushed(m) => m \in marked' \/ Pushed(m)'
      BY <1>3 DEF messages, Pushed
    <3>4. answered'[m] = IF m \in Claimed(n) THEN answered[m] + 1 ELSE answered[m]
      BY <1>0, <1>6, Answers
    <3>5. CASE m \notin Claimed(n)
      BY <3>1, <3>2, <3>3, <3>4, <3>5, OnceKeeps
    <3>6. CASE m \in Claimed(n)
      <4>1. n \in DOMAIN scratch
        BY <3>6 DEF Claimed
      <4>2. PICK i : i \in DOMAIN scratch[n] /\ scratch[n][i] = m
        BY <3>6, <4>1 DEF Claimed, ToSet
      <4>3. Lies(m, n, i)
        BY <1>6, <4>1, <4>2 DEF Lies, Unspent, In
      <4>4. ~Nowhere(m) /\ answered[m] = 0
        <5>1. ~Nowhere(m)
          BY <4>3 DEF Nowhere
        <5>2. answered[m] \in Nat
          BY <1>0 DEF TypeOK
        <5>3. answered[m] <= 1 /\ answered[m] # 1
          BY <3>1, <5>1 DEF Once
        <5> QED BY <5>1, <5>2, <5>3
      <4>5. turns'[n].at = "sent"
        BY <1>6, <2>1, <3>6
      <4>6. Nowhere(m)'
        <5>1. ASSUME NEW k, NEW j, Lies(m, k, j)' PROVE FALSE
          <6>1. Lies(m, k, j)
            BY <3>2, <5>1
          <6>2. k = n
            BY <3>1, <4>3, <6>1 DEF Once, Sole
          <6>3. n \notin Unspent'
            BY <1>2, <4>5 DEF Unspent, In
          <6> QED BY <1>0, <5>1, <6>2, <6>3 DEF Lies
        <5> QED BY <5>1 DEF Nowhere
      <4>7. Sole(m)'
        BY <4>6 DEF Nowhere, Sole
      <4>8. m \in marked' \/ Pushed(m)'
        BY <3>1, <3>3, <4>4 DEF Once
      <4>9. answered'[m] = 1
        BY <3>4, <3>6, <4>4
      <4> QED BY <4>6, <4>7, <4>8, <4>9 DEF Once
    <3> QED BY <3>5, <3>6
  <2> QED BY <2>1 DEF CopiesOK
<1> QED BY <1>1, <1>5, <1>6 DEF TurnHands

LEMMA TakeCopies ==
  ASSUME Base, CopiesOK, NEW n \in Running, Rename(n), pend # <<>>
  PROVE  CopiesOK'
<1>0. TypeOK /\ n # Free /\ n \in 0..seq /\ pend \in Seq(Customer)
  <2>1. TypeOK
    BY DEF Base
  <2>2. n \in Nat /\ n \in 0..seq /\ pend \in Seq(Customer)
    BY <2>1, TurnOf DEF TypeOK
  <2> QED BY <2>1, <2>2 DEF Free
<1>1. TurnGoes(n) /\ Takes(n)
  BY TakeShape
<1>2. Running' = Running /\ \A k \in Running \ {n} : turns'[k] = turns[k]
  BY <1>0, <1>1, Goers
<1>3. /\ DOMAIN scratch' = DOMAIN scratch \union {n} /\ scratch'[n] = pend
      /\ \A k \in DOMAIN scratch \ {n} : scratch'[k] = scratch[k]
  BY <1>0, <1>1, Puts DEF Takes
<1>4. pend' = <<>> /\ answered' = answered /\ flawed' = flawed /\ UNCHANGED messages
  BY <1>1 DEF Takes, fate
<1> HIDE DEF Free
<1>5. ASSUME NEW m, NEW k, NEW i, Lies(m, k, i)'
      PROVE  k # Free /\ (k = n => Lies(m, Free, i)) /\ (k # n => Lies(m, k, i))
  <2>1. k \in Unspent' /\ i \in DOMAIN scratch'[k] /\ scratch'[k][i] = m
    BY <1>4, <1>5 DEF Lies
  <2>2. CASE k = n
    BY <1>0, <1>3, <2>1, <2>2 DEF Lies
  <2>3. CASE k # n
    <3>1. k \in DOMAIN scratch /\ scratch'[k] = scratch[k]
      BY <1>3, <2>1, <2>3 DEF Unspent
    <3>2. k \in Unspent
      BY <1>2, <2>1, <2>3, <3>1 DEF Unspent, In
    <3>3. k # Free
      BY <1>0, <3>1, ClaimOf DEF Free
    <3> QED BY <2>1, <2>3, <3>1, <3>2, <3>3 DEF Lies
  <2> QED BY <2>2, <2>3
<1>6. ASSUME NEW m \in Customer \ flawed' PROVE Once(m)'
  <2>1. Once(m)
    BY <1>4 DEF CopiesOK
  <2>2. Nowhere(m) => Nowhere(m)'
    BY <1>5 DEF Nowhere
  <2>3. Sole(m)'
    <3>1. ASSUME NEW k, NEW i, NEW l, NEW j, Lies(m, k, i)', Lies(m, l, j)' PROVE k = l /\ i = j
      <4>1. /\ k # Free /\ (k = n => Lies(m, Free, i)) /\ (k # n => Lies(m, k, i))
            /\ l # Free /\ (l = n => Lies(m, Free, j)) /\ (l # n => Lies(m, l, j))
        BY <1>5, <3>1
      <4> QED BY <2>1, <4>1 DEF Once, Sole
    <3> QED BY <3>1 DEF Sole
  <2>4. m \in marked \/ Pushed(m) => m \in marked' \/ Pushed(m)'
    BY <1>4 DEF messages, Pushed
  <2> QED BY <1>4, <2>1, <2>2, <2>3, <2>4 DEF Once
<1> QED BY <1>6 DEF CopiesOK

LEMMA BackCopies ==
  ASSUME Base, CopiesOK, NEW n \in Running, Prepend(n)
  PROVE  CopiesOK'
<1>0. TypeOK /\ n # Free /\ pend \in Seq(Customer)
  <2>1. TypeOK
    BY DEF Base
  <2>2. n \in Nat /\ pend \in Seq(Customer)
    BY <2>1, TurnOf DEF TypeOK
  <2> QED BY <2>1, <2>2 DEF Free
<1>1. TurnGoes(n) /\ PutsBack(n)
  BY BackShape
<1>2. Running' = Running /\ \A k \in Running \ {n} : turns'[k] = turns[k]
  BY <1>0, <1>1, Goers
<1>3. /\ DOMAIN scratch' = DOMAIN scratch \ {n} /\ \A k \in DOMAIN scratch' : scratch'[k] = scratch[k]
  BY <1>0, <1>1, Drops DEF PutsBack
<1>4. answered' = answered /\ flawed' = flawed /\ UNCHANGED messages
      /\ n \in DOMAIN scratch /\ pend' = Kept(scratch[n] \o pend) /\ n \in Unspent
  BY <1>1 DEF PutsBack, Unspent, In
<1> HIDE DEF Free
<1>5. scratch[n] \in Seq(Customer) /\ Len(scratch[n]) \in Nat
  BY <1>0, <1>4, ClaimOf
<1>6. PICK d \in Nat : \A i \in DOMAIN pend' : /\ i + d \in DOMAIN (scratch[n] \o pend)
                                               /\ pend'[i] = (scratch[n] \o pend)[i + d]
  <2>1. scratch[n] \o pend \in Seq(Customer)
    BY <1>0, <1>5
  <2> QED BY <1>4, <2>1, KeptIs
<1> DEFINE e == Len(scratch[n])
<1>7. ASSUME NEW m, NEW i, i \in DOMAIN pend', pend'[i] = m
      PROVE  /\ i \in Nat /\ (i + d <= e \/ i + d > e)
             /\ i + d <= e => Lies(m, n, i + d)
             /\ i + d > e => Lies(m, Free, i + d - e)
  <2>1. i \in Nat
    <3>1. pend' \in Seq(Customer)
      <4>1. scratch[n] \o pend \in Seq(Customer)
        BY <1>0, <1>5
      <4> QED BY <1>4, <4>1, KeptIs
    <3> QED BY <1>7, <3>1
  <2>2. i + d \in DOMAIN (scratch[n] \o pend) /\ (scratch[n] \o pend)[i + d] = m
    BY <1>6, <1>7
  <2>3. CASE i + d <= e
    <3>1. i + d \in DOMAIN scratch[n] /\ scratch[n][i + d] = m
      BY <1>0, <1>5, <2>1, <2>2, <2>3
    <3> QED BY <1>4, <1>5, <2>1, <2>3, <3>1 DEF Lies
  <2>4. CASE i + d > e
    <3>1. i + d - e \in DOMAIN pend /\ pend[i + d - e] = m
      BY <1>0, <1>5, <2>1, <2>2, <2>4
    <3>2. Lies(m, Free, i + d - e)
      BY <3>1 DEF Lies
    <3>3. ~(i + d <= e)
      BY <1>5, <2>1, <2>4
    <3> QED BY <2>1, <2>4, <3>2, <3>3
  <2>5. i + d <= e \/ i + d > e
    BY <1>5, <2>1
  <2> QED BY <2>1, <2>3, <2>4, <2>5
<1>8. ASSUME NEW m, NEW k, NEW i, Lies(m, k, i)', k # Free
      PROVE  k # n /\ Lies(m, k, i)
  <2>1. k \in Unspent' /\ i \in DOMAIN scratch'[k] /\ scratch'[k][i] = m
    BY <1>8 DEF Lies
  <2>2. k # n /\ k \in DOMAIN scratch /\ scratch'[k] = scratch[k]
    BY <1>3, <2>1 DEF Unspent
  <2>3. k \in Unspent
    BY <1>2, <2>1, <2>2 DEF Unspent, In
  <2> QED BY <2>1, <2>2, <2>3 DEF Lies
<1>9. ASSUME NEW m, NEW i, Lies(m, Free, i)'
      PROVE  i \in DOMAIN pend' /\ pend'[i] = m
  <2>1. Free \notin Unspent'
    <3>1. Free \notin DOMAIN scratch
      BY <1>0, ClaimOf DEF Free
    <3> QED BY <1>3, <3>1 DEF Unspent
  <2> QED BY <1>9, <2>1 DEF Lies
<1> HIDE DEF e
<1>10. ASSUME NEW m \in Customer \ flawed' PROVE Once(m)'
  <2>1. Once(m)
    BY <1>4, <1>10 DEF CopiesOK
  <2>2. Nowhere(m) => Nowhere(m)'
    <3>1. ASSUME NEW k, NEW i, Lies(m, k, i)', Nowhere(m) PROVE FALSE
      <4>1. CASE k = Free
        <5>1. i \in DOMAIN pend' /\ pend'[i] = m
          BY <1>9, <3>1, <4>1
        <5> QED BY <1>7, <3>1, <5>1 DEF Nowhere
      <4>2. CASE k # Free
        BY <1>8, <3>1, <4>2 DEF Nowhere
      <4> QED BY <4>1, <4>2
    <3> QED BY <3>1 DEF Nowhere
  <2>3. ASSUME NEW i, NEW j, Lies(m, Free, i)', Lies(m, Free, j)' PROVE i = j
    <3>1. /\ i \in DOMAIN pend' /\ pend'[i] = m /\ j \in DOMAIN pend' /\ pend'[j] = m
      BY <1>9, <2>3
    <3>2. /\ i \in Nat /\ (i + d <= e \/ i + d > e)
          /\ i + d <= e => Lies(m, n, i + d)
          /\ i + d > e => Lies(m, Free, i + d - e)
      BY <1>7, <3>1
    <3>3. /\ j \in Nat /\ (j + d <= e \/ j + d > e)
          /\ j + d <= e => Lies(m, n, j + d)
          /\ j + d > e => Lies(m, Free, j + d - e)
      BY <1>7, <3>1
    <3>4. e \in Nat
      BY <1>5 DEF e
    <3>5. CASE i + d <= e /\ j + d <= e
      <4>1. i + d = j + d
        BY <2>1, <3>2, <3>3, <3>5 DEF Once, Sole
      <4> QED BY <3>2, <3>3, <4>1
    <3>6. CASE i + d > e /\ j + d > e
      <4>1. i + d - e = j + d - e
        BY <2>1, <3>2, <3>3, <3>6 DEF Once, Sole
      <4> QED BY <3>2, <3>3, <3>4, <4>1
    <3>7. ~(i + d <= e /\ j + d > e) /\ ~(i + d > e /\ j + d <= e)
      BY <1>0, <2>1, <3>2, <3>3 DEF Once, Sole
    <3> QED BY <3>2, <3>3, <3>5, <3>6, <3>7
  <2>4. ASSUME NEW k, NEW i, NEW j, Lies(m, k, i)', Lies(m, Free, j)', k # Free PROVE FALSE
    <3>1. k # n /\ Lies(m, k, i)
      BY <1>8, <2>4
    <3>2. j \in DOMAIN pend' /\ pend'[j] = m
      BY <1>9, <2>4
    <3>3. Lies(m, n, j + d) \/ Lies(m, Free, j + d - e)
      BY <1>7, <3>2
    <3> QED BY <2>1, <2>4, <3>1, <3>3 DEF Once, Sole
  <2>5. Sole(m)'
    <3>1. ASSUME NEW k, NEW i, NEW l, NEW j, Lies(m, k, i)', Lies(m, l, j)' PROVE k = l /\ i = j
      <4>1. CASE k = Free /\ l = Free
        BY <2>3, <3>1, <4>1
      <4>2. CASE k # Free /\ l # Free
        <5>1. Lies(m, k, i) /\ Lies(m, l, j)
          BY <1>8, <3>1, <4>2
        <5> QED BY <2>1, <5>1 DEF Once, Sole
      <4>3. CASE (k = Free /\ l # Free) \/ (k # Free /\ l = Free)
        BY <2>4, <3>1, <4>3
      <4> QED BY <4>1, <4>2, <4>3
    <3> QED BY <3>1 DEF Sole
  <2>6. m \in marked \/ Pushed(m) => m \in marked' \/ Pushed(m)'
    BY <1>4 DEF messages, Pushed
  <2> QED BY <1>4, <2>1, <2>2, <2>5, <2>6 DEF Once
<1> QED BY <1>10 DEF CopiesOK

LEMMA CopiesStep ==
  ASSUME Base, MarkOK, CopiesOK, Next
  PROVE  CopiesOK'
<1>0. TypeOK /\ Moved
  BY NextMoves DEF Base
<1>1. ASSUME NEW m \in Customer, IntakeMove(m) PROVE CopiesOK'
  BY <1>1, IntakeCopies
<1>2. ASSUME NEW n \in delayed, Fire(n) PROVE CopiesOK'
  <2>1. /\ Running' = Running \union {n} /\ n \notin Running
        /\ \A k \in Running : turns'[k] = turns[k]
    BY <1>0, <1>2, Begins
  <2>2. pend' = pend /\ scratch' = scratch /\ answered' = answered /\ flawed' = flawed /\ UNCHANGED messages
    BY <1>2 DEF Fire, fate
  <2>3. Lists /\ \A k : Sent(k) => Sent(k)'
    BY <2>1, <2>2 DEF Lists, Sent, In
  <2> QED BY <2>2, <2>3, CopiesFewer
<1>3. ASSUME NEW n \in Running, TurnMove(n) PROVE CopiesOK'
  <2>1. CASE TurnEnding(n)
    <3>1. EndJobs(n) /\ EndHands(n) /\ UNCHANGED EndKind
      BY <2>1, EndShape
    <3>2. Running' = Running \ {n} /\ \A k \in Running' : turns'[k] = turns[k]
      BY <1>0, <3>1, Enders DEF EndJobs
    <3>3. answered' = answered /\ flawed \subseteq flawed' /\ pend' = pend /\ UNCHANGED messages
      BY <3>1 DEF EndKind, EndHands
    <3>4. Lists
      <4>1. CASE scratch' = scratch
        BY <3>3, <4>1 DEF Lists
      <4>2. CASE scratch' = Drop(scratch, n)
        BY <1>0, <3>3, <4>2, Drops DEF Lists
      <4> QED BY <3>1, <4>1, <4>2 DEF EndHands
    <3>5. ASSUME NEW k \in DOMAIN scratch', Sent(k), ~Sent(k)' PROVE Claimed(k) \subseteq flawed'
      <4>1. k = n /\ turns[n].at = "sent"
        BY <3>2, <3>5 DEF Sent, In
      <4> QED BY <3>1, <3>5, <4>1 DEF EndHands
    <3> QED BY <3>3, <3>4, <3>5, CopiesFewer
  <2> QED BY <1>3, <2>1, GoingCopies, TakeCopies, BackCopies DEF TurnMove
<1>4. ASSUME NEW r \in Replies, CallMove(r) PROVE CopiesOK'
  <2>1. CallGoes(r) /\ CallSpeaks(r) /\ UNCHANGED CallKind
    BY <1>4, CallShape
  <2>2. Running' = Running /\ \A n \in Running : turns'[n].at = turns[n].at
    BY <1>0, <2>1, UnseenAlike DEF CallSpeaks, Alike
  <2>3. Lists /\ \A k : Sent(k) => Sent(k)'
    BY <2>1, <2>2 DEF Lists, Sent, In, CallGoes, CallKind
  <2> QED BY <2>1, <2>3, CopiesFewer DEF CallKind
<1>5. ASSUME Around PROVE CopiesOK'
  <2>1. UNCHANGED Else
    BY <1>5, AroundShape
  <2>2. UNCHANGED <<messages, pend, turns, scratch, answered, flawed>>
    BY <2>1 DEF Else
  <2>3. Lists /\ \A k : Sent(k) => Sent(k)'
    BY <2>2 DEF Lists, Sent, In, Running
  <2> QED BY <2>2, <2>3, CopiesFewer
<1> QED BY <1>0, <1>1, <1>2, <1>3, <1>4, <1>5 DEF Moved

-----------------------------------------------------------------------------
(* The theorems.                                                           *)

LEMMA InitHolds ==
  ASSUME Init
  PROVE  IInv
<1> USE DEF Init
<1>1. Running = {} /\ DOMAIN scratch = {} /\ pend = <<>> /\ pend \in Seq(Customer)
  BY DEF Running
<1>2. TypeOK
  <2>1. left \in [Troubles -> Nat]
    BY AiTurnsAssumption
  <2>2. /\ intake \in [Customer -> [at : IntakeSteps, id : Nat]]
        /\ calls \in [Replies -> [at : CallSteps, stamp : Nat, id : Nat]]
        /\ answered \in [Customer -> Nat]
    BY DEF IntakeSteps, CallSteps
  <2>3. turns \in [Running -> Turn] /\ scratch \in [DOMAIN scratch -> Seq(Customer)]
    BY <1>1
  <2>4. lock \in Int /\ lastReply \in Int
    BY DEF Free
  <2> QED BY <1>1, <2>1, <2>2, <2>3, <2>4 DEF TypeOK
<1>3. IdsOK /\ HoldsOK /\ MarkOK /\ SettledOK /\ ComingOK /\ StampOK /\ HumanWins
  BY <1>1 DEF IdsOK, HoldsOK, MarkOK, SettledOK, ComingOK, StampOK, HumanWins
<1>4. HandedOK
  BY DEF HandedOK, Pushed
<1>5. CopiesOK
  <2>1. \A m \in Customer : Nowhere(m) /\ answered[m] = 0
    BY <1>1 DEF Nowhere, Lies, Unspent
  <2>2. \A m \in Customer : Once(m)
    BY <2>1 DEF Once, Sole, Nowhere
  <2> QED BY <2>2 DEF CopiesOK
<1> QED BY <1>2, <1>3, <1>4, <1>5 DEF IInv, Base

LEMMA NextHolds ==
  ASSUME IInv, [Next]_vars
  PROVE  IInv'
<1>1. CASE Next
  BY <1>1, BaseStep, SendStep, HandStep, ComesStep, CopiesStep DEF IInv
<1>2. CASE UNCHANGED vars
  <2>1. Base'
    BY <1>2 DEF IInv, Base, TypeOK, IdsOK, HoldsOK, vars, Running
  <2>2. MarkOK' /\ StampOK' /\ HumanWins'
    BY <1>2 DEF IInv, MarkOK, StampOK, HumanWins, In, vars, Running
  <2>3. SettledOK' /\ HandedOK'
    BY <1>2 DEF IInv, SettledOK, HandedOK, Done, Waits, Claimed, Pushed, vars, Running
  <2>4. ComingOK'
    BY <1>2 DEF IInv, ComingOK, Comes, IntakeComes, TurnComes, Fresh, vars, Running
  <2>5. CopiesOK'
    BY <1>2 DEF IInv, CopiesOK, Once, Nowhere, Sole, Lies, Unspent, In, Pushed, vars, Running
  <2> QED BY <2>1, <2>2, <2>3, <2>4, <2>5 DEF IInv
<1> QED BY <1>1, <1>2

(* In every chat, whatever fails, dies, expires or is cancelled: numbers   *)
(* are not ahead of the sequence, claims are held by the turns that need   *)
(* them, a message that was handed over is kept or settled, a buffer that  *)
(* no named failure has stranded has something coming, the stamps stand in *)
(* order, and no message is in two places.                                 *)
THEOREM ChatHolds == Spec => []IInv
<1>1. Init => IInv
  BY InitHolds
<1>2. IInv /\ [Next]_vars => IInv'
  BY NextHolds
<1> QED BY <1>1, <1>2, PTL DEF Spec

(* A turn sends over a person's reply only for the three reasons that      *)
(* HumanWins names, whenever replies are recorded and stamped.             *)
THEOREM PersonWins == Spec => []HumanWins
<1>1. IInv => HumanWins
  BY DEF IInv
<1> QED BY <1>1, ChatHolds, PTL

(* What is left in the buffer will be claimed or cancelled, unless a       *)
(* failure that the code only logs has stranded it.                        *)
LEMMA ComesComing ==
  ASSUME Comes
  PROVE  Coming
BY DEF Comes, Coming, IntakeComes, Unarmed, TurnComes, Back

(* No message that was handed over is lost, and none is stranded but by a  *)
(* named failure: direct replies, failed cancellations, releases that fail *)
(* and stale claims included.                                              *)
THEOREM NothingLost == Spec => []NoneLost
<1>1. IInv => TypeOK
  BY DEF IInv, Base
<1>2. IInv => Accounted
  BY DEF IInv, Base, TypeOK, HandedOK, Accounted, Done
<1>3. IInv => NotStranded
  BY ComesComing DEF IInv, ComingOK, NotStranded
<1>4. IInv => NoneLost
  BY <1>1, <1>2, <1>3 DEF NoneLost
<1> QED BY <1>4, ChatHolds, PTL

(* A spot is a place where the message lies.                               *)
LEMMA SpotsAre ==
  ASSUME NEW m, NEW p \in Spots(m)
  PROVE  \E n, i : p = <<n, i>> /\ Lies(m, n, i)
<1>1. CASE p \in {<<Free, i>> : i \in {j \in DOMAIN pend : pend[j] = m}}
  <2>1. PICK i \in DOMAIN pend : pend[i] = m /\ p = <<Free, i>>
    BY <1>1
  <2> QED BY <2>1 DEF Lies
<1>2. CASE p \in UNION {{<<n, i>> : i \in {j \in DOMAIN scratch[n] : scratch[n][j] = m}} : n \in Unspent}
  <2>1. PICK n \in Unspent : p \in {<<n, i>> : i \in {j \in DOMAIN scratch[n] : scratch[n][j] = m}}
    BY <1>2
  <2>2. PICK i \in DOMAIN scratch[n] : scratch[n][i] = m /\ p = <<n, i>>
    BY <2>1
  <2> QED BY <2>1, <2>2 DEF Lies
<1> QED BY <1>1, <1>2 DEF Spots

(* Each message is answered at most once and waits in one place, but for   *)
(* those whose intake failed after the push and those whose claim outlived *)
(* its answer.                                                             *)
THEOREM AnsweredOnce == Spec => []OnceEach
<1>1. ASSUME IInv PROVE OnceEach
  <2>1. ASSUME NEW m \in Customer \ flawed
        PROVE  /\ answered[m] <= 1 /\ (answered[m] = 1 => Spots(m) = {})
               /\ \A p, q \in Spots(m) : p = q
    <3>1. Once(m)
      BY <1>1 DEF IInv, CopiesOK
    <3>2. answered[m] <= 1
      BY <3>1 DEF Once
    <3>3. ASSUME answered[m] = 1 PROVE Spots(m) = {}
      BY <3>1, <3>3, SpotsAre DEF Once, Nowhere
    <3>4. ASSUME NEW p \in Spots(m), NEW q \in Spots(m) PROVE p = q
      <4>1. PICK n, i : p = <<n, i>> /\ Lies(m, n, i)
        BY SpotsAre
      <4>2. PICK k, j : q = <<k, j>> /\ Lies(m, k, j)
        BY SpotsAre
      <4>3. n = k /\ i = j
        BY <3>1, <4>1, <4>2 DEF Once, Sole
      <4> QED BY <4>1, <4>2, <4>3
    <3> QED BY <3>2, <3>3, <3>4
  <2> QED BY <2>1 DEF OnceEach
<1>2. IInv => OnceEach
  BY <1>1
<1> QED BY <1>2, ChatHolds, PTL
=============================================================================
