------------------------------ MODULE AiTurns ------------------------------
(***************************************************************************)
(* The AI's turns in one WhatsApp chat.  A customer message is pushed on a *)
(* Redis list and a delayed job is armed under a sequence number; further  *)
(* messages push its delay back; when it fires it renames the whole list   *)
(* to a scratch list of its own, and answers it under a Redis lock unless  *)
(* a person has replied.  A turn that throws puts its claim back and arms  *)
(* another job; one that returns deletes it.                               *)
(*                                                                         *)
(* Every call to Redis, to the queue or to the provider that another step  *)
(* can meet is a step: intake, turns and people's replies go on between    *)
(* each other's steps.  A call that took effect and threw is the step and  *)
(* then a failure before the next one.  A message is its id; time passes   *)
(* in ticks.  A job under a number is delayed (or due), running, or failed *)
(* and kept, and the queue ignores a job added under a number it still     *)
(* has.  The model, its prompt, history, credits, the age limit of a       *)
(* message, the disconnection of the number and the expiry of Redis keys   *)
(* other than the lock are left out.                                       *)
(***************************************************************************)
EXTENDS Integers, Sequences, FiniteSets, SequencesExt

CONSTANTS Customer,    \* ids of customer messages
          Replies,     \* ids of people's replies
          MaxPending,  \* AI_PENDING_MAX, the longest buffer
          Silence,     \* AI_HUMAN_SILENCE_MINUTES, in ticks
          Cases        \* how much of each trouble may come

Troubles == {"sent",     \* customer messages
             "replies",  \* people's replies
             "ticks",    \* ticks of the clock
             "faults",   \* calls that fail
             "crashes",  \* processes that die
             "lapses",   \* locks that expire under their holder
             "timeouts", \* waits for the lock that run out
             "switches"} \* the AI being turned off

ASSUME AiTurnsAssumption ==
  /\ Customer \subseteq Nat /\ Replies \subseteq Nat /\ IsFiniteSet(Customer)
  /\ MaxPending \in Nat \ {0} /\ Silence \in Nat \ {0}
  /\ \A c \in Cases : c \in [Troubles -> Nat]

VARIABLES left,      \* what may still come
          enabled,   \* the company's AI switch
          now,       \* the clock
          intake,    \* handleIncomingMessage for each message: the next step, the job id it read
          marked,    \* wa:ai:dispatched:*
          pend,      \* wa:ai:pend, the buffer
          seq,       \* wa:ai:seq
          delayed,   \* numbers of jobs that will run
          failed,    \* numbers of failed jobs, kept
          turns,     \* the running jobs: number -> step, lock, flushStartedAt, job id read
          scratch,   \* wa:ai:pend:*:take:*, the claims: number -> list
          lock,      \* wa:ai:lock: the number of the job that took it, or Free
          calls,     \* recordHumanReply for each reply: the next step, its stamp, the job id it read
          lastReply, \* wa:ai:human
          answered,  \* how often each message was answered
          flawed,    \* history: messages whose intake failed after the push, or whose claim
                     \* outlived their answer
          gone,      \* history: messages given up, for a reason the code names
          stuck,     \* history: a failure left the buffer without a job
          spoken,    \* history: replies whose stamp was written, or found to be old
          overtaken  \* history: replies whose stamp an older one overwrote

vars == <<left, enabled, now, intake, marked, pend, seq, delayed, failed, turns, scratch, lock, calls,
          lastReply, answered, flawed, gone, stuck, spoken, overtaken>>
jobs == <<seq, delayed, failed>>
buffer == <<pend, jobs, stuck>>
world == <<enabled, now>>
people == <<calls, lastReply, spoken, overtaken>>
messages == <<intake, marked>>
fate == <<answered, flawed, gone>>

Free == -1
Running == DOMAIN turns
Exists(n) == n \in delayed \union failed \union Running
Drop(f, n) == [k \in DOMAIN f \ {n} |-> f[k]]
Put(f, n, x) == [k \in DOMAIN f \union {n} |-> IF k = n THEN x ELSE f[k]]
NewTurn == [at |-> "claim", lock |-> "none", since |-> 0, id |-> 0, unseen |-> {}]

\* No reply yet is one so old that its silence is over.
Init ==
  /\ left \in Cases /\ enabled = TRUE /\ now = 0
  /\ intake = [m \in Customer |-> [at |-> "none", id |-> 0]]
  /\ marked = {} /\ pend = <<>> /\ seq = 0 /\ delayed = {} /\ failed = {}
  /\ turns = <<>> /\ scratch = <<>> /\ lock = Free
  /\ calls = [r \in Replies |-> [at |-> "none", stamp |-> 0, id |-> 0]] /\ lastReply = -Silence
  /\ answered = [m \in Customer |-> 0] /\ flawed = {} /\ gone = {} /\ stuck = FALSE
  /\ spoken = {} /\ overtaken = {}

Use(what) == left[what] > 0 /\ left' = [left EXCEPT ![what] = @ - 1]

\* queue.add under a number: ignored when the queue still has it.
AddJob(n) ==
  /\ delayed' = IF Exists(n) THEN delayed ELSE delayed \union {n}
  /\ stuck' = (stuck /\ n \in failed \union Running)

\* A failure after which nothing goes on to arm a job.
Strand(cond) == stuck' = (stuck \/ (cond /\ pend # <<>> /\ delayed = {}))

-----------------------------------------------------------------------------
(* Intake: handleIncomingMessage. *)

To(m, step) == intake' = [intake EXCEPT ![m].at = step]
At(m, step) == intake[m].at = step

\* The webhook hands a stored customer message over; ids count them as they come.
Receive(m) ==
  /\ At(m, "none") /\ Use("sent")
  /\ \A k \in Customer : k < m => ~At(k, "none")
  /\ To(m, "check")
  /\ UNCHANGED <<world, marked, buffer, turns, scratch, lock, people, fate>>

\* A message that is marked ends it; so does the AI off, or a switch that cannot be read, and
\* then what a failed attempt has buffered stays.
Check(m) ==
  /\ At(m, "check")
  /\ \/ enabled /\ m \notin marked /\ To(m, "push") /\ UNCHANGED <<left, stuck>>
     \/ enabled /\ m \in marked /\ To(m, "done") /\ UNCHANGED <<left, stuck>>
     \/ /\ (~enabled /\ UNCHANGED left) \/ Use("faults")
        /\ To(m, "done") /\ Strand(m \in flawed)
  /\ UNCHANGED <<world, marked, pend, jobs, turns, scratch, lock, people, fate>>

\* listLength: a full buffer drops the message and goes on.
Push(m) ==
  /\ At(m, "push")
  /\ \/ Len(pend) < MaxPending /\ To(m, "append") /\ UNCHANGED gone
     \/ Len(pend) >= MaxPending /\ To(m, "seq") /\ gone' = gone \union {m}
  /\ UNCHANGED <<left, world, marked, buffer, turns, scratch, lock, people, answered, flawed>>

\* pushList, on a list that may have grown since.
PushList(m) ==
  /\ At(m, "append")
  /\ pend' = Append(pend, m)
  /\ To(m, "seq")
  /\ UNCHANGED <<left, world, marked, jobs, stuck, turns, scratch, lock, people, fate>>

ReadSeq(m) ==
  /\ At(m, "seq")
  /\ intake' = [intake EXCEPT ![m] = [at |-> "job", id |-> seq]]
  /\ UNCHANGED <<left, world, marked, buffer, turns, scratch, lock, people, fate>>

FindJob(m) ==
  /\ At(m, "job")
  /\ To(m, IF Exists(intake[m].id) THEN "move" ELSE "add")
  /\ UNCHANGED <<left, world, marked, buffer, turns, scratch, lock, people, fate>>

\* A job that refuses is taken for one that will run.
Move_Trust(m) ==
  /\ At(m, "move")
  /\ To(m, "mark") /\ stuck' = FALSE
  /\ UNCHANGED <<left, world, marked, pend, jobs, turns, scratch, lock, people, fate>>

\* The job's delay is pushed back; one that is due, running, failed or gone refuses, and the
\* sequence moves on.
Move(m) ==
  /\ At(m, "move")
  /\ \/ /\ intake[m].id \in delayed
        /\ To(m, "mark") /\ stuck' = FALSE /\ UNCHANGED seq
     \/ /\ seq' = seq + 1 /\ UNCHANGED stuck
        /\ intake' = [intake EXCEPT ![m] = [at |-> "add", id |-> seq + 1]]
  /\ UNCHANGED <<left, world, marked, pend, delayed, failed, turns, scratch, lock, people, fate>>

Arm(m) ==
  /\ At(m, "add")
  /\ AddJob(intake[m].id)
  /\ To(m, "mark")
  /\ UNCHANGED <<left, world, marked, pend, seq, failed, turns, scratch, lock, people, fate>>

\* Set only after buffering and scheduling succeed.
Mark(m) ==
  /\ At(m, "mark")
  /\ marked' = marked \union {m}
  /\ To(m, "done")
  /\ UNCHANGED <<left, world, buffer, turns, scratch, lock, people, fate>>

\* Another message of its envelope fails, and the webhook's job hands all of them over again.
Again(m) ==
  /\ At(m, "done") /\ Use("faults")
  /\ To(m, "check")
  /\ UNCHANGED <<world, marked, buffer, turns, scratch, lock, people, fate>>

Busy(m) == intake[m].at \notin {"none", "done"}
Pushed(m) == intake[m].at \in {"seq", "job", "move", "add", "mark"}
Unarmed(m) == \/ intake[m].at \in {"seq", "job", "move", "add"}
              \/ intake[m].at \in {"check", "push", "append"} /\ m \in flawed \ marked

\* A call fails, and the webhook's job runs the hand-off again; or the process dies, and the
\* webhook takes the stored message for a redelivery.
IntakeFails(m) ==
  /\ Busy(m)
  /\ \/ Use("faults") /\ To(m, "check") /\ UNCHANGED stuck
     \/ Use("crashes") /\ To(m, "done") /\ Strand(Unarmed(m))
  /\ flawed' = IF Pushed(m) THEN flawed \union {m} ELSE flawed
  /\ UNCHANGED <<world, marked, pend, jobs, turns, scratch, lock, people, answered, gone>>

-----------------------------------------------------------------------------
(* A turn: the debounce processor. *)

In(n, step) == n \in Running /\ turns[n].at = step
Go(n, step) == turns' = [turns EXCEPT ![n].at = step]
Claimed(n) == IF n \in DOMAIN scratch THEN ToSet(scratch[n]) ELSE {}

\* The lock is given back, unless that fails and it expires.
Unlock(n) == lock' \in {lock, IF turns[n].lock = "held" THEN Free ELSE lock}

\* The job's delay is over.
Fire(n) ==
  /\ n \in delayed
  /\ delayed' = delayed \ {n}
  /\ turns' = Put(turns, n, NewTurn)
  /\ UNCHANGED <<left, world, messages, pend, seq, failed, stuck, scratch, lock, people, fate>>

\* takeDebouncedBuffer: the sequence moves on before the buffer is renamed.
Claim(n) ==
  /\ In(n, "claim")
  /\ seq' = seq + 1 /\ Go(n, "rename")
  /\ UNCHANGED <<left, world, messages, pend, delayed, failed, stuck, scratch, lock, people, fate>>

\* The buffer is copied, and not renamed.
Rename_Copies(n) ==
  /\ In(n, "rename")
  /\ IF pend = <<>> THEN turns' = Drop(turns, n) /\ UNCHANGED scratch
     ELSE Go(n, "lock") /\ scratch' = Put(scratch, n, pend)
  /\ UNCHANGED <<left, world, messages, buffer, lock, people, fate>>

\* With nothing to rename the job is done.  Otherwise the claim takes the place of any list
\* that an earlier run under the number has left; the job reads it back.
Rename(n) ==
  /\ In(n, "rename")
  /\ IF pend = <<>> THEN turns' = Drop(turns, n) /\ UNCHANGED scratch
     ELSE Go(n, "lock") /\ scratch' = Put(scratch, n, pend)
  /\ pend' = <<>> /\ stuck' = FALSE
  /\ UNCHANGED <<left, world, messages, jobs, lock, people, fate>>

\* acquireChatLock, and the wait for it running out.
Acquire(n) ==
  /\ In(n, "lock") /\ lock = Free
  /\ lock' = n /\ turns' = [turns EXCEPT ![n].at = "begin", ![n].lock = "held"]
  /\ UNCHANGED <<left, world, messages, buffer, scratch, people, fate>>

LockTimeout(n) ==
  /\ In(n, "lock") /\ lock # Free /\ Use("timeouts")
  /\ turns' = [turns EXCEPT ![n].at = "restore", ![n].lock = "timeout"]
  /\ UNCHANGED <<world, messages, buffer, scratch, lock, people, fate>>

\* The lock expires under its holder, who learns of it at its next renewal.
Lapse(n) ==
  /\ lock = n /\ n \in Running /\ turns[n].lock = "held" /\ Use("lapses")
  /\ lock' = Free /\ turns' = [turns EXCEPT ![n].lock = "lapsed"]
  /\ UNCHANGED <<world, messages, buffer, scratch, people, fate>>

Renew(n) ==
  /\ n \in Running /\ turns[n].lock = "lapsed"
  /\ turns' = [turns EXCEPT ![n].lock = "lost"]
  /\ UNCHANGED <<left, world, messages, buffer, scratch, lock, people, fate>>

\* The lock expires when no running turn renews it.
Expire ==
  /\ lock # Free /\ ~(lock \in Running /\ turns[lock].lock = "held")
  /\ lock' = Free
  /\ UNCHANGED <<left, world, messages, buffer, turns, scratch, people, fate>>

\* The turn returns without an answer, and its claim is given up.
Over(n) ==
  /\ turns' = [turns EXCEPT ![n].at = "over", ![n].lock = "none"] /\ Unlock(n)
  /\ gone' = gone \union Claimed(n)

\* processMessage: the switch, then the silence, then the baseline for a reply that lands mid-turn.
Begin(n) ==
  /\ In(n, "begin")
  /\ \/ enabled /\ Go(n, "silence") /\ UNCHANGED <<lock, gone>>
     \/ ~enabled /\ Over(n)
  /\ UNCHANGED <<left, world, messages, buffer, scratch, people, answered, flawed>>

\* isHumanSilenceActive
Silent == now - lastReply < Silence

CheckSilence(n) ==
  /\ In(n, "silence")
  /\ \/ ~Silent /\ Go(n, "start") /\ UNCHANGED <<lock, gone>>
     \/ Silent /\ Over(n)
  /\ UNCHANGED <<left, world, messages, buffer, scratch, people, answered, flawed>>

\* flushStartedAt; the model, if the text needs one, composes a reply.
FlushStarts(n) ==
  /\ In(n, "start")
  /\ turns' = [turns EXCEPT ![n].at = "guard", ![n].since = now]
  /\ UNCHANGED <<left, world, messages, buffer, scratch, lock, people, fate>>

\* The switch cannot be read; or the credit, the model, the last look or the send fails, which
\* processMessage catches and logs.
NoReply(n) ==
  /\ n \in Running /\ turns[n].at \in {"begin", "guard", "send"} /\ Use("faults")
  /\ Over(n)
  /\ UNCHANGED <<world, messages, buffer, scratch, people, answered, flawed>>

\* humanTookOverSince
TookOver(n) == Silent \/ lastReply > turns[n].since

\* Only the silence is looked at, not the reply.
Guard_Silence(n) ==
  /\ In(n, "guard")
  /\ \/ turns[n].lock # "lost" /\ ~Silent /\ Go(n, "send") /\ UNCHANGED <<lock, gone>>
     \/ (turns[n].lock = "lost" \/ Silent) /\ Over(n)
  /\ UNCHANGED <<left, world, messages, buffer, scratch, people, answered, flawed>>

Guard(n) ==
  /\ In(n, "guard")
  /\ \/ turns[n].lock # "lost" /\ ~TookOver(n) /\ Go(n, "send") /\ UNCHANGED <<lock, gone>>
     \/ (turns[n].lock = "lost" \/ TookOver(n)) /\ Over(n)
  /\ UNCHANGED <<left, world, messages, buffer, scratch, people, answered, flawed>>

Answer(n) ==
  answered' = [m \in Customer |-> IF m \in Claimed(n) THEN answered[m] + 1 ELSE answered[m]]

Send(n) ==
  /\ In(n, "send")
  /\ Answer(n)
  /\ turns' = [turns EXCEPT ![n].at = "sent", ![n].lock = "none"] /\ Unlock(n)
  /\ UNCHANGED <<left, world, messages, buffer, scratch, people, flawed, gone>>

\* releaseClaimedBuffer, after a turn that answered ("sent") or did not ("over").
Release(n) ==
  /\ In(n, "sent") \/ In(n, "over")
  /\ scratch' = Drop(scratch, n) /\ turns' = Drop(turns, n)
  /\ UNCHANGED <<left, world, messages, buffer, lock, people, fate>>

\* The claim outlives its answer: a later run under the number can restore it.
Outlives(n) == flawed' = IF In(n, "sent") THEN flawed \union Claimed(n) ELSE flawed

\* It fails, maybe after it took effect; the job fails, and restores nothing.
ReleaseFails(n) ==
  /\ In(n, "sent") \/ In(n, "over")
  /\ Use("faults") /\ Outlives(n)
  /\ scratch' \in {scratch, Drop(scratch, n)} /\ turns' = Drop(turns, n)
  /\ failed' = failed \union {n}
  /\ UNCHANGED <<world, messages, pend, seq, delayed, stuck, lock, people, answered, gone>>

-----------------------------------------------------------------------------
(* A turn that throws: restoreClaimedBuffer. *)

\* A call outside the turn's own try fails: the claim's, the lock's, the silence's, the history's,
\* and the last look and the send of the direct-contact reply, which may have been delivered.
TurnThrows(n) ==
  /\ n \in Running /\ turns[n].at \in {"claim", "rename", "lock", "silence", "guard", "send"}
  /\ Use("faults")
  /\ turns' = [turns EXCEPT ![n].at = "restore", ![n].lock = "none"] /\ Unlock(n)
  /\ \/ UNCHANGED <<answered, flawed>>
     \/ In(n, "send") /\ Answer(n) /\ flawed' = flawed \union Claimed(n)
  /\ UNCHANGED <<world, messages, buffer, scratch, people, gone>>

\* A turn that gave up on the lock completes; any other fails, and is kept.
Fails(n) ==
  /\ turns' = Drop(turns, n)
  /\ failed' = IF turns[n].lock = "timeout" THEN failed ELSE failed \union {n}

\* The scratch list is read and deleted (and is the worker's own from here); without one there
\* is nothing to hand back, whatever the buffer holds.
ReadScratch(n) ==
  /\ In(n, "restore")
  /\ \/ n \in DOMAIN scratch /\ Go(n, "prepend") /\ UNCHANGED <<failed, stuck>>
     \/ n \notin DOMAIN scratch /\ Fails(n) /\ Strand(TRUE)
  /\ UNCHANGED <<left, world, messages, pend, seq, delayed, scratch, lock, people, fate>>

\* The claim goes back in the buffer's place.
Prepend_Over(n) ==
  /\ In(n, "prepend")
  /\ pend' = scratch[n] /\ scratch' = Drop(scratch, n) /\ Go(n, "reseq")
  /\ UNCHANGED <<left, world, messages, jobs, stuck, lock, people, fate>>

\* The claim goes back in front; what does not fit is dropped, oldest first.
Kept(list) == SubSeq(list, IF Len(list) > MaxPending THEN Len(list) - MaxPending + 1 ELSE 1, Len(list))

Prepend(n) ==
  /\ In(n, "prepend")
  /\ pend' = Kept(scratch[n] \o pend)
  /\ gone' = gone \union (ToSet(scratch[n] \o pend) \ ToSet(pend'))
  /\ scratch' = Drop(scratch, n) /\ Go(n, "reseq")
  /\ UNCHANGED <<left, world, messages, jobs, stuck, lock, people, answered, flawed>>

RestoreSeq(n) ==
  /\ In(n, "reseq")
  /\ turns' = [turns EXCEPT ![n].at = "rejob", ![n].id = seq]
  /\ UNCHANGED <<left, world, messages, buffer, scratch, lock, people, fate>>

\* A job that will still run is left alone; one that will not makes the sequence move on.
RestoreJob(n) ==
  /\ In(n, "rejob")
  /\ LET id == turns[n].id IN
       \/ id \in delayed /\ Fails(n) /\ UNCHANGED seq
       \/ /\ Exists(id) /\ id \notin delayed /\ seq' = seq + 1 /\ UNCHANGED failed
          /\ turns' = [turns EXCEPT ![n].at = "readd", ![n].id = seq + 1]
       \/ ~Exists(id) /\ Go(n, "readd") /\ UNCHANGED <<seq, failed>>
  /\ UNCHANGED <<left, world, messages, pend, delayed, stuck, scratch, lock, people, fate>>

Rearm(n) ==
  /\ In(n, "readd")
  /\ AddJob(turns[n].id) /\ Fails(n)
  /\ UNCHANGED <<left, world, messages, pend, seq, scratch, lock, people, fate>>

\* What is left of the claim when its turn ends before it is back.
Left(n) == scratch' = IF In(n, "prepend") THEN Drop(scratch, n) ELSE scratch

\* A restore that fails is logged and no more.
RestoreFails(n) ==
  /\ n \in Running /\ turns[n].at \in {"restore", "prepend", "reseq", "rejob", "readd"} /\ Use("faults")
  /\ Fails(n) /\ Left(n) /\ gone' = gone \union Claimed(n) /\ Strand(TRUE)
  /\ UNCHANGED <<world, messages, pend, seq, delayed, lock, people, answered, flawed>>

\* The worker dies: its lock expires, its scratch list stays, and the stalled job runs again or,
\* having stalled too often, fails.
TurnDies(n) ==
  /\ n \in Running /\ Use("crashes")
  /\ turns' = Drop(turns, n) /\ Left(n) /\ gone' = gone \union Claimed(n) /\ Outlives(n)
  /\ \/ delayed' = delayed \union {n} /\ UNCHANGED <<failed, stuck>>
     \/ failed' = failed \union {n} /\ UNCHANGED delayed /\ Strand(TRUE)
  /\ UNCHANGED <<world, messages, pend, seq, lock, people, answered>>

-----------------------------------------------------------------------------
(* People: recordHumanReply, for a reply on the dashboard or an echo of one on the phone. *)

Call(r, step) == calls' = [calls EXCEPT ![r].at = step]
Calling(r) == calls[r].at \notin {"none", "done"}

\* Replies recorded from now on were not there when a turn that is sending looked.
Unseen(r) ==
  turns' = [n \in Running |-> IF In(n, "send") THEN [turns[n] EXCEPT !.unseen = @ \union {r}] ELSE turns[n]]

\* A dashboard's reply bears the time; an echo may come late, and its stamp is in whole seconds;
\* a stamp ahead of the clock is set to it.
Reply(r) ==
  /\ calls[r].at = "none" /\ Use("replies")
  /\ \A q \in Replies : q < r => calls[q].at # "none"
  /\ \E stamp \in 0..now : calls' = [calls EXCEPT ![r] = [at |-> "read", stamp |-> stamp, id |-> 0]]
  /\ UNCHANGED <<world, messages, buffer, turns, scratch, lock, lastReply, spoken, overtaken, fate>>

\* A replayed older reply changes nothing.
ReadStamp(r) ==
  /\ calls[r].at = "read"
  /\ \/ lastReply >= calls[r].stamp /\ Call(r, "done") /\ spoken' = spoken \union {r} /\ Unseen(r)
     \/ lastReply < calls[r].stamp /\ Call(r, "stamp") /\ UNCHANGED <<spoken, turns>>
  /\ UNCHANGED <<left, world, messages, buffer, scratch, lock, lastReply, overtaken, fate>>

\* The stamp is written, over whatever is there by now.
WriteStamp(r) ==
  /\ calls[r].at = "stamp"
  /\ lastReply' = calls[r].stamp /\ Call(r, "seq")
  /\ spoken' = spoken \union {r} /\ Unseen(r)
  /\ overtaken' = overtaken \union {q \in spoken : calls[q].stamp > calls[r].stamp}
  /\ UNCHANGED <<left, world, messages, buffer, scratch, lock, fate>>

\* cancelPending
CancelSeq(r) ==
  /\ calls[r].at = "seq"
  /\ calls' = [calls EXCEPT ![r].at = "remove", ![r].id = seq]
  /\ UNCHANGED <<left, world, messages, buffer, turns, scratch, lock, lastReply, spoken, overtaken, fate>>

\* A running job refuses to be removed, or the call fails: that is only logged.
CancelJob(r) ==
  /\ calls[r].at = "remove"
  /\ \/ delayed' = delayed \ {calls[r].id} /\ failed' = failed \ {calls[r].id} /\ UNCHANGED left
     \/ Use("faults") /\ UNCHANGED <<delayed, failed>>
  /\ Call(r, "drop")
  /\ UNCHANGED <<world, messages, pend, seq, stuck, turns, scratch, lock, lastReply, spoken, overtaken, fate>>

CancelBuffer(r) ==
  /\ calls[r].at = "drop"
  /\ gone' = gone \union ToSet(pend) /\ pend' = <<>> /\ stuck' = FALSE
  /\ Call(r, "done")
  /\ UNCHANGED <<left, world, messages, jobs, turns, scratch, lock, lastReply, spoken, overtaken,
                 answered, flawed>>

\* A call of it fails or its process dies: the buffer stays when its job is gone already.  An
\* echo's job runs again, and finds its own stamp if that was written.
CallFails(r) ==
  /\ Calling(r)
  /\ Use("faults") \/ Use("crashes")
  /\ Call(r, "read") \/ Call(r, "done")
  /\ Strand(calls[r].at = "drop")
  /\ UNCHANGED <<world, messages, pend, jobs, turns, scratch, lock, lastReply, spoken, overtaken, fate>>

Tick ==
  /\ Use("ticks") /\ now' = now + 1
  /\ UNCHANGED <<enabled, messages, buffer, turns, scratch, lock, people, fate>>

SwitchOff ==
  /\ enabled /\ Use("switches")
  /\ enabled' = FALSE
  /\ UNCHANGED <<now, messages, buffer, turns, scratch, lock, people, fate>>

-----------------------------------------------------------------------------
IntakeStep(m) ==
  Check(m) \/ Push(m) \/ PushList(m) \/ ReadSeq(m) \/ FindJob(m) \/ Move(m) \/ Arm(m) \/ Mark(m)

TurnStep(n) ==
  \/ Claim(n) \/ Rename(n) \/ Acquire(n) \/ LockTimeout(n) \/ Begin(n) \/ CheckSilence(n) \/ FlushStarts(n)
  \/ Guard(n) \/ Send(n) \/ Release(n)
  \/ ReadScratch(n) \/ Prepend(n) \/ RestoreSeq(n) \/ RestoreJob(n) \/ Rearm(n)

CallStep(r) == ReadStamp(r) \/ WriteStamp(r) \/ CancelSeq(r) \/ CancelJob(r) \/ CancelBuffer(r)

Next ==
  \/ \E m \in Customer : Receive(m) \/ Again(m) \/ IntakeStep(m) \/ IntakeFails(m)
  \/ \E n \in delayed : Fire(n)
  \/ \E n \in Running : \/ TurnStep(n) \/ Lapse(n) \/ Renew(n) \/ NoReply(n) \/ ReleaseFails(n)
                        \/ TurnThrows(n) \/ RestoreFails(n) \/ TurnDies(n)
  \/ \E r \in Replies : Reply(r) \/ CallStep(r) \/ CallFails(r)
  \/ Expire \/ Tick \/ SwitchOff

\* While something can go on, something does: an intake, a job whose delay is over, a turn, a
\* reply's call, or the expiry of a lock that nobody renews.  No one of them is favoured.
Progress ==
  \/ \E m \in Customer : IntakeStep(m)
  \/ \E n \in delayed : Fire(n)
  \/ \E n \in Running : TurnStep(n)
  \/ \E r \in Replies : CallStep(r)
  \/ Expire

Spec == Init /\ [][Next]_vars /\ WF_vars(Progress)

-----------------------------------------------------------------------------
(* Properties. *)

IntakeSteps == {"none", "check", "push", "append", "seq", "job", "move", "add", "mark", "done"}
TurnSteps == {"claim", "rename", "lock", "begin", "silence", "start", "guard", "send", "sent", "over",
              "restore", "prepend", "reseq", "rejob", "readd"}
CallSteps == {"none", "read", "stamp", "seq", "remove", "drop", "done"}
Turn == [at : TurnSteps, lock : {"none", "held", "timeout", "lapsed", "lost"}, since : Nat, id : Nat,
         unseen : SUBSET Replies]

\* The shape of the state; who holds the lock runs; a job is in one place.
TypeOK ==
  /\ left \in [Troubles -> Nat] /\ enabled \in BOOLEAN /\ now \in Nat /\ stuck \in BOOLEAN
  /\ intake \in [Customer -> [at : IntakeSteps, id : Nat]]
  /\ calls \in [Replies -> [at : CallSteps, stamp : Nat, id : Nat]]
  /\ seq \in Nat /\ pend \in Seq(Customer)
  /\ delayed \union failed \union Running \subseteq 0..seq /\ Running \intersect delayed = {}
  /\ turns \in [Running -> Turn] /\ lock \in Int /\ lastReply \in Int
  /\ \A n \in Running : turns[n].since <= now /\ (turns[n].lock = "held" => lock = n)
  /\ DOMAIN scratch \subseteq 0..seq /\ scratch \in [DOMAIN scratch -> Seq(Customer)]
  /\ answered \in [Customer -> Nat] /\ flawed \subseteq Customer
  /\ gone \subseteq Customer /\ marked \subseteq Customer /\ spoken \subseteq Replies /\ overtaken \subseteq spoken

\* The lists whose messages may still be answered.
Unspent == {n \in DOMAIN scratch : ~In(n, "sent")}

\* Where a message is: list and place.
Spots(m) ==
  {<<Free, i>> : i \in {j \in DOMAIN pend : pend[j] = m}}
    \union UNION {{<<n, i>> : i \in {j \in DOMAIN scratch[n] : scratch[n][j] = m}} : n \in Unspent}

\* A message is answered at most once, and until then waits in one place, however claims, restores,
\* reruns and new messages overlap.  Except one whose intake failed after the push (it is buffered
\* again), and one whose claim outlived its answer: the send of a direct-contact reply threw after
\* the delivery, or the release of the claim failed, or the worker died before it.
OnceEach ==
  \A m \in Customer \ flawed :
    /\ answered[m] <= 1 /\ (answered[m] = 1 => Spots(m) = {})
    /\ \A p, q \in Spots(m) : p = q

\* A message waits in the buffer, or in the claim of a turn.
Waits(m) == m \in ToSet(pend) \/ \E n \in Running : m \in Claimed(n)

\* A message that was handed over is in the buffer, in a turn, answered, or given up for a
\* reason the code names: no claim, restore or cancellation loses one.
Accounted == \A m \in marked : answered[m] > 0 \/ m \in gone \/ Waits(m)

\* What will empty the buffer: a job, a call on its way to arm one, or a cancellation.
Coming ==
  \/ delayed # {}
  \/ \E r \in Replies : calls[r].at = "drop"
  \/ \E m \in Customer : Unarmed(m)
  \/ \E n \in Running : turns[n].at \in {"claim", "rename", "restore", "prepend", "reseq", "rejob", "readd"}

\* Messages never wait in the buffer with nothing coming for them, unless a failure that the code
\* only logs, or a death, has left them there.
NotStranded == (pend # <<>> /\ ~stuck) => Coming

\* A turn sends over a person's reply only when the reply was recorded after the turn's last look;
\* or was stamped no later than the turn began, and its silence is over (an echo that comes late,
\* or in the turn's first instant); or when its stamp was overwritten by an older one, written at
\* the same time.
HumanWins ==
  \A n \in Running : In(n, "send") =>
    \A r \in spoken \ (overtaken \union turns[n].unseen) :
      calls[r].stamp <= turns[n].since /\ now - calls[r].stamp >= Silence

\* What was buffered is answered or given up for a named reason.
Settles == \A m \in Customer : m \in ToSet(pend) ~> (answered[m] > 0 \/ m \in gone \/ stuck)

\* The repository's words: each id is buffered for a turn at most once.
BufferedOnce == \A m \in Customer : answered[m] + Cardinality(Spots(m)) <= 1

\* A message waits, is being answered, or was given up for a reason, and what waits
\* has a job that will come for it: no overlap of claims, restores, new messages
\* and a person's reply loses or strands one.
NoneLost == TypeOK /\ Accounted /\ NotStranded
=============================================================================
