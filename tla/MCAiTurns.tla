----------------------------- MODULE MCAiTurns -----------------------------
(* Two messages and two replies in one chat, and one trouble or two at a time. *)
EXTENDS AiTurns

Quiet == [what \in Troubles |-> 0]
With(c, what, n) == [c EXCEPT ![what] = n]
Chat(sent, replies, ticks) == With(With(With(Quiet, "sent", sent), "replies", replies), "ticks", ticks)

MCCases ==
  {With(Chat(2, 0, 0), "faults", 1),
   With(With(Chat(2, 0, 0), "crashes", 1), "timeouts", 1),
   With(With(With(Chat(2, 0, 0), "lapses", 1), "timeouts", 2), "switches", 1),
   With(Chat(2, 1, 0), "lapses", 1),
   Chat(1, 2, 2),
   With(With(Chat(1, 1, 0), "faults", 1), "crashes", 1)}
=============================================================================
