---------------------------- MODULE MCCompanion -----------------------------
(***************************************************************************)
(* What two clients write, and how much news the mesh has for them.  A     *)
(* command is its marker, its length, its code and its arguments.          *)
(***************************************************************************)
EXTENDS Companion, SequencesExt

\* Clients that write whole frames, and clients whose writes end anywhere.
Ends(frames) == {Len(FlattenSeq(SubSeq(frames, 1, i))) : i \in 1..Len(frames)}
Whole(one, two, n) == [writes |-> <<FlattenSeq(one), FlattenSeq(two)>>,
                       cuts |-> <<Ends(one), Ends(two)>>, news |-> n]
Anyhow(one, two, n) == [writes |-> <<one, two>>, cuts |-> <<1..Len(one), 1..Len(two)>>, news |-> n]

Cmd(code) == <<60, 1, code>>
Cmd1(code, arg) == <<60, 2, code, arg>>
Cmd2(code, arg, more) == <<60, 3, code, arg, more>>

AllScenarios ==
  { \* apps that start and collect their messages; the second takes over
    Whole(<<Cmd(1), Cmd(10)>>, <<Cmd(1), Cmd(10)>>, <<{"message"}, {"message"}>>),
    Whole(<<Cmd(1), Cmd(10)>>, <<>>, <<{"message"}, {"message"}, {"message"}>>),
    \* a client that only asks, after one that started
    Whole(<<Cmd(1)>>, <<Cmd(22), Cmd(28)>>, <<{"nothing", "ack"}, {"message"}>>),
    \* junk, lengths that cannot be, an empty frame, a marker among arguments
    Anyhow(<<7, 62, 60, 9>> \o Cmd(22) \o <<60, 0>> \o Cmd1(30, 60) \o Cmd(5), Cmd(29), <<>>),
    \* contacts are added until there is no room, listed and written to
    Whole(<<Cmd2(9, 1, 1), Cmd2(9, 60, 0), Cmd2(9, 3, 0), Cmd(4), Cmd1(2, 60)>>, <<>>, <<>>),
    Whole(<<Cmd2(9, 1, 1), Cmd1(13, 1), Cmd1(15, 1), Cmd1(15, 1)>>, <<Cmd1(2, 1)>>, <<>>),
    Whole(<<Cmd(1), Cmd2(9, 1, 0)>>, <<>>, <<{"advert"}, {"path", "path with ack"}>>),
    \* every other command, and one that is too short
    Whole(<<Cmd(17), Cmd1(6, 1), Cmd(17), Cmd1(16, 1), Cmd(7), Cmd(13)>>, <<>>, <<>>),
    Whole(<<Cmd1(3, 0), Cmd2(32, 0, 0), Cmd1(3, 0), Cmd1(31, 1), Cmd2(32, 2, 1)>>, <<>>, <<>>),
    Whole(<<Cmd1(8, 0), Cmd1(8, 1), Cmd1(14, 1), Cmd1(12, 255), Cmd(20)>>, <<>>, <<>>),
    Whole(<<Cmd1(11, 1), Cmd2(11, 2, 1), Cmd1(21, 0), Cmd(43), Cmd(0)>>, <<>>, <<>>) }
=============================================================================
