-------------------------- MODULE MCSearchWindow --------------------------
(* Instances of SearchWindow for TLC. *)
EXTENDS SearchWindow

Always(offset) == [before |-> offset, after |-> offset, change |-> 0]

\* The change happens on day 1 when the wall clock shows `wall`.
Change(before, after, wall) ==
  [before |-> before, after |-> after, change |-> Minutes + wall - before]

\* London, Lord Howe, Havana, the Azores, Beirut, Nuuk in spring and in autumn;
\* Samoa, which skipped a day; St John's in the years when it changed at 00:01.
Changing ==
  {Change(0, 60, 60), Change(60, 0, 120), Change(630, 660, 120), Change(660, 630, 120),
   Change(-300, -240, 0), Change(-240, -300, 60), Change(-60, 0, 0), Change(0, -60, 60),
   Change(120, 180, 0), Change(180, 120, 0), Change(-120, -60, -60), Change(-60, -120, 0),
   Change(-600, 840, 0), Change(-210, -150, 1), Change(-150, -210, 1)}

MCZone == [user : Changing \cup {Always(o) : o \in {-720, -300, 0, 60, 120, 330, 840}},
           server : {-720, -60, 0, 60, 330, 840}]

\* To the minute around every full hour of the days and beyond.
MCInstant == {60 * h + m : h \in -24 .. 96, m \in {-1, 0}}

\* A user in London in summer, a server in central Europe.
LondonBerlin == {[user |-> Always(60), server |-> 120]}
=============================================================================
