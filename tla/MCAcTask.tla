------------------------------ MODULE MCAcTask ------------------------------
(* AcTask for TLC: two temperatures, modes 0 (neither), 1 and 2.             *)
EXTENDS AcTask

MCTemp == 0 .. 1
MCMode == 0 .. 2
MCInitial == {[power |-> 0, mode |-> Heating, cool |-> 0, heat |-> 1]}

\* Every setting is commanded, alone or in a frame with one of the mirrors, which
\* raises a flag that nobody lowers.
MCFrames == {<<"power">>, <<"mode", "cool">>, <<"heat", "set">>}
MCLines == BOOLEAN

\* For liveness: the mode, and the setpoint with the mirror it is copied from in
\* heating.  A reliable line has fewer behaviours, and is left out.
MCModeAndSet == {<<"mode">>, <<"heat", "set">>}
MCUnreliable == {FALSE}
=============================================================================
