-------------------------- MODULE MCUiBreakpoints --------------------------
(* The breakpoints of the user interface, for TLC: on two lines of a file    *)
(* and one line of another file of the same name, and one item in each of    *)
(* the other lists.                                                          *)
EXTENDS UiBreakpoints

CONSTANTS main, util,    \* files
          raised         \* an exception filter, also a name and an id

ThreeSites == {<<main, 1>>, <<main, 2>>, <<util, 1>>}
=============================================================================
