----------------------------- MODULE MCDataMgr ------------------------------
(* DataMgr for TLC: the map files and, in the .cfg files, the other        *)
(* constants.                                                              *)
EXTENDS DataMgr

\* Two sensors, one line each.
Plain == << <<1, 2>>, <<2, 3>> >>

\* A blank line after a sensor repeats it; a line with a room only gives the
\* room the sensor of the line before; id 0 is listed.
Odd == << <<1, 2>>, <<>>, <<7>>, <<8, 0>> >>

MCMaps == {Plain, Odd, <<>>}
PlainMap == {Plain}
=============================================================================
