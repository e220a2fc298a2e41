----------------------------- MODULE MCChannels -----------------------------
(***************************************************************************)
(* Constants for model-checking Channels.  The read requests: well-formed  *)
(* ones with and without an offset or a size, one that leaves no room, and *)
(* one with each hint that some driver refuses.                            *)
(***************************************************************************)
EXTENDS Channels

Req(src, dst, size) == [src |-> src, dst |-> dst, size |-> size]

MCRequests == {Req(NONE, 0, ANY), Req(NONE, 0, 1), Req(NONE, 1, 1), Req(NONE, BuffSz, ANY),
               Req(NONE, BuffSz + 1, ANY), Req(0, 0, ANY), Req(0, 1, 1)}
OneBuffer  == {<<"own">>, <<"foreign">>}
TwoBuffers == OneBuffer \cup {<<"own", "foreign">>}
=============================================================================
