----------------------------- MODULE MCSuperBuf -----------------------------
(* Instances of SuperBuf: the metadata that may arrive and the attributes  *)
(* of the channel.                                                         *)

EXTENDS SuperBuf

OfKind(k) == [Plain EXCEPT !.kind = k]

MetasAll ==
    {Plain, OfKind("reset"), OfKind("future"),
     [kind |-> "range", crop1x |-> TRUE, min |-> 1, max |-> 2]}

MetasNear == {m \in MetasAll : m.kind # "future"}

Attributes(mode, unmatched) ==
    [notify_mode |-> mode, water_mark |-> 1, look_back |-> 0,
     post_frame_skip |-> 1, max_unmatched_frames |-> unmatched]
AttrsTwo == {Attributes("BURST", 0), Attributes("CONTINUOUS", 1)}
=============================================================================
