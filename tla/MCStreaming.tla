----------------------------- MODULE MCStreaming ------------------------------
(* Servers of one or two sources: each pair of kinds that share something, and a file. *)
EXTENDS Streaming

CONSTANTS camera, other, transcoder, sibling, file

MCParent == [s \in {sibling} |-> camera]
Pairs == {{camera, other}, {camera, transcoder}, {camera, sibling}, {file}}
Beside == {{camera, transcoder}, {camera, sibling}}

\* Three samples of a file, the middle one without a NAL unit.
MCSamples == <<[length |-> 1, empty |-> FALSE], [length |-> 2, empty |-> TRUE],
               [length |-> 2, empty |-> FALSE]>>
=============================================================================
