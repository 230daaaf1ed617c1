------------------------------- MODULE Blocks --------------------------------
(***************************************************************************)
(* What the file system is promised of the block cache and the disk below  *)
(* it: an array of sectors.  A read gives what was last written, whatever  *)
(* was evicted, loaded again or retried in between.                        *)
(***************************************************************************)
CONSTANTS Sectors, Values, NoAnswer

VARIABLES
    content,    \* what each sector holds
    answer      \* what the caller has just read: <<sector, value>>

blocks == <<content, answer>>

Init ==
    /\ content \in [Sectors -> Values]
    /\ answer = NoAnswer

Write(s, v) ==
    /\ content' = [content EXCEPT ![s] = v]
    /\ answer' = NoAnswer

Read(s) ==
    /\ answer' = <<s, content[s]>>
    /\ UNCHANGED content

\* The caller goes on to something else.
Forget == answer' = NoAnswer /\ UNCHANGED content

Next == Forget \/ \E s \in Sectors : Read(s) \/ \E v \in Values : Write(s, v)

Spec == Init /\ [][Next]_blocks
=============================================================================
