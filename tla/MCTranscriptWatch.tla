------------------------- MODULE MCTranscriptWatch -------------------------
(* TranscriptWatch on a small instance: one conversation, whose transcript *)
(* has up to MaxLen steps.                                                 *)
EXTENDS TranscriptWatch

OneConv   == {"conversation"}
UpToLimit == 1..MaxLen
Threads   == {Scanner, "worker"}
=============================================================================
