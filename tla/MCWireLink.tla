----------------------------- MODULE MCWireLink -----------------------------
\* Every payload length around and between the limits of both codecs.
EXTENDS WireLink, TLC

CONSTANTS t1, t2, k1, k2

MCTopics == {t1, t2}
MCKeys == {k1, k2}
MCCrc == (t1 :> 0) @@ (t2 :> 7)   \* 0 is a legal CRC, and the blanked field
MCLengths == 0..24 \cup 1200..1240
MCForeignLens == {0, 1219, 1220, 1221, 1300}
=============================================================================
