------------------------------- MODULE ByteFile -------------------------------
(* What a file promises: bytes by position and a length.  A write that fails   *)
(* has still moved the end of the file and may have stored the bytes of whole  *)
(* blocks from its beginning; a file cut short keeps what its last block held  *)
(* past the end, and shows it again if it grows.                               *)
EXTENDS Naturals, Sequences

CONSTANTS BLKSIZE, MaxSize, Buffers

VARIABLES content, length

Init == content = [p \in 0..MaxSize-1 |-> 0] /\ length = 0

Stored(buf, off, k) == [p \in 0..MaxSize-1 |-> IF p \in off..off+k-1 THEN buf[p - off + 1] ELSE content[p]]

Write(buf, off) ==
    /\ length' = IF off + Len(buf) > length THEN off + Len(buf) ELSE length
    /\ \E k \in 0..Len(buf) : /\ k \in {0, Len(buf)} \/ (off + k) % BLKSIZE = 0
                              /\ content' = Stored(buf, off, k)

Resize(n) ==
    /\ length' = n
    /\ content' = [p \in 0..MaxSize-1 |-> IF p \div BLKSIZE <= (n - 1) \div BLKSIZE /\ n > 0
                                          THEN content[p] ELSE 0]

Next == \/ \E buf \in Buffers, off \in 0..MaxSize-1 : off + Len(buf) <= MaxSize /\ Write(buf, off)
        \/ \E n \in 0..MaxSize : Resize(n)

Spec == Init /\ [][Next]_<<content, length>>
=============================================================================
