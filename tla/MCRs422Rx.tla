---------- MODULE MCRs422Rx ----------
(* Replies of up to three segments for the model checker.                   *)
EXTENDS Rs422Rx

MCChecksum(s) == 255 - (FoldSeq(LAMBDA b, sum : b + sum, 0, s) % 256)

Frame(data) ==
    LET body == <<Len(data) - 1>> \o data IN
    [bytes |-> HEAD \o body \o <<MCChecksum(body)>>, frame |-> TRUE, claims |-> FALSE]
Noise(s) == [bytes |-> s, frame |-> FALSE, claims |-> FALSE]
Claim(s) == [bytes |-> HEAD \o s, frame |-> FALSE, claims |-> TRUE]

MCReplies == {
    <<Frame(<<1>>)>>, <<Noise(<<26, 9>>), Frame(<<2, 9>>)>>,
    <<Frame(<<1>>), Frame(<<2, 9>>)>>,                       \* a repeated answer
    <<Noise(HEAD \o <<2, 1>>), Frame(<<1>>)>>,               \* truncated, merges with the next
    <<Claim(<<7>>), Frame(<<1>>), Frame(<<2, 9>>)>>,         \* claims N bytes
    <<Claim(<<9>>), Frame(<<1>>)>>,                          \* claims more than there is room
    <<Frame(<<1, 2, 1, 2, 1>>)>>,                            \* too long for the caller
    <<Frame(<<1>>), Frame(<<2, 9>>), Frame(<<1, 9>>)>> }     \* more than the ring holds: wraps

MCByte == 0..255
====================
