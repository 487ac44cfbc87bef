---------- MODULE MCFrameSync ----------
(* Lines of up to three segments for the model checker.                     *)
EXTENDS FrameSync

MCPayloadLen == [b \in 0..255 |-> IF b = 1 THEN 1 ELSE 0]

Frame(s)  == [bytes |-> s, frame |-> TRUE, claims |-> FALSE]
Noise(s)  == [bytes |-> s, frame |-> FALSE, claims |-> FALSE]
False_(s) == [bytes |-> s, frame |-> FALSE, claims |-> TRUE]

MCSegments == {
    Frame(<<HDR, STATUS, 0, 1, 7, TAIL, TAIL>>),         \* status
    Frame(<<HDR, STATUS, 0, 0, TAIL, TAIL>>),            \* another message
    Frame(<<HDR, TELLOG, 1, 1, HDR, TAIL, TAIL>>),       \* telemetry, HDR as data
    Noise(<<HDR>>), Noise(<<7, 7, TAIL, 7, TAIL>>),
    False_(<<HDR, STATUS, 0, 3>>),                       \* claims what follows
    False_(<<HDR, STATUS, 0, 5, 7>>),                    \* claims 11 bytes
    False_(<<HDR, STATUS, 1, 0>>),                       \* claims too much
    False_(<<HDR, TELLOG, 1, 7>>), False_(<<HDR, TELLOG, 2, 1>>) }

MCWires == UNION {[1..n -> MCSegments] : n \in 1..3}
====================
