------------------------------ MODULE MCCodec -------------------------------
(* Boundary values for every kind of field of every message.               *)
EXTENDS Codec

MCMessages == MessageTypes

Repeat(v, n) == [i \in 1 .. n |-> v]

MCSample(kind) ==
  CASE kind = "byte" -> {0, 255}
    [] kind = "word" -> {0, 255, 256, 65535}
    [] kind = "mac" -> {[i \in 1 .. 8 |-> 32 * i - 1]}
    [] kind \in {"flag", "success"} -> BOOLEAN
    [] kind = "panelButtonModes" ->
         {[i \in 1 .. Panel |-> IF i = j THEN k ELSE 1] :
            j \in {1, Panel}, k \in {-1, 0, 10}}
    [] kind = "sensorTemp" -> {-21, -20, 0, 235, 236}
    [] kind = "channelStatus" ->
         {[i \in 1 .. n |-> i % 3 = r] : n \in {0, 1, 7, 8, 9, 16, 17, 248, 249, 255}, r \in 0 .. 2}
    [] kind = "statusBytes" -> {Repeat(b, n) : b \in {0, 255}, n \in {0, 1, 2, 255}}
    [] kind = "templist" -> {Repeat(t, n) : t \in {-128, -1, 127}, n \in {0, 1, 8, 9}}
    [] kind = "remark" -> {Repeat(65, n) : n \in {0, 1, 63, 64}}
    [] kind = "modules" ->
         {[target |-> <<t, 255>>, category |-> c, channel |-> n, hvac |-> h] :
            t \in {0, 255}, c \in {1, 2}, n \in {0, 255}, h \in {<<0, 0>>, <<1, 28>>}}
         \union
         {[target |-> <<1, 2>>, category |-> 3, channel |-> n, hvac |-> <<h, 255 - h>>] :
            n \in {0, 15}, h \in {0, 255}}
         \union
         {[target |-> <<1, 2>>, category |-> c, channel |-> 0, hvac |-> <<0, 0>>] :
            c \in {0, 4, 5, 6}}
=============================================================================
