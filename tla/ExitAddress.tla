---- MODULE ExitAddress ----
(***************************************************************************)
(* Exit addresses (internal/ipgen/ipgen.go): a prefix is parsed, masked,   *)
(* and given random host bits, byte by byte. The code has 16 bytes of 8    *)
(* bits; nothing depends on these numbers. Bytes count from 1.             *)
(***************************************************************************)
EXTENDS Integers

CONSTANTS Bytes, ByteBits

ASSUME ExitConstants == Bytes \in Nat \ {0} /\ ByteBits \in Nat \ {0}

Power[n \in Nat] == IF n = 0 THEN 1 ELSE 2 * Power[n - 1]    \* 2 to the n

Width == Bytes * ByteBits
Byte == 0..Power[ByteBits] - 1
Address == [1..Bytes -> Byte]

Clear(byte, n) == byte - (byte % Power[n])    \* without its n lowest bits

\* ParsePrefix on an address it could read: the host bits are cleared.
MaskPrefix(ip, bits) ==
    [i \in 1..Bytes |-> CASE bits >= i * ByteBits -> ip[i]
                              [] bits <= (i - 1) * ByteBits -> 0
                              [] OTHER -> Clear(ip[i], i * ByteBits - bits)]

\* Mutant: the boundary byte's mask is one bit short.
RandomShort(ip, bits) ==
    LET hostBits == Width - bits
        start == 1 + Bytes - (hostBits + ByteBits - 1) \div ByteBits
        rem == hostBits % ByteBits
    IN  IF bits = Width THEN {ip}
        ELSE {[i \in 1..Bytes |->
                  IF i < start THEN ip[i]
                  ELSE IF i = start /\ rem # 0 THEN Clear(ip[i], rem + 1) + (r[i] % Power[rem + 1])
                  ELSE r[i]] : r \in [start..Bytes -> Byte]}
\* What Random may return, whatever bytes r crypto/rand yields.
Random(ip, bits) ==
    LET hostBits == Width - bits
        start == 1 + Bytes - (hostBits + ByteBits - 1) \div ByteBits
        rem == hostBits % ByteBits
    IN  IF bits = Width THEN {ip}
        ELSE {[i \in 1..Bytes |->
                  IF i < start THEN ip[i]
                  ELSE IF i = start /\ rem # 0 THEN Clear(ip[i], rem) + (r[i] % Power[rem])
                  ELSE r[i]] : r \in [start..Bytes -> Byte]}

\* RandomFrom: any prefix, then any host in it.
RandomFrom(prefixes) ==
    UNION {{[ip |-> x, prefix |-> p] : x \in Random(p.ip, p.bits)} : p \in prefixes}

----
(* What it should do: an address lies in a prefix when their values agree   *)
(* but for the host bits.                                                   *)

Value(ip) == LET upTo[i \in 0..Bytes] ==
                     IF i = 0 THEN 0 ELSE upTo[i - 1] * Power[ByteBits] + ip[i]
             IN  upTo[Bytes]
Within(x, ip, bits) == Value(x) \div Power[Width - bits] = Value(ip) \div Power[Width - bits]
====
