--------------------------- MODULE AddressProofs ----------------------------
(***************************************************************************)
(* What the operations on addresses promise, proved for every content of   *)
(* the storage, every string and every port.                               *)
(***************************************************************************)
EXTENDS Address, TLAPS

\* The bound of a 16 bit number.  It keeps its name in the proofs: the provers
\* would write an interval between two numerals out, and an equation for it would
\* bring the numeral back.
LEMMA ShortBound ==
  /\ UINT16_MAX \in Nat
  /\ UINT16_MAX <= 65535
  /\ 65535 <= UINT16_MAX
  BY SMT DEF UINT16_MAX

\* Two bytes make a 16 bit number, and the number gives the bytes back.
LEMMA TwoBytes ==
  ASSUME NEW a \in Nat, a < 256, NEW b \in Nat, b < 256
  PROVE  /\ a * 256 + b \in Short
         /\ (a * 256 + b) % 256 = b
         /\ (a * 256 + b) \div 256 = a
<1> DEFINE n == a * 256 + b
<1>1. n \in Short
  BY ShortBound, SMTT(60) DEF Short
<1>2. n % 256 = b
  BY SMTT(60)
<1>3. n \div 256 = a
  BY SMTT(60)
<1> HIDE DEF n
<1>4. n \in Short /\ n % 256 = b /\ n \div 256 = a
  BY <1>1, <1>2, <1>3
<1> QED
  BY ONLY <1>4, SMTT(60) DEF n

\* Swapping the bytes of a 16 bit number gives one, and twice gives it back.
LEMMA SwapTwice ==
  ASSUME NEW p \in Short
  PROVE  htons(p) \in Short /\ htons(htons(p)) = p
<1> DEFINE lo == p % 256
           hi == p \div 256
<1>1. p \in Nat /\ p <= 65535
  BY ShortBound, SMTT(60) DEF Short
<1>2. lo \in Nat /\ lo < 256
  BY <1>1, SMTT(60)
<1>3. hi \in Nat /\ hi < 256
  BY <1>1, SMTT(60)
<1>4. hi * 256 + lo = p
  BY <1>1, SMTT(60)
<1>5. htons(p) = lo * 256 + hi
  BY DEF htons
<1> HIDE DEF lo, hi
<1>6. /\ lo * 256 + hi \in Short
      /\ (lo * 256 + hi) % 256 = hi
      /\ (lo * 256 + hi) \div 256 = lo
  BY <1>2, <1>3, TwoBytes
<1>7. htons(htons(p)) = hi * 256 + lo
  BY <1>5, <1>6 DEF htons
<1> QED
  BY <1>4, <1>5, <1>6, <1>7

\* The port that port(p) sets is the port that port() returns.
THEOREM PortIsKept ==
  ASSUME NEW addr \in Storage, NEW p \in Short
  PROVE  PortReadsBack(addr, p)
<1>1. set_port(addr, p).port = htons(p)
  BY DEF set_port, Storage
<1> QED
  BY <1>1, SwapTwice DEF PortReadsBack, port

\* Setting the host and setting the port are independent, and the host that
\* is read back is the host that was set.
THEOREM HostIsKept ==
  ASSUME NEW af \in Inet, NEW addr \in Storage, NEW host_s \in Texts,
         NEW p \in Short
  PROVE  HostReadsBack(af, addr, host_s, p)
<1> DEFINE set == set_host(af, addr, host_s)
           now == set_port(set.addr, p)
           h   == Pton[af][host_s]
<1>1. CASE h = Invalid
  <2>1. set = [ret |-> Err("EINVAL"), addr |-> addr]
    BY <1>1 DEF set_host
  <2>2. set_host(af, set_port(addr, p), host_s).addr = set_port(addr, p)
    BY <1>1 DEF set_host
  <2>3. set.addr = addr /\ ~set.ret.ok
    BY <2>1 DEF Err
  <2>4. now.family = addr.family
    BY <2>3 DEF set_port, Storage
  <2> QED
    BY <2>2, <2>3, <2>4 DEF HostReadsBack
<1>2. CASE h # Invalid
  <2>1. h \in Hosts(af)
    BY <1>2, AddressAssumption
  <2>2. set.ret.ok
    BY <1>2 DEF set_host, Ok
  <2>3. CASE af = AF_INET
    <3>1. set.addr = [addr EXCEPT !.word = h]
      BY <1>2, <2>3 DEF set_host
    <3>2. set_host(af, set_port(addr, p), host_s).addr
            = [set_port(addr, p) EXCEPT !.word = h]
      BY <1>2, <2>3 DEF set_host
    <3>3. /\ set.addr.port = addr.port
          /\ now = [set_port(addr, p) EXCEPT !.word = h]
          /\ now.family = addr.family
          /\ now.word = h
      BY <3>1 DEF set_port, Storage
    <3>4. host(af, now).value = Ntop[af][h]
      BY <2>3, <3>3 DEF host, HostBytes, Ok
    <3>5. Pton[af][host(af, now).value] = h
      BY <2>1, <3>4, AddressAssumption
    <3> QED
      BY <2>2, <3>2, <3>3, <3>5 DEF HostReadsBack, port
  <2>4. CASE af = AF_INET6
    <3>0. af # AF_INET
      BY <2>4 DEF AF_INET, AF_INET6
    <3>1. set.addr = [addr EXCEPT !.block = h]
      BY <1>2, <3>0 DEF set_host
    <3>2. set_host(af, set_port(addr, p), host_s).addr
            = [set_port(addr, p) EXCEPT !.block = h]
      BY <1>2, <3>0 DEF set_host
    <3>3. /\ set.addr.port = addr.port
          /\ now = [set_port(addr, p) EXCEPT !.block = h]
          /\ now.family = addr.family
          /\ now.block = h
      BY <3>1 DEF set_port, Storage
    <3>4. host(af, now).value = Ntop[af][h]
      BY <3>0, <3>3 DEF host, HostBytes, Ok
    <3>5. Pton[af][host(af, now).value] = h
      BY <2>1, <3>4, AddressAssumption
    <3> QED
      BY <2>2, <3>2, <3>3, <3>5 DEF HostReadsBack, port
  <2> QED
    BY <2>3, <2>4 DEF Inet
<1> QED
  BY <1>1, <1>2

\* An erased address comes back as what it was and as nothing else.
THEOREM DowncastKept ==
  ASSUME NEW af \in Inet, NEW raw \in Storage, NEW host_s \in Texts,
         NEW p \in Short
  PROVE  DowncastIsExact(af, raw, host_s, p)
<1> DEFINE new  == address_with_family(af, raw)
           addr == set_port(set_host(af, new, host_s).addr, p)
<1>1. new \in Storage /\ new.family = af
  BY DEF address_with_family, address, Storage, Inet, Families
<1>2. addr.family = new.family
  BY <1>1, HostIsKept DEF HostReadsBack
<1>3. addr.family = af
  BY <1>1, <1>2
<1> HIDE DEF addr
<1>4. from_address(af, addr) = Ok(addr)
  BY <1>3 DEF from_address
<1>5. \A to \in Inet : from_address(to, addr).ok <=> to = af
  BY <1>3 DEF from_address, Ok, Err
<1>6. to_string(addr) = to_string_of(af, addr)
  BY <1>3, <1>4 DEF to_string, Ok
<1> QED
  BY <1>3, <1>4, <1>5, <1>6 DEF DowncastIsExact, Expects, to_address, addr
=============================================================================
