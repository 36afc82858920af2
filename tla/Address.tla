------------------------------ MODULE Address -------------------------------
(***************************************************************************)
(* ark::net::address, inet_address and inet6_address: one sockaddr_storage *)
(* read through three types.                                               *)
(*                                                                         *)
(* The storage is cut where sockaddr_in and sockaddr_in6 lay their fields: *)
(* "word" is sin_addr to the one and sin6_flowinfo to the other.  A class  *)
(* adds no state, so that an object of any of the three is its storage and *)
(* the type is the af argument of the operators.  Uninitialised storage is *)
(* any storage.                                                            *)
(***************************************************************************)
EXTENDS Naturals

CONSTANTS
  Words,     \* contents of four bytes: an ipv4 address, sin6_flowinfo
  Blocks,    \* contents of sixteen bytes: an ipv6 address
  Texts,     \* strings
  Invalid,   \* what inet_pton() makes of a string that denotes no address
  Pton,      \* inet_pton(), for each of the two families
  Ntop       \* inet_ntop()

AF_UNSPEC == "AF_UNSPEC"
AF_INET   == "AF_INET"
AF_INET6  == "AF_INET6"
Families  == {AF_UNSPEC, AF_INET, AF_INET6}
Inet      == {AF_INET, AF_INET6}

\* The bytes of a host of family af.
Hosts(af) == IF af = AF_INET THEN Words ELSE Blocks

\* The C library: the text it makes of a host denotes that host.
ASSUME AddressAssumption ==
  /\ Invalid \notin Words \cup Blocks
  /\ DOMAIN Pton = Inet /\ DOMAIN Ntop = Inet
  /\ \A af \in Inet :
       /\ Pton[af] \in [Texts -> Hosts(af) \cup {Invalid}]
       /\ Ntop[af] \in [Hosts(af) -> Texts]
       /\ \A h \in Hosts(af) : Pton[af][Ntop[af][h]] = h

UINT16_MAX == 65535
Short == 0 .. UINT16_MAX

Storage == [family : Families, port : Short, word : Words, block : Blocks]

\* result<T>
Ok(v) == [ok |-> TRUE, value |-> v]
Err(e) == [ok |-> FALSE, value |-> e]

\* ntohs() and htons() on a machine that puts the low byte first.
htons(p) == (p % 256) * 256 + p \div 256

\* address(), on the bytes that happen to be there
address(raw) == [raw EXCEPT !.family = AF_UNSPEC]

\* inet_address() and inet6_address()
address_with_family(af, raw) == [address(raw) EXCEPT !.family = af]

\* inet_address(addr) and inet6_address(addr): Expects() ends the program
\* unless this holds, and the bytes are copied.
Expects(af, addr) == addr.family = af

HostBytes(af, addr) == IF af = AF_INET THEN addr.word ELSE addr.block

\* host().  inet_ntop() fails for an unknown family or too small a buffer; the
\* code has neither, so that its error return is left out.
host(af, addr) == Ok(Ntop[af][HostBytes(af, addr)])

\* host(host_s): what is returned, and the storage after it.
set_host(af, addr, host_s) ==
  LET h == Pton[af][host_s]
  IN  IF h = Invalid THEN [ret |-> Err("EINVAL"), addr |-> addr]
      ELSE [ret  |-> Ok("success"),
            addr |-> IF af = AF_INET THEN [addr EXCEPT !.word = h]
                     ELSE [addr EXCEPT !.block = h]]

\* port()
port(addr) == htons(addr.port)

\* port(p)
set_port(addr, p) == [addr EXCEPT !.port = htons(p)]

\* inet_address::to_string() and inet6_address::to_string(): a colon between
\* host and port, and brackets around the host if it is an ipv6 one.
to_string_of(af, addr) ==
  Ok([brackets |-> af = AF_INET6, host |-> host(af, addr).value, port |-> port(addr)])

\* to_address(): a copy of the storage, and the type is gone.
to_address(addr) == addr

\* inet_address::from_address() and inet6_address::from_address()
from_address(af, addr) ==
  IF addr.family # af THEN Err("EAFNOSUPPORT") ELSE Ok(addr)

\* to_string(addr)
to_string(addr) ==
  IF addr.family \in Inet
    THEN to_string_of(addr.family, from_address(addr.family, addr).value)
    ELSE Err("EAFNOSUPPORT")

-----------------------------------------------------------------------------
\* A port is read as it was set, by the same type or after the type was
\* erased and restored: both byte orders and both structures agree on it.
PortReadsBack(addr, p) == port(set_port(addr, p)) = p

\* Host and port do not disturb each other or the family, in any order; a host
\* that is set is read back as a text for the same host, and a text that
\* denotes no host changes nothing.
HostReadsBack(af, addr, host_s, p) ==
  LET set == set_host(af, addr, host_s)
      now == set_port(set.addr, p)
  IN  /\ port(set.addr) = port(addr)
      /\ now = set_host(af, set_port(addr, p), host_s).addr
      /\ now.family = addr.family
      /\ IF set.ret.ok
           THEN Pton[af][host(af, now).value] = Pton[af][host_s]
           ELSE set.addr = addr

\* An address whose type was erased is got back by the type of its family and
\* refused by any other, so that Expects() never fails in from_address(); and
\* to_string() says of it what the type that wrote it says.
DowncastIsExact(af, raw, host_s, p) ==
  LET addr == set_port(set_host(af, address_with_family(af, raw), host_s).addr, p)
      any  == to_address(addr)
  IN  /\ \A to \in Inet : from_address(to, any).ok <=> to = af
      /\ from_address(af, any) = Ok(addr)
      /\ Expects(af, any)
      /\ to_string(any) = to_string_of(af, addr)

\* An object that holds no address, or whose address was never set, gives an
\* error and no text.
UnspecHasNoText(raw) == ~to_string(address(raw)).ok
=============================================================================
