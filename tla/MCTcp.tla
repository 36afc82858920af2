------------------------------- MODULE MCTcp --------------------------------
(***************************************************************************)
(* Instances of Tcp for TLC, and of the addresses its sockets use.         *)
(***************************************************************************)
EXTENDS Tcp, Address, TLC

CONSTANTS p1, p2, p3, c1, c2

\* Two hosts of each family.  One text denotes an ipv4 host, two the same ipv6
\* host, and one no host of either.
SomeWords  == {"4a", "4b"}
SomeBlocks == {"6a", "6b"}
SomeTexts  == {"text 4a", "text 4b", "text 6a", "long text 6a", "text 6b", "text"}
SomeNtop == [AF_INET  |-> ("4a" :> "text 4a" @@ "4b" :> "text 4b"),
             AF_INET6 |-> ("6a" :> "text 6a" @@ "6b" :> "text 6b")]
SomePton ==
  [AF_INET  |-> [s \in SomeTexts |-> CASE s = "text 4a" -> "4a"
                                       [] s = "text 4b" -> "4b"
                                       [] OTHER -> "invalid"],
   AF_INET6 |-> [s \in SomeTexts |-> CASE s \in {"text 6a", "long text 6a"} -> "6a"
                                       [] s = "text 6b" -> "6b"
                                       [] OTHER -> "invalid"]]

\* Ports at the edges of a byte and of the type.
SomePorts == {0, 1, 255, 256, 8080, 65535}
SomeStorage == [family : Families, port : SomePorts, word : Words, block : Blocks]

\* The laws of addresses on these.
ASSUME AddressesChecked ==
  \A raw \in SomeStorage, p \in SomePorts :
    /\ PortReadsBack(raw, p)
    /\ UnspecHasNoText(raw)
    /\ \A af \in Inet, s \in Texts :
         HostReadsBack(af, raw, s, p) /\ DowncastIsExact(af, raw, s, p)

Symmetry == Permutations(Places) \cup Permutations(Calls)
=============================================================================
