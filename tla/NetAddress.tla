----------------------------- MODULE NetAddress -----------------------------
(***************************************************************************)
(* WinNet: IPAddress, SocketAddress and DNS.  An address is made from a    *)
(* number, a text, a name or the sockaddr the system gives, and is kept in *)
(* network byte order on a machine that stores the low byte first.         *)
(*                                                                         *)
(* An unsigned long is the sequence of its four bytes, the most            *)
(* significant first; a piece of memory is the sequence of its bytes, the  *)
(* first address first.  A port is two bytes in the same way.              *)
(***************************************************************************)
EXTENDS Integers, Sequences, SequencesExt

CONSTANTS Numbers,   \* addresses given as numbers or texts, four bytes each
          Ports,     \* two bytes each
          Names,     \* domain names
          Hosts      \* what gethostbyname knows: name -> sequence of addresses

None == "no name"
INADDR_NONE == <<255, 255, 255, 255>>
AnyAddress == <<0, 0, 0, 0>>

VARIABLES addr,     \* _sock_addr.sin_addr, memory
          port,     \* _sock_addr.sin_port, memory
          given,    \* the address and port the caller meant
          named     \* the name the address was given by, or None

vars == <<addr, port, given, named>>

\* The memory of a number, and htonl, ntohl, htons and ntohs.
Stored(number) == Reverse(number)
htonl(number) == Reverse(number)

\* IPAddress::Set(unsigned long), and ToNumeric.
FromNumber(number) == Stored(htonl(number))
ToNumeric(memory) == htonl(Reverse(memory))

\* inet_addr of a dotted text gives the number whose memory is in network
\* order; a text that is no address, and 255.255.255.255, give INADDR_NONE.
FromText(number) == number

\* DNS::GetIPAddressByName of a name: the first address of the host, already
\* in network order, is copied into a number, which Set turns once more.
FromName(name) ==
  IF name \notin DOMAIN Hosts THEN AnyAddress
  ELSE FromNumber(Reverse(Hosts[name][1]))

\* DNS::GetIPAddresses copies each address as it is.  Of a name nobody knows
\* the code reads a null pointer; here it has no address.
GetIPAddresses(name) == IF name \in DOMAIN Hosts THEN Hosts[name] ELSE << >>

GetPort == htonl(Reverse(port))

IsLoopBack(memory) == ToNumeric(memory)[1] = 127

\* Numbers are compared from their first byte on.
InPrivateRange(a) == \/ a[1] = 10
                     \/ a[1] = 192 /\ a[2] = 168
                     \/ a[1] = 172 /\ a[2] \in 16..31
IsPrivateIP(memory) == InPrivateRange(ToNumeric(memory))

Cleared == <<AnyAddress, <<0, 0>>>>

Init == /\ addr = AnyAddress /\ port = <<0, 0>>
        /\ given = Cleared /\ named = None

\* SocketAddress::Set: Init and the two parts.
Becomes(memory, p) == addr' = memory /\ port' = FromNumber(p)
Meant(number, p) == given' = <<number, p>> /\ named' = None

SetNumber(number, p) == Becomes(FromNumber(number), p) /\ Meant(number, p)

SetIPAddress(number, p) == Becomes(FromText(number), p) /\ Meant(number, p)

\* A dotted text, the broadcast address excepted: that is taken for a name.
SetText(number, p) ==
  /\ number # INADDR_NONE
  /\ Becomes(FromText(number), p)
  /\ Meant(number, p)

SetName(name, p) ==
  /\ Becomes(FromName(name), p)
  /\ given' = <<IF GetIPAddresses(name) = << >> THEN AnyAddress ELSE GetIPAddresses(name)[1], p>>
  /\ named' = name

\* The sockaddr of a connection, which the system fills in network order.
SetSockaddr(number, p) == addr' = number /\ port' = p /\ Meant(number, p)

Clear == /\ addr' = AnyAddress /\ port' = <<0, 0>>
         /\ given' = Cleared /\ named' = None

Next == \/ \E number \in Numbers, p \in Ports :
             \/ SetNumber(number, p) \/ SetIPAddress(number, p)
             \/ SetText(number, p) \/ SetSockaddr(number, p)
        \/ \E name \in Names, p \in Ports : SetName(name, p)
        \/ Clear

Spec == Init /\ [][Next]_vars

-----------------------------------------------------------------------------
(***************************************************************************)
(* However an address is given, GetIP, GetPort and the tests of its range  *)
(* see the address that was meant, except that a name leads to the address *)
(* of its host backwards (IPAddress.h:21-46, IPAddress.cpp:33-43,          *)
(* SocketAddress.cpp:11-50, DNS.hpp:85-99).                                *)
(***************************************************************************)
AddressIsAsGiven ==
  LET meant == IF named = None THEN given[1] ELSE Reverse(given[1])
  IN  /\ <<ToNumeric(addr), GetPort>> = <<meant, given[2]>>
      /\ IsLoopBack(addr) = (meant[1] = 127)
      /\ IsPrivateIP(addr) = InPrivateRange(meant)
=============================================================================
