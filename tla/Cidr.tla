------------------------------- MODULE Cidr -------------------------------
(***************************************************************************)
(* The address arithmetic of the scans (packages/core/src/meross/lan/      *)
(* ping-sweep.ts and discovery.ts) over words of Width bits instead of 32. *)
(* JavaScript's &, | and << give signed words and >>> 0 makes them         *)
(* unsigned again; parseCidr compares its results without doing so, and    *)
(* every private 192.168 and 172.16 address has its top bit set.           *)
(***************************************************************************)
EXTENDS Integers, Sequences, FiniteSets, Functions

CONSTANTS Width, None

VARIABLES input,    \* what is asked: a CIDR to list, or an interface
          output    \* the answer, None before it

vars == <<input, output>>

Words == 0 .. 2^Width - 1
Signed(n) == IF n >= 2^(Width - 1) THEN n - 2^Width ELSE n
Unsigned(n) == n % 2^Width

\* JavaScript's & and |, bit by bit.
Bit(n, b) == (n \div 2^b) % 2
WordOf(bits) == SumFunction([b \in bits |-> 2^b])
And(x, y) == WordOf({b \in 0 .. Width - 1 : Bit(x, b) = 1 /\ Bit(y, b) = 1})
Or(x, y) == WordOf({b \in 0 .. Width - 1 : Bit(x, b) = 1 \/ Bit(y, b) = 1})

\* prefix === 0 ? 0 : (0xffffffff << (32 - prefix)) >>> 0
Mask(prefix) ==
    IF prefix = 0 THEN 0 ELSE Unsigned((2^Width - 1) * 2^(Width - prefix))

Network(base, prefix) == Signed(And(base, Mask(prefix)))

\* A fault: only one end of the range is made unsigned.
M_Broadcast(base, prefix) ==
    Or(Unsigned(Network(base, prefix)), 2^Width - 1 - Mask(prefix))

Broadcast(base, prefix) ==
    Signed(Or(Unsigned(Network(base, prefix)), 2^Width - 1 - Mask(prefix)))

\* listHostsInCidr: from network + 1 while below broadcast, made unsigned.
ListHostsInCidr(base, prefix) ==
    LET network == Network(base, prefix)
        count   == Broadcast(base, prefix) - network - 1
    IN  IF prefix >= Width - 1 \/ count < 0
        THEN <<>>
        ELSE [k \in 1 .. count |-> Unsigned(network + k)]

\* A fault: a netmask with a hole is counted too.
M_NetmaskToPrefix(mask) == Cardinality({b \in 0 .. Width - 1 : Bit(mask, b) = 1})

\* One round of netmaskToPrefix's loop; it throws at a one below a zero.
ScanBit(acc, bit) ==
    CASE acc.bad -> acc
      [] ~acc.bad /\ bit = 1 /\ acc.zero -> [acc EXCEPT !.bad = TRUE]
      [] ~acc.bad /\ bit = 1 /\ ~acc.zero -> [acc EXCEPT !.bits = acc.bits + 1]
      [] ~acc.bad /\ bit # 1 -> [acc EXCEPT !.zero = TRUE]

\* netmaskToPrefix, from the top bit down: None where it throws.
NetmaskToPrefix(mask) ==
    LET scan[k \in 0 .. Width] ==
            IF k = 0
            THEN [bits |-> 0, zero |-> FALSE, bad |-> FALSE]
            ELSE ScanBit(scan[k - 1], Bit(mask, Width - k))
    IN  IF scan[Width].bad THEN None ELSE scan[Width].bits

\* suggestCidrs for one interface: the network as intToIp writes it, and the
\* prefix; an interface whose netmask throws is left out.
SuggestCidr(address, mask) ==
    LET prefix == NetmaskToPrefix(mask)
    IN  IF prefix = None
        THEN [kind |-> "skipped"]
        ELSE [kind |-> "cidr", base |-> Unsigned(Network(address, prefix)), prefix |-> prefix]

Init ==
    /\ input \in [kind : {"cidr"}, base : Words, prefix : 0 .. Width]
                    \cup [kind : {"iface"}, address : Words, mask : Words]
    /\ output = None

\* POST /api/hosts/discover and the scans for a uuid list a CIDR.
List ==
    /\ output = None /\ input.kind = "cidr"
    /\ output' = [kind |-> "hosts", hosts |-> ListHostsInCidr(input.base, input.prefix)]
    /\ UNCHANGED input

\* GET /api/network/suggest-cidr names one, which the client sends back.
Suggest ==
    /\ output = None /\ input.kind = "iface"
    /\ output' = SuggestCidr(input.address, input.mask)
    /\ UNCHANGED input

ScanSuggestion ==
    /\ output # None /\ output.kind = "cidr"
    /\ input' = output
    /\ output' = None

Rest ==
    /\ output # None /\ output.kind # "cidr"
    /\ UNCHANGED vars

Next == List \/ Suggest \/ ScanSuggestion \/ Rest

Spec == Init /\ [][Next]_vars

-----------------------------------------------------------------------------
\* The addresses that share base's first bits, by division alone.
Subnet(base, prefix) ==
    {n \in Words : n \div 2^(Width - prefix) = base \div 2^(Width - prefix)}

Extremes(S) == {n \in S : (\A m \in S : n <= m) \/ (\A m \in S : m <= n)}

\* A CIDR's hosts are its subnet without the first and last address, each
\* once and ascending, on both sides of the sign bit; prefix 0 and the two
\* longest list nothing.
HostsAreSubnet ==
    (output # None /\ output.kind = "hosts") =>
        LET hosts  == output.hosts
            subnet == Subnet(input.base, input.prefix)
        IN  IF input.prefix \in 1 .. Width - 2
            THEN /\ Range(hosts) = subnet \ Extremes(subnet)
                 /\ \A k \in 1 .. Len(hosts) - 1 : hosts[k] < hosts[k + 1]
            ELSE hosts = <<>>

\* What is suggested is the interface's own network: its mask is the netmask,
\* a netmask with a hole suggests nothing, and the interface lies in it.
SuggestionIsOwnNetwork ==
    (input.kind = "iface" /\ output # None) =>
        \/ /\ output.kind = "cidr"
           /\ Mask(output.prefix) = input.mask
           /\ input.address \in Subnet(output.base, output.prefix)
        \/ /\ output.kind = "skipped"
           /\ \A prefix \in 0 .. Width : Mask(prefix) # input.mask
=============================================================================
