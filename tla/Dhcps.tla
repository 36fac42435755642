------------------------------- MODULE Dhcps -------------------------------
(***************************************************************************)
(* The DHCP server of the soft AP, dhcps.c.  lwIP calls its handler with   *)
(* one datagram at a time.  The server has ONE state machine, one address  *)
(* it has offered and one address that was asked for, for all its clients  *)
(* together, and a table of AP_STA_NUM clients with their addresses.       *)
(*                                                                         *)
(* An address is its last byte.  A step is a client's message, its         *)
(* handling and the answer, which may be lost.                             *)
(***************************************************************************)
EXTENDS Integers, FiniteSets

CONSTANTS
    Clients,    \* the stations there are, by their MAC address
    NoClient,   \* the MAC address of an entry never used
    Slots,      \* AP_STA_NUM: entries of the table, and stations of the AP
    First, Last,\* DHCP_POOL_START and DHCP_POOL_END
    WordBits,   \* addresses in a word of ip_range: 32
    Own         \* dhcps_local_address and dhcps_local_gateway

ASSUME DhcpsConstants ==
    /\ Slots \in Nat \ {0} /\ WordBits \in Nat \ {0}
    /\ First \in Nat \ {0} /\ Last \in Nat /\ First <= Last
    /\ IsFiniteSet(Clients) /\ NoClient \notin Clients

Pool == First .. Last
None == 0                \* no address: 0.0.0.0, or the last byte 0
Foreign == Last + 1      \* any address of another network or out of the pool
Slot == 1 .. Slots
Entry == [mac : Clients \cup {NoClient}, ip : Pool \cup {None}]
NoEntry == [mac |-> NoClient, ip |-> None]

VARIABLES
    state,       \* dhcp_server_state_machine; ACK and NAK last for a step
    allocated,   \* dhcps_allocated_client_address
    requested,   \* client_request_ip, kept until an ACK
    marked,      \* the addresses whose bit in ip_range is set
    table,       \* client_mac and ip_addr4
    associated,  \* the stations of the AP now
    offered,     \* what each client was offered last
    held,        \* the address each client uses
    exposed      \* history: addresses in use the server has lost hold of

server == <<state, allocated, requested, marked, table>>
vars == <<server, associated, offered, held, exposed>>

(* Two things expose an address: the station that uses it is offered it    *)
(* once more, or it is granted when the table has no entry left to record  *)
(* it.  It stays exposed until nobody uses it.                             *)
Expose(S) ==
    exposed' = {d \in Pool \cap (exposed \cup S) : \E c \in Clients : held'[c] = d}

-----------------------------------------------------------------------------
(* The table.                                                              *)

IsFirst(i, S) == i \in S /\ \A k \in S : i <= k

(* check_client_request_ip: the entries of a client.  The shift for an     *)
(* address at the end of a word is by -1, which reads no bit: such an      *)
(* entry is passed over.                                                   *)
HasBit(d) == d % WordBits # 0
Kept(c) == {i \in Slot : /\ table[i].mac = c
                         /\ table[i].ip \in marked /\ HasBit(table[i].ip)}

(* Mutant: the search does not stop at the end of the pool. *)
Mut_NextFree(d) == IsFirst(d, (First .. Last + 1) \ marked)

(* search_next_ip; None when every address is taken.                       *)
NextFree(d) ==
    \/ IsFirst(d, Pool \ marked)
    \/ Pool \subseteq marked /\ d = None

(* The address to offer a client: the one it had, or the first free one.   *)
IsCandidate(d, c) ==
    \/ \E i \in Slot : IsFirst(i, Kept(c)) /\ d = table[i].ip
    \/ Kept(c) = {} /\ NextFree(d)

(* Mutant: whose address it is is not compared. *)
Mut_MayHave(d, c) == d \in Pool

(* check_client_direct_request_ip: in the pool, and not recorded for       *)
(* another client.                                                         *)
MayHave(d, c) ==
    d \in Pool /\ \A i \in Slot : table[i].ip = d => table[i].mac = c

(* save_client_addr: the entries it may use, of which it takes the first.  *)
Usable(d) == {i \in Slot : table[i].ip \in {None, d}}

(* Mutant: the associated stations are not looked at. *)
Mut_Evictable == Slot

Evictable == {i \in Slot : table[i].mac \notin associated}

HasRoom(d) == Usable(d) # {} \/ Evictable # {}

(* Mutant: the address is marked only when its entry is new. *)
Mut_MarkAndSave(d, c) ==
    \/ \E i \in Slot :
          /\ IsFirst(i, Usable(d))
          /\ table' = [table EXCEPT ![i] = [mac |-> c, ip |-> d]]
          /\ UNCHANGED marked
    \/ Usable(d) = {} /\ marked' = marked \cup {d} /\ UNCHANGED table

(* mark_ip_in_table and save_client_addr: an unused entry or that of the   *)
(* address, or else one of a station that has left, whose address is free  *)
(* again (but for the shift by -1); or else the ACK is not recorded.       *)
MarkAndSave(d, c) ==
    \/ \E i \in Slot :
          /\ IsFirst(i, Usable(d))
          /\ table' = [table EXCEPT ![i] = [mac |-> c, ip |-> d]]
          /\ marked' = marked \cup {d}
    \/ /\ Usable(d) = {}
       /\ \E i \in Slot :
             /\ IsFirst(i, Evictable)
             /\ table' = [table EXCEPT ![i] = [mac |-> c, ip |-> d]]
             /\ marked' = (marked \cup {d}) \ {e \in {table[i].ip} : HasBit(e)}
    \/ ~HasRoom(d) /\ marked' = marked \cup {d} /\ UNCHANGED table

-----------------------------------------------------------------------------
(* The messages.                                                           *)

(* dhcps_send_offer to c, which receives it or not and then has the offer  *)
(* it had before.  When there is no pbuf nothing is offered.               *)
SendOffer(c, before) ==
    \/ \E d \in Pool \cup {None, Foreign} :
          /\ IsCandidate(d, c)
          /\ allocated' = d
          /\ \E seen \in {d, before} : offered' = [offered EXCEPT ![c] = seen]
          /\ Expose({d} \cap {held[c]})
    \/ /\ UNCHANGED allocated
       /\ offered' = [offered EXCEPT ![c] = before]
       /\ Expose({})

(* DHCPDISCOVER, with or without a requested address in option 50, from a  *)
(* station that has no address, gives it up or uses it for the time being. *)
Discover(c) ==
    /\ c \in associated
    /\ state' = "OFFER"
    /\ requested' \in {requested, Foreign} \cup Pool
    /\ held' \in {held, [held EXCEPT ![c] = None]}
    /\ SendOffer(c, None)
    /\ UNCHANGED <<marked, table, associated>>

(* DHCPINFORM, a type that only servers send or no option 53 at all: the   *)
(* switch has no case for it, so the state stays as it is; with an offer   *)
(* out to anyone, the sender gets one of its own.                          *)
OtherMessage(c) ==
    /\ c \in associated
    /\ requested' \in {requested, Foreign} \cup Pool
    /\ UNCHANGED <<state, marked, table, associated, held>>
    /\ \/ state = "OFFER" /\ SendOffer(c, offered[c])
       \/ state = "IDLE" /\ UNCHANGED <<allocated, offered, exposed>>

(* The address a DHCPREQUEST is taken to ask for: option 50, or what an    *)
(* earlier message has left, or for a renewal ciaddr.                      *)
Wanted(option50, ciaddr) ==
    CASE option50 # None -> option50
      [] option50 = None /\ requested # None -> requested
      [] OTHER -> ciaddr

Ack(c, d) ==
    /\ MarkAndSave(d, c)
    /\ state' = "IDLE" /\ allocated' = None /\ requested' = None
    /\ \/ held' = [held EXCEPT ![c] = d] /\ offered' = [offered EXCEPT ![c] = None]
       \/ UNCHANGED <<held, offered>>
    /\ Expose(IF HasRoom(d) THEN {} ELSE {d})
    /\ UNCHANGED associated

Nak(c, d) ==
    /\ state' = "IDLE" /\ requested' = d
    /\ \/ held' = [held EXCEPT ![c] = None] /\ offered' = [offered EXCEPT ![c] = None]
       \/ UNCHANGED <<held, offered>>
    /\ Expose({})
    /\ UNCHANGED <<allocated, marked, table, associated>>

(* dhcps_handle_state_machine_change: the address the client may have, or  *)
(* else the address offered last, to whoever asks for it.                  *)
Request(c, option50, ciaddr) ==
    LET d == Wanted(option50, ciaddr) IN
    IF MayHave(d, c) \/ (state = "OFFER" /\ allocated # None /\ d = allocated)
    THEN Ack(c, d) ELSE Nak(c, d)

(* A client takes an offer, asks for an address it had or has (whatever    *)
(* the network), maybe once more, or renews the one it has.                *)
Select(c) == c \in associated /\ offered[c] # None /\ Request(c, offered[c], None)
Reboot(c) ==
    /\ c \in associated
    /\ \E d \in Pool \cup {Foreign} : Request(c, d, None)
Renew(c) == c \in associated /\ held[c] # None /\ Request(c, None, held[c])

(* DHCPRELEASE and DHCPDECLINE, whose option 50 is kept like any other.    *)
GiveUp(c) ==
    /\ c \in associated
    /\ state' = "IDLE"
    /\ requested' \in {requested, Foreign} \cup Pool
    /\ held' = [held EXCEPT ![c] = None]
    /\ Expose({})
    /\ UNCHANGED <<allocated, marked, table, associated, offered>>

-----------------------------------------------------------------------------
(* The stations.                                                           *)
Join(c) ==
    /\ c \notin associated /\ Cardinality(associated) < Slots
    /\ associated' = associated \cup {c}
    /\ UNCHANGED <<server, offered, held, exposed>>

(* A station that leaves asks again before it uses an address.             *)
Leave(c) ==
    /\ c \in associated
    /\ associated' = associated \ {c}
    /\ held' = [held EXCEPT ![c] = None]
    /\ offered' = [offered EXCEPT ![c] = None]
    /\ Expose({})
    /\ UNCHANGED server

(* dhcps_init: the table starts anew, the state machine and the two        *)
(* addresses do not.                                                       *)
Restart ==
    /\ table' = [i \in Slot |-> NoEntry] /\ marked' = Own \cap Pool
    /\ associated' = {} /\ exposed' = {}
    /\ held' = [c \in Clients |-> None] /\ offered' = [c \in Clients |-> None]
    /\ UNCHANGED <<state, allocated, requested>>

Init ==
    /\ state = "IDLE" /\ allocated = None /\ requested = None
    /\ marked = Own \cap Pool /\ table = [i \in Slot |-> NoEntry]
    /\ associated = {} /\ exposed = {}
    /\ held = [c \in Clients |-> None] /\ offered = [c \in Clients |-> None]

Next ==
    \/ \E c \in Clients : \/ Discover(c) \/ OtherMessage(c)
                          \/ Select(c) \/ Reboot(c) \/ Renew(c) \/ GiveUp(c)
                          \/ Join(c) \/ Leave(c)
    \/ Restart

Spec == Init /\ [][Next]_vars

-----------------------------------------------------------------------------
(* Between two messages the state machine is idle or has an offer out.     *)
TypeOK ==
    /\ state \in {"IDLE", "OFFER"}
    /\ allocated \in Pool \cup {None}
    /\ requested \in Pool \cup {None, Foreign}
    /\ marked \subseteq Pool /\ table \in [Slot -> Entry]
    /\ associated \subseteq Clients
    /\ offered \in [Clients -> Pool \cup {None}]
    /\ held \in [Clients -> Pool \cup {None}]
    /\ exposed \subseteq Pool

(* The table and the bits agree whatever was overwritten or evicted: no    *)
(* address is recorded twice, a recorded address is marked, so that it is  *)
(* never offered as a free one, and the unused entries come last.          *)
TableAgrees ==
    \A i, k \in Slot :
       /\ table[i].ip # None => table[i].ip \in marked
       /\ i # k /\ table[i].ip # None => table[i].ip # table[k].ip
       /\ i < k /\ table[i].ip = None => table[k].ip = None

(* What a station uses stays recorded for it: no entry of a station that   *)
(* uses it is overwritten or evicted, but for an address that is exposed.  *)
(* A renewal is refused, or answered with another address, only for a      *)
(* request that an earlier message left.                                   *)
HeldIsRecorded ==
    \A c \in Clients : held[c] \notin exposed \cup {None} =>
       /\ c \in associated
       /\ \E i \in Slot : table[i] = [mac |-> c, ip |-> held[c]]
       /\ MayHave(held[c], c)

(* No two stations use one address, and the address on offer is nobody's,  *)
(* in every interleaving of the clients' messages, with answers lost and   *)
(* clients leaving.  It fails for an exposed address and for no other: one *)
(* offered to the station that uses it, which the next station to ask for  *)
(* it gets, or one that was granted when the table was full.               *)
HeldOnce ==
    \A c \in Clients : held[c] \notin exposed \cup {None} =>
       /\ held[c] # allocated
       /\ \A d \in Clients \ {c} : held[d] # held[c]
=============================================================================
