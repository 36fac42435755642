----------------------------- MODULE DhcpsProofs -----------------------------
(* For every number of stations, every table and every pool: the table     *)
(* agrees with the bits, and no address but an exposed one is used twice   *)
(* or unrecorded.                                                          *)
EXTENDS Dhcps, TLAPS

(* Who holds an address is associated and has an entry; the address on     *)
(* offer is nobody's; both but for the exposed addresses.                  *)
Holds(c, d) == c \in associated /\ \E i \in Slot : table[i] = [mac |-> c, ip |-> d]
HeldOK ==
    \A c \in Clients : held[c] \notin exposed \cup {None} =>
       Holds(c, held[c]) /\ held[c] # allocated

DhcpsInv == TypeOK /\ TableAgrees /\ HeldOK

LEMMA Addresses ==
    /\ None \notin Pool /\ Foreign \notin Pool /\ None # Foreign
    /\ Slot \subseteq Nat /\ Pool \subseteq Nat
  BY DhcpsConstants DEF None, Pool, Foreign, Slot

LEMMA EntryType ==
    ASSUME NEW c \in Clients, NEW d \in Pool
    PROVE  [mac |-> c, ip |-> d] \in Entry
  BY DEF Entry

(* Only the client of an address that is recorded may have it.             *)
LEMMA RecordedIsItsOwn ==
    ASSUME TableAgrees, NEW c, NEW d \in Pool, Holds(c, d)
    PROVE  \A k \in Slot : table[k].ip = d => table[k].mac = c
<1>1. PICK i \in Slot : table[i] = [mac |-> c, ip |-> d]
  BY DEF Holds
<1> QED BY <1>1, Addresses DEF TableAgrees

LEMMA InvInit == Init => DhcpsInv
<1> SUFFICES ASSUME Init PROVE DhcpsInv
  OBVIOUS
<1>1. NoEntry \in Entry
  BY DEF NoEntry, Entry
<1>2. TypeOK
  BY <1>1 DEF Init, TypeOK
<1>3. TableAgrees
  BY DEF Init, TableAgrees, NoEntry
<1>4. HeldOK
  BY DEF Init, HeldOK
<1> QED BY <1>2, <1>3, <1>4 DEF DhcpsInv

(* An address in use is exposed after a step only when it was before or    *)
(* the step exposes it, and an exposed one stays so.                       *)
LEMMA ExposeFacts ==
    ASSUME NEW S, Expose(S)
    PROVE  /\ exposed' \subseteq Pool
           /\ \A b \in Clients : held'[b] \in Pool \ exposed' => held'[b] \notin exposed \cup S
  BY DEF Expose

-----------------------------------------------------------------------------
(* save_client_addr.  An entry is overwritten, in the order of the table,  *)
(* so that the table keeps agreeing with the bits.                         *)
LEMMA SaveAgrees ==
    ASSUME DhcpsInv, NEW c \in Clients, NEW d \in Pool, MarkAndSave(d, c)
    PROVE  /\ TableAgrees'
           /\ table' \in [Slot -> Entry] /\ marked' \subseteq Pool
<1>0. /\ table \in [Slot -> Entry] /\ marked \subseteq Pool
      /\ TableAgrees /\ [mac |-> c, ip |-> d] \in Entry /\ d # None
  BY EntryType, Addresses DEF DhcpsInv, TypeOK
<1>1. ASSUME NEW i \in Slot, IsFirst(i, Usable(d)),
             table' = [table EXCEPT ![i] = [mac |-> c, ip |-> d]],
             marked' = marked \cup {d}
      PROVE  /\ TableAgrees'
             /\ table' \in [Slot -> Entry] /\ marked' \subseteq Pool
  <2>1. table' \in [Slot -> Entry] /\ marked' \subseteq Pool
    BY <1>0, <1>1
  <2>2. /\ table[i].ip \in {None, d}
        /\ \A k \in Slot : table[k].ip \in {None, d} => i <= k
    BY <1>1 DEF IsFirst, Usable
  <2>3. /\ table'[i].ip = d
        /\ \A k \in Slot : k # i => table'[k] = table[k]
    BY <1>0, <1>1
  <2>4. \A k \in Slot : k # i => table[k].ip # d
    <3> SUFFICES ASSUME NEW k \in Slot, k # i, table[k].ip = d PROVE FALSE
      OBVIOUS
    <3>1. i < k
      BY <2>2, Addresses
    <3>2. table[i].ip # d
      BY <1>0 DEF TableAgrees
    <3>3. table[i].ip = None
      BY <2>2, <3>2
    <3>4. table[k].ip = None
      BY <1>0, <3>1, <3>3 DEF TableAgrees
    <3> QED BY <1>0, <3>4
  <2>5. ASSUME NEW k \in Slot, NEW l \in Slot
        PROVE  /\ table'[k].ip # None => table'[k].ip \in marked'
               /\ k # l /\ table'[k].ip # None => table'[k].ip # table'[l].ip
               /\ k < l /\ table'[k].ip = None => table'[l].ip = None
    <3>1. table'[k].ip # None => table'[k].ip \in marked'
      BY <1>0, <1>1, <2>3 DEF TableAgrees
    <3>2. k # l /\ table'[k].ip # None => table'[k].ip # table'[l].ip
      BY <1>0, <2>3, <2>4 DEF TableAgrees
    <3>3. k < l /\ table'[k].ip = None => table'[l].ip = None
      <4> SUFFICES ASSUME k < l, table'[k].ip = None PROVE table'[l].ip = None
        OBVIOUS
      <4>1. k # i /\ table[k].ip = None
        BY <1>0, <2>3
      <4>2. i <= k
        BY <2>2, <4>1
      <4>3. l # i
        BY <4>2, DhcpsConstants DEF Slot
      <4> QED BY <1>0, <2>3, <4>1, <4>3 DEF TableAgrees
    <3> QED BY <3>1, <3>2, <3>3
  <2>6. TableAgrees'
    BY <2>5 DEF TableAgrees
  <2> QED BY <1>0, <1>1, <2>1, <2>6
<1>2. ASSUME Usable(d) = {}, NEW i \in Slot, IsFirst(i, Evictable),
             table' = [table EXCEPT ![i] = [mac |-> c, ip |-> d]],
             marked' = (marked \cup {d}) \ {e \in {table[i].ip} : HasBit(e)}
      PROVE  /\ TableAgrees'
             /\ table' \in [Slot -> Entry] /\ marked' \subseteq Pool
  <2>1. table' \in [Slot -> Entry] /\ marked' \subseteq Pool
    BY <1>0, <1>2
  <2>2. \A k \in Slot : table[k].ip # None /\ table[k].ip # d
    BY <1>2 DEF Usable
  <2>3. /\ table'[i].ip = d
        /\ \A k \in Slot : k # i => table'[k] = table[k]
    BY <1>0, <1>2
  <2>4. \A k \in Slot : k # i => table[k].ip # table[i].ip
    BY <1>0, <2>2 DEF TableAgrees
  <2>5. d \in marked'
    BY <1>2, <2>2
  <2>6. \A k \in Slot : k # i => table[k].ip \in marked'
    BY <1>0, <1>2, <2>2, <2>4 DEF TableAgrees
  <2>7. TableAgrees'
    BY <1>0, <2>2, <2>3, <2>5, <2>6 DEF TableAgrees
  <2> QED BY <1>0, <1>2, <2>1, <2>7
<1>3. ASSUME marked' = marked \cup {d}, UNCHANGED table
      PROVE  /\ TableAgrees'
             /\ table' \in [Slot -> Entry] /\ marked' \subseteq Pool
  BY <1>0, <1>3 DEF TableAgrees
<1> QED BY <1>1, <1>2, <1>3 DEF MarkAndSave

(* It takes the entry of no station that uses its address, unless it is    *)
(* the one of the address granted; and it records the client's if there is *)
(* room.                                                                   *)
LEMMA SaveKeepsHolders ==
    ASSUME DhcpsInv, NEW c \in Clients, NEW d \in Pool, MarkAndSave(d, c),
           UNCHANGED associated
    PROVE  /\ HasRoom(d) => \E i \in Slot : table'[i] = [mac |-> c, ip |-> d]
           /\ \A b \in Clients : \A e \in Pool :
                 Holds(b, e) /\ (e = d => b = c) => Holds(b, e)'
<1>0. table \in [Slot -> Entry]
  BY DEF DhcpsInv, TypeOK
<1>1. ASSUME NEW i \in Slot, NEW b \in Clients, NEW e \in Pool,
             table' = [table EXCEPT ![i] = [mac |-> c, ip |-> d]],
             Holds(b, e), e = d => b = c,
             \/ table[i].ip \in {None, d}
             \/ table[i].mac \notin associated
      PROVE  Holds(b, e)'
  <2>1. PICK k \in Slot : table[k] = [mac |-> b, ip |-> e]
    BY <1>1 DEF Holds
  <2>2. CASE k = i
    <3>1. e = d /\ b = c
      BY <1>1, <2>1, <2>2, Addresses DEF Holds
    <3> QED BY <1>0, <1>1, <3>1 DEF Holds
  <2>3. CASE k # i
    BY <1>0, <1>1, <2>1, <2>3 DEF Holds
  <2> QED BY <2>2, <2>3
<1>2. CASE \E i \in Slot :
              /\ IsFirst(i, Usable(d))
              /\ table' = [table EXCEPT ![i] = [mac |-> c, ip |-> d]]
  <2>1. PICK i \in Slot : /\ IsFirst(i, Usable(d))
                          /\ table' = [table EXCEPT ![i] = [mac |-> c, ip |-> d]]
    BY <1>2
  <2>2. table[i].ip \in {None, d}
    BY <2>1 DEF IsFirst, Usable
  <2>3. table'[i] = [mac |-> c, ip |-> d]
    BY <1>0, <2>1
  <2> QED BY <1>1, <2>1, <2>2, <2>3
<1>3. CASE \E i \in Slot :
              /\ IsFirst(i, Evictable)
              /\ table' = [table EXCEPT ![i] = [mac |-> c, ip |-> d]]
  <2>1. PICK i \in Slot : /\ IsFirst(i, Evictable)
                          /\ table' = [table EXCEPT ![i] = [mac |-> c, ip |-> d]]
    BY <1>3
  <2>2. table[i].mac \notin associated
    BY <2>1 DEF IsFirst, Evictable
  <2>3. table'[i] = [mac |-> c, ip |-> d]
    BY <1>0, <2>1
  <2> QED BY <1>1, <2>1, <2>2, <2>3
<1>4. CASE ~HasRoom(d) /\ UNCHANGED table
  BY <1>4 DEF Holds
<1> QED BY <1>2, <1>3, <1>4 DEF MarkAndSave

-----------------------------------------------------------------------------
(* The answers.                                                            *)
LEMMA AckKeeps ==
    ASSUME DhcpsInv, NEW c \in associated, NEW d \in Pool, Ack(c, d),
           \/ MayHave(d, c)
           \/ d = allocated
    PROVE  DhcpsInv'
<1> DEFINE Lost == IF HasRoom(d) THEN {} ELSE {d}
<1>0. /\ c \in Clients /\ held \in [Clients -> Pool \cup {None}]
      /\ offered \in [Clients -> Pool \cup {None}] /\ associated \subseteq Clients
      /\ TableAgrees /\ HeldOK
      /\ MarkAndSave(d, c) /\ UNCHANGED associated /\ allocated' = None
      /\ Expose(Lost)
  BY DEF DhcpsInv, TypeOK, Ack
<1>1. TableAgrees' /\ table' \in [Slot -> Entry] /\ marked' \subseteq Pool
  BY <1>0, SaveAgrees
<1>2. held' \in [Clients -> Pool \cup {None}] /\ offered' \in [Clients -> Pool \cup {None}]
  BY <1>0 DEF Ack
<1>3. /\ exposed' \subseteq Pool
      /\ \A b \in Clients : held'[b] \in Pool \ exposed' => held'[b] \notin exposed \cup Lost
  BY <1>0, ExposeFacts
<1>4. TypeOK'
  BY <1>0, <1>1, <1>2, <1>3 DEF TypeOK, Ack
<1>5. ASSUME NEW b \in Clients, held'[b] \notin exposed' \cup {None}
      PROVE  /\ b \in associated'
             /\ \E i \in Slot : table'[i] = [mac |-> b, ip |-> held'[b]]
             /\ held'[b] # allocated'
  <2>1. /\ HasRoom(d) => \E i \in Slot : table'[i] = [mac |-> c, ip |-> d]
        /\ \A a \in Clients : \A e \in Pool :
              Holds(a, e) /\ (e = d => a = c) => Holds(a, e)'
    BY <1>0, SaveKeepsHolders
  <2>2. held'[b] \in Pool /\ held'[b] \notin exposed \cup Lost
    BY <1>2, <1>3, <1>5
  <2>3. CASE held'[b] = held[b]
    <3>1. held[b] \in Pool /\ Holds(b, held[b]) /\ held[b] # allocated
      BY <1>0, <1>5, <2>2, <2>3 DEF HeldOK
    <3>2. held[b] = d => b = c
      <4> SUFFICES ASSUME held[b] = d PROVE b = c
        OBVIOUS
      <4>1. MayHave(d, c)
        BY <3>1
      <4>2. PICK i \in Slot : table[i] = [mac |-> b, ip |-> d]
        BY <3>1 DEF Holds
      <4> QED BY <4>1, <4>2 DEF MayHave
    <3>3. /\ b \in associated'
          /\ \E i \in Slot : table'[i] = [mac |-> b, ip |-> held[b]]
      <4>1. PICK e \in Pool : e = held[b] /\ Holds(b, e) /\ (e = d => b = c)
        BY <3>1, <3>2
      <4>2. Holds(b, e)'
        BY <2>1, <4>1
      <4>3. b \in associated' /\ \E i \in Slot : table'[i] = [mac |-> b, ip |-> e]
        BY <4>2 DEF Holds
      <4> QED BY <4>1, <4>3
    <3>4. held'[b] # allocated'
      BY <1>0, <1>5
    <3> QED BY <2>3, <3>3, <3>4
  <2>4. CASE held'[b] # held[b]
    <3>1. held' = [held EXCEPT ![c] = d]
      BY <2>4 DEF Ack
    <3>2. b = c /\ held'[b] = d
      BY <1>0, <2>4, <3>1
    <3>3. HasRoom(d)
      BY <2>2, <3>2
    <3> QED BY <1>0, <1>5, <2>1, <3>2, <3>3
  <2> QED BY <2>3, <2>4
<1>6. HeldOK'
  BY <1>5 DEF HeldOK, Holds
<1> QED BY <1>1, <1>4, <1>6 DEF DhcpsInv

(* A step in which no entry changes and no station gains an address.       *)
LEMMA OthersKeep ==
    ASSUME DhcpsInv, UNCHANGED <<table, marked>>, TypeOK',
           \A b \in Clients : held'[b] \notin exposed' \cup {None} =>
              /\ held'[b] = held[b] /\ held[b] \notin exposed
              /\ b \in associated => b \in associated'
              /\ held[b] # allocated => held[b] # allocated'
    PROVE  DhcpsInv'
<1>1. TableAgrees'
  BY DEF DhcpsInv, TableAgrees
<1>2. HeldOK'
  BY DEF DhcpsInv, HeldOK, Holds
<1> QED BY <1>1, <1>2 DEF DhcpsInv

(* Steps by which a station at most loses its address.                     *)
LEMMA LosingKeeps ==
    ASSUME DhcpsInv, UNCHANGED <<table, marked, allocated>>, TypeOK', Expose({}),
           \A b \in Clients : held'[b] # None =>
              held'[b] = held[b] /\ (b \in associated => b \in associated')
    PROVE  DhcpsInv'
<1>1. held' \in [Clients -> Pool \cup {None}]
  BY DEF TypeOK
<1>2. \A b \in Clients : held'[b] \in Pool \ exposed' => held'[b] \notin exposed
  BY ExposeFacts
<1> QED BY <1>1, <1>2, OthersKeep

(* What a station is offered is used by no other.                          *)
LEMMA CandidateIsFree ==
    ASSUME DhcpsInv, NEW c \in Clients, NEW d \in Pool \ exposed, IsCandidate(d, c),
           NEW b \in Clients \ {c}
    PROVE  held[b] # d
<1> SUFFICES ASSUME held[b] = d PROVE FALSE
  OBVIOUS
<1>1. Holds(b, d)
  BY Addresses DEF DhcpsInv, HeldOK
<1>2. PICK k \in Slot : table[k] = [mac |-> b, ip |-> d]
  BY <1>1 DEF Holds
<1>3. d \in marked
  BY <1>2, Addresses DEF DhcpsInv, TableAgrees
<1>4. ~NextFree(d)
  BY <1>3, Addresses DEF NextFree, IsFirst
<1>5. PICK i \in Slot : IsFirst(i, Kept(c)) /\ d = table[i].ip
  BY <1>4 DEF IsCandidate
<1>6. table[i].mac = c
  BY <1>5 DEF IsFirst, Kept
<1> QED BY <1>1, <1>5, <1>6, RecordedIsItsOwn DEF DhcpsInv

LEMMA CandidateType ==
    ASSUME DhcpsInv, NEW c \in Clients, NEW d, IsCandidate(d, c)
    PROVE  d \in Pool \cup {None}
  BY DEF DhcpsInv, TypeOK, IsCandidate, NextFree, IsFirst, Kept, Entry

LEMMA RequestKeeps ==
    ASSUME DhcpsInv, NEW c \in associated, NEW d \in Pool \cup {Foreign},
           NEW o \in Pool \cup {None, Foreign}, NEW a \in Pool \cup {None},
           Wanted(o, a) = d, Request(c, o, a)
    PROVE  DhcpsInv'
<1>1. CASE MayHave(d, c) \/ (state = "OFFER" /\ allocated # None /\ d = allocated)
  <2>1. Ack(c, d)
    BY <1>1 DEF Request
  <2>2. d \in Pool
    BY <1>1 DEF MayHave, DhcpsInv, TypeOK
  <2> QED BY <1>1, <2>1, <2>2, AckKeeps
<1>2. CASE ~(MayHave(d, c) \/ (state = "OFFER" /\ allocated # None /\ d = allocated))
  <2>1. Nak(c, d)
    BY <1>2 DEF Request
  <2>2. exposed' \subseteq Pool
    BY <2>1, ExposeFacts DEF Nak
  <2>3. TypeOK'
    BY <2>1, <2>2 DEF DhcpsInv, TypeOK, Nak
  <2>4. \A b \in Clients : held'[b] # None =>
           held'[b] = held[b] /\ (b \in associated => b \in associated')
    BY <2>1 DEF Nak, DhcpsInv, TypeOK
  <2> QED BY <2>1, <2>3, <2>4, LosingKeeps DEF Nak
<1> QED BY <1>1, <1>2

LEMMA WantedType ==
    ASSUME DhcpsInv, NEW o \in Pool \cup {None, Foreign}, NEW a \in Pool \cup {None},
           o # None \/ a # None
    PROVE  Wanted(o, a) \in Pool \cup {Foreign}
  BY Addresses DEF Wanted, DhcpsInv, TypeOK

-----------------------------------------------------------------------------
(* An offer exposes the address it names or finds it unused.               *)
LEMMA OfferKeeps ==
    ASSUME DhcpsInv, NEW c \in Clients, NEW before \in Pool \cup {None},
           SendOffer(c, before), UNCHANGED <<marked, table, associated>>,
           held' \in {held, [held EXCEPT ![c] = None]},
           state' \in {"IDLE", "OFFER"}, requested' \in Pool \cup {None, Foreign}
    PROVE  DhcpsInv'
<1>0. /\ TypeOK /\ held \in [Clients -> Pool \cup {None}]
      /\ offered \in [Clients -> Pool \cup {None}]
  BY DEF DhcpsInv, TypeOK
<1>1. held' \in [Clients -> Pool \cup {None}]
  BY <1>0
<1>2. \A b \in Clients : held'[b] # None => held'[b] = held[b]
  BY <1>0
<1>3. CASE /\ UNCHANGED allocated /\ offered' = [offered EXCEPT ![c] = before]
           /\ Expose({})
  <2>1. exposed' \subseteq Pool
    BY <1>3, ExposeFacts
  <2>2. TypeOK'
    BY <1>0, <1>1, <1>3, <2>1 DEF TypeOK
  <2> QED BY <1>2, <1>3, <2>2, LosingKeeps
<1>4. ASSUME NEW d \in Pool \cup {None, Foreign}, IsCandidate(d, c), allocated' = d,
             NEW seen \in {d, before}, offered' = [offered EXCEPT ![c] = seen],
             Expose({d} \cap {held[c]})
      PROVE  DhcpsInv'
  <2>1. d \in Pool \cup {None}
    BY <1>4, CandidateType
  <2>2. /\ exposed' \subseteq Pool
        /\ \A b \in Clients : held'[b] \in Pool \ exposed' =>
              held'[b] \notin exposed \cup ({d} \cap {held[c]})
    BY <1>4, ExposeFacts
  <2>3. TypeOK'
    BY <1>0, <1>1, <1>4, <2>1, <2>2 DEF TypeOK
  <2>4. ASSUME NEW b \in Clients, held'[b] \notin exposed' \cup {None}
        PROVE  held'[b] = held[b] /\ held[b] \notin exposed /\ held[b] # d
    <3>1. held'[b] = held[b] /\ held[b] \in Pool \ exposed
          /\ held[b] \notin {d} \cap {held[c]}
      BY <1>1, <1>2, <2>2, <2>4
    <3>2. CASE b = c
      BY <3>1, <3>2
    <3>3. CASE b # c
      BY <1>4, <2>1, <3>1, <3>3, CandidateIsFree
    <3> QED BY <3>1, <3>2, <3>3
  <2> QED BY <1>4, <2>3, <2>4, OthersKeep
<1> QED BY <1>3, <1>4 DEF SendOffer

LEMMA InvStep == DhcpsInv /\ [Next]_vars => DhcpsInv'
<1> SUFFICES ASSUME DhcpsInv, [Next]_vars PROVE DhcpsInv'
  OBVIOUS
<1>0. TypeOK
  BY DEF DhcpsInv
<1>1. ASSUME NEW c \in Clients, Discover(c) PROVE DhcpsInv'
  <2>1. /\ None \in Pool \cup {None}
        /\ requested' \in Pool \cup {None, Foreign} /\ state' \in {"IDLE", "OFFER"}
    BY <1>0, <1>1 DEF Discover, TypeOK
  <2> QED BY <1>1, <2>1, OfferKeeps DEF Discover
<1>10. ASSUME NEW c \in Clients, OtherMessage(c) PROVE DhcpsInv'
  <2>1. /\ offered[c] \in Pool \cup {None}
        /\ requested' \in Pool \cup {None, Foreign} /\ state' \in {"IDLE", "OFFER"}
        /\ UNCHANGED <<marked, table, associated, held>>
    BY <1>0, <1>10 DEF OtherMessage, TypeOK
  <2>2. CASE SendOffer(c, offered[c])
    BY <2>1, <2>2, OfferKeeps
  <2>3. CASE UNCHANGED <<allocated, offered, exposed>>
    <3>1. TypeOK'
      BY <1>0, <2>1, <2>3 DEF TypeOK
    <3> QED BY <2>1, <2>3, <3>1, OthersKeep
  <2> QED BY <1>10, <2>2, <2>3 DEF OtherMessage
<1>2. ASSUME NEW c \in Clients, Select(c) PROVE DhcpsInv'
  <2>1. /\ c \in associated /\ offered[c] \in Pool \cup {None, Foreign}
        /\ offered[c] # None /\ Request(c, offered[c], None)
    BY <1>0, <1>2 DEF Select, TypeOK
  <2>2. Wanted(offered[c], None) \in Pool \cup {Foreign}
    BY <2>1, WantedType
  <2> QED BY <2>1, <2>2, RequestKeeps
<1>3. ASSUME NEW c \in Clients, Reboot(c) PROVE DhcpsInv'
  <2>1. PICK d \in Pool \cup {Foreign} : c \in associated /\ Request(c, d, None)
    BY <1>3 DEF Reboot
  <2>2. Wanted(d, None) \in Pool \cup {Foreign}
    BY <2>1, WantedType, Addresses
  <2> QED BY <2>1, <2>2, RequestKeeps
<1>4. ASSUME NEW c \in Clients, Renew(c) PROVE DhcpsInv'
  <2>1. /\ c \in associated /\ held[c] \in Pool \cup {None}
        /\ held[c] # None /\ Request(c, None, held[c])
    BY <1>0, <1>4 DEF Renew, TypeOK
  <2>2. Wanted(None, held[c]) \in Pool \cup {Foreign}
    BY <2>1, WantedType
  <2> QED BY <2>1, <2>2, RequestKeeps
<1>5. ASSUME NEW c \in Clients, GiveUp(c) PROVE DhcpsInv'
  <2>0. exposed' \subseteq Pool
    BY <1>5, ExposeFacts DEF GiveUp
  <2>1. TypeOK'
    BY <1>0, <1>5, <2>0 DEF GiveUp, TypeOK
  <2>2. \A b \in Clients : held'[b] # None => held'[b] = held[b]
    BY <1>0, <1>5 DEF GiveUp, TypeOK
  <2> QED BY <1>5, <2>1, <2>2, LosingKeeps DEF GiveUp
<1>6. ASSUME NEW c \in Clients, Join(c) PROVE DhcpsInv'
  <2>1. TypeOK'
    BY <1>0, <1>6 DEF Join, TypeOK, server
  <2> QED BY <1>6, <2>1, OthersKeep DEF Join, server
<1>7. ASSUME NEW c \in Clients, Leave(c) PROVE DhcpsInv'
  <2>0. exposed' \subseteq Pool
    BY <1>7, ExposeFacts DEF Leave
  <2>1. TypeOK'
    BY <1>0, <1>7, <2>0 DEF Leave, TypeOK, server
  <2>2. \A b \in Clients : held'[b] # None =>
           held'[b] = held[b] /\ (b \in associated => b \in associated')
    BY <1>0, <1>7 DEF Leave, TypeOK
  <2> QED BY <1>7, <2>1, <2>2, LosingKeeps DEF Leave, server
<1>8. CASE Restart
  <2>1. NoEntry \in Entry
    BY DEF NoEntry, Entry
  <2>2. TypeOK'
    BY <1>0, <1>8, <2>1 DEF Restart, TypeOK
  <2>3. TableAgrees'
    BY <1>8 DEF Restart, TableAgrees, NoEntry
  <2>4. HeldOK'
    BY <1>8 DEF Restart, HeldOK
  <2> QED BY <2>2, <2>3, <2>4 DEF DhcpsInv
<1>9. CASE UNCHANGED vars
  BY <1>9 DEF vars, server, DhcpsInv, TypeOK, TableAgrees, HeldOK, Holds
<1> QED BY <1>1, <1>10, <1>2, <1>3, <1>4, <1>5, <1>6, <1>7, <1>8, <1>9 DEF Next

THEOREM InvAlways == Spec => []DhcpsInv
  BY InvInit, InvStep, PTL DEF Spec

(* The state machine, the addresses and the table keep their types.        *)
THEOREM TypeCorrect == Spec => []TypeOK
<1>1. DhcpsInv => TypeOK
  BY DEF DhcpsInv
<1> QED BY <1>1, InvAlways, PTL

(* The table and the bits of the pool agree for every pool, every table    *)
(* and every sequence of messages.                                         *)
THEOREM TableAlwaysAgrees == Spec => []TableAgrees
<1>1. DhcpsInv => TableAgrees
  BY DEF DhcpsInv
<1> QED BY <1>1, InvAlways, PTL

(* The address a station uses is recorded for it and may be had by it      *)
(* again, whatever the stations send, unless it is exposed.                *)
THEOREM UsedIsRecorded == Spec => []HeldIsRecorded
<1>1. DhcpsInv => HeldIsRecorded
  <2> SUFFICES ASSUME DhcpsInv, NEW c \in Clients, held[c] \notin exposed \cup {None}
               PROVE  /\ c \in associated
                      /\ \E i \in Slot : table[i] = [mac |-> c, ip |-> held[c]]
                      /\ MayHave(held[c], c)
    BY DEF HeldIsRecorded
  <2>1. Holds(c, held[c]) /\ held[c] \in Pool
    BY DEF DhcpsInv, HeldOK, TypeOK
  <2>2. MayHave(held[c], c)
    BY <2>1, RecordedIsItsOwn DEF DhcpsInv, MayHave
  <2> QED BY <2>1, <2>2 DEF Holds
<1> QED BY <1>1, InvAlways, PTL

(* No address is used by two stations, and the one on offer by none,       *)
(* whatever the stations send, unless it is exposed.                       *)
THEOREM NeverTwice == Spec => []HeldOnce
<1>1. DhcpsInv => HeldOnce
  <2> SUFFICES ASSUME DhcpsInv, NEW c \in Clients, held[c] \notin exposed \cup {None}
               PROVE  /\ held[c] # allocated
                      /\ \A d \in Clients \ {c} : held[d] # held[c]
    BY DEF HeldOnce
  <2>1. /\ Holds(c, held[c]) /\ held[c] # allocated /\ held[c] \in Pool
        /\ \A d \in Clients : held[d] = held[c] => Holds(d, held[c])
    BY DEF DhcpsInv, HeldOK, TypeOK
  <2>2. ASSUME NEW d \in Clients \ {c}, held[d] = held[c] PROVE FALSE
    <3>1. PICK i \in Slot : table[i] = [mac |-> d, ip |-> held[c]]
      BY <2>1, <2>2 DEF Holds
    <3> QED BY <2>1, <2>2, <3>1, RecordedIsItsOwn DEF DhcpsInv
  <2> QED BY <2>1, <2>2
<1> QED BY <1>1, InvAlways, PTL
=============================================================================
