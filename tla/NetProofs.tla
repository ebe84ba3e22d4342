----------------------------- MODULE NetProofs -----------------------------
(***************************************************************************)
(* Theorems about module Net, for every value of its constants, as many    *)
(* contexts, connections and sockets as there may be.                      *)
(***************************************************************************)
EXTENDS Net, SequenceTheorems, FiniteSetTheorems, WellFoundedInduction, TLAPS

-----------------------------------------------------------------------------
(***************************************************************************)
(* The invariant.  Some of it holds always; the rest, while no close was   *)
(* lost and no context dropped twice ("Regular"), says how what is pending *)
(* for a connection fits its socket, its references and the data given.    *)
(***************************************************************************)
PacketIds == Nat \X Nat
SockRecs ==
  [conn : Nat, ctx : Contexts \cup {NoContext}, client : BOOLEAN, closing : BOOLEAN, closed : BOOLEAN,
   paused : BOOLEAN, timeout : BOOLEAN, timer : BOOLEAN, held : BOOLEAN,
   buf : Seq(PacketIds), given : Seq(PacketIds), closes : Nat]
ConnRecs ==
  [ctx : Contexts, client : BOOLEAN, open : BOOLEAN, packets : Nat, early : BOOLEAN, drops : Nat]
NetItems == [kind : {"accept", "data", "close", "clear", "event"}, conn : Nat, h : Nat, n : Nat]

\* The types that the proofs need.
NetTypes ==
  /\ server \in [listening : BOOLEAN, closed : BOOLEAN, early : Contexts \cup {NoContext}, closes : Nat,
                 collected : BOOLEAN]
  /\ sock \in Seq(SockRecs) /\ conn \in Seq(ConnRecs)
  /\ conns \in Seq(Socks) /\ clients \in Seq(Socks)
  /\ refs \in [Contexts -> Nat] /\ netRing \in Seq(NetItems)
  /\ netMain \in [at : {"idle", "connection", "copy", "data", "close"}, h : Nat]

\* What is pending, but for events (see EventInv), and in which order.
NetPending == {netRing[i] : i \in {j \in DOMAIN netRing : netRing[j].kind # "event"}}
Before(a, b) ==
  \E i, j \in DOMAIN netRing : i < j /\ netRing[i] = a /\ netRing[j] = b
Waits(kind, c) == \E a \in NetPending : a.kind = kind /\ a.conn = c
HasItem(c) == \E a \in NetPending : a.conn = c
HasData(c, m) == \E a \in NetPending : a.kind = "data" /\ a.conn = c /\ a.n = m
Listed(g) == InSeq(g, IF sock[g].client THEN clients ELSE conns)
Distinct(list) == \A i, j \in DOMAIN list : list[i] = list[j] => i = j

\* A socket is in the list of its kind, once, until it is freed; a connection has one socket
\* at most, of its own context, and one of a client has one.
SocketsAgree ==
  /\ Distinct(conns) /\ Distinct(clients)
  /\ \A g \in Socks :
       /\ InSeq(g, conns) <=> ~sock[g].client /\ sock[g].held
       /\ InSeq(g, clients) => sock[g].client
       /\ sock[g].client => sock[g].held
       /\ sock[g].conn # 0 => /\ sock[g].conn \in DOMAIN conn
                              /\ conn[sock[g].conn].ctx = sock[g].ctx
                              /\ conn[sock[g].conn].client = sock[g].client
       /\ ~sock[g].client => sock[g].conn # 0
       /\ \A h \in Socks : sock[g].conn = sock[h].conn /\ sock[g].conn # 0 => g = h
  /\ "reused" \notin netLost => \A c \in DOMAIN conn : conn[c].client => \E g \in Socks : sock[g].conn = c
  /\ netMain.at = "close" => netMain.h \in Socks /\ sock[netMain.h].held

\* Unless it was closed amiss, the server is closed once it has no connection left and waits
\* for none.
ServerCloses ==
  "amiss" \notin netLost =>
    IF server.closed
    THEN (\A a \in NetPending : a.kind # "accept") /\ server.closes = IF conns = <<>> THEN 1 ELSE 0
    ELSE server.closes = 0

\* What a pending item says of its connection, for each kind.
ItemOk(a) ==
  /\ a.conn \in DOMAIN conn
  /\ a.kind = "accept" =>
       ~conn[a.conn].client /\ conn[a.conn].drops = 0 /\ \A g \in Socks : sock[g].conn # a.conn
  /\ a.kind \in {"close", "clear"} => ~conn[a.conn].open
  /\ a.kind = "clear" => ~conn[a.conn].client
  /\ a.kind = "data" => a.n \in 1 .. conn[a.conn].packets
  /\ a.h # 0 => a.h \in Socks
  /\ a.kind = "close" => a.h # 0

\* The items of a connection: an accept is the first, a close the last, data in order.
PairOk(a, b) ==
  a.conn = b.conn =>
    /\ b.kind # "accept" /\ a.kind \notin {"close", "clear"}
    /\ a.kind = "data" /\ b.kind = "data" => a.n < b.n
ItemsAgree ==
  /\ \A a \in NetPending : ItemOk(a)
  /\ \A a, b \in NetPending : Before(a, b) => PairOk(a, b)

SameContext(c, d) == conn[c].ctx = conn[d].ctx /\ ~conn[c].client /\ ~conn[d].client

\* An item names the socket of its connection; clear_closed is pending for an accept that came
\* too late, and the context it clears is the one remembered.
RegItem(a) ==
  /\ a.h # 0 => sock[a.h].conn = a.conn
  /\ a.kind = "data" /\ conn[a.conn].client => a.h # 0
  /\ a.kind = "accept" /\ ~conn[a.conn].open => Waits("clear", a.conn)
  /\ a.kind = "clear" => server.early = conn[a.conn].ctx /\ conn[a.conn].early

\* Connections that had the same context one after the other are dealt with in that order.
RegPair(a, b) ==
  /\ SameContext(a.conn, b.conn) => a.conn <= b.conn
  /\ ~(a.kind = "clear" /\ b.kind = "clear")
ItemsRegular ==
  /\ \A a \in NetPending : RegItem(a)
  /\ \A a, b \in NetPending : Before(a, b) => RegPair(a, b)
  /\ server.early # NoContext => \E a \in NetPending : a.kind = "clear" /\ conn[a.conn].ctx = server.early

\* A socket that is not listed is over, and nothing is pending for it; the close of one that is
\* listed is on its way, and its context dropped by accept_connection only.
RegSock(g) ==
  LET c == sock[g].conn IN
  /\ ~Listed(g) => ~conn[c].open /\ ~HasItem(c)
  /\ Listed(g) =>
       /\ conn[c].open \/ Waits("close", c) \/ Waits("clear", c) \/ netMain = [at |-> "close", h |-> g]
       /\ conn[c].drops = IF Waits("clear", c) THEN 1 ELSE 0
       /\ sock[g].client \/ (sock[g].closed <=> Waits("clear", c))

\* The socket whose "close" listeners run is over but for its release.
RegMain ==
  netMain.at = "close" =>
    LET c == sock[netMain.h].conn IN c # 0 /\ ~conn[c].open /\ ~HasItem(c) /\ Listed(netMain.h)
SocksRegular ==
  /\ \A g \in Socks : sock[g].conn # 0 => RegSock(g)
  /\ \A g, h \in Socks : InSeq(g, clients) /\ InSeq(h, clients) /\ sock[g].ctx = sock[h].ctx
                           /\ sock[g].ctx # NoContext => g = h
  /\ RegMain

\* References: one of the kernel while the connection is open, one of main until it is dropped,
\* and nobody else uses the context.
RegRefs(c) ==
  conn[c].open \/ conn[c].drops = 0 =>
    /\ refs[conn[c].ctx] = (IF conn[c].open THEN 1 ELSE 0) + (1 - conn[c].drops)
    /\ \A g \in Socks : InSeq(g, clients) => sock[g].ctx # conn[c].ctx

\* The earlier of two connections of one context is over before the later begins, and the later
\* has no socket while anything is pending for the earlier.
ConnsRegular ==
  /\ \A c \in DOMAIN conn : ~conn[c].client => RegRefs(c)
  /\ \A c, d \in DOMAIN conn : c < d /\ SameContext(c, d) =>
       /\ ~conn[c].open /\ conn[c].drops = 1
       /\ HasItem(c) => \A g \in Socks : sock[g].conn # d

DataOf(s) == s.given \o s.buf

\* The data of a socket is its connection's, in order and before all that is pending; if none was
\* lost, it and the pending data are all that has come.
RegData(g) ==
  LET data == DataOf(sock[g])
      c    == sock[g].conn
  IN  /\ c = 0 => data = <<>>
      /\ \A i \in DOMAIN data :
           /\ data[i][1] = c /\ data[i][2] \in 1 .. conn[c].packets
           /\ \A j \in 1 .. i - 1 : data[j][2] < data[i][2]
           /\ \A a \in NetPending : a.kind = "data" /\ a.conn = c => data[i][2] < a.n
           /\ "data" \notin netLost => data[i][2] = i
      /\ "data" \notin netLost /\ c # 0 /\ Listed(g) =>
           \A m \in Len(data) + 1 .. conn[c].packets : HasData(c, m)
DataRegular ==
  /\ \A g \in Socks : RegData(g)
  /\ "data" \notin netLost =>
       \A a \in NetPending : a.kind = "accept" => \A m \in 1 .. conn[a.conn].packets : HasData(a.conn, m)

\* All of it.
NetInvariant ==
  /\ SocketsAgree /\ ServerCloses /\ ItemsAgree /\ DropsExplained
  /\ Regular => ItemsRegular /\ SocksRegular /\ ConnsRegular /\ DataRegular

-----------------------------------------------------------------------------
(***************************************************************************)
(* Sequences.                                                              *)
(***************************************************************************)
LEMMA NetGrows ==
  ASSUME NEW S, NEW list \in Seq(S), NEW e \in S, NEW longer, longer = Append(list, e)
  PROVE  /\ longer \in Seq(S) /\ Len(longer) = Len(list) + 1 /\ Len(list) \in Nat
         /\ DOMAIN list = 1 .. Len(list) /\ DOMAIN longer = 1 .. Len(list) + 1
         /\ (\A i \in 1 .. Len(list) : longer[i] = list[i]) /\ longer[Len(list) + 1] = e
<1>1. /\ longer \in Seq(S) /\ Len(longer) = Len(list) + 1 /\ Len(list) \in Nat
      /\ (\A i \in 1 .. Len(list) : longer[i] = list[i]) /\ longer[Len(list) + 1] = e
  BY AppendProperties, LenProperties
<1>2. DOMAIN list = 1 .. Len(list)
  BY LenProperties
<1>3. DOMAIN longer = 1 .. Len(longer)
  BY <1>1, LenProperties
<1> QED
  BY <1>1, <1>2, <1>3

LEMMA NetShrinks ==
  ASSUME NEW S, NEW list \in Seq(S), list # <<>>, NEW rest, rest = Tail(list)
  PROVE  /\ rest \in Seq(S) /\ Len(rest) = Len(list) - 1 /\ Len(list) \in Nat \ {0}
         /\ DOMAIN list = 1 .. Len(list) /\ DOMAIN rest = 1 .. Len(list) - 1
         /\ Head(list) = list[1] /\ list[1] \in S
         /\ \A i \in 1 .. Len(list) - 1 : rest[i] = list[i + 1]
<1>1. rest \in Seq(S) /\ Len(rest) = Len(list) - 1 /\ \A i \in 1 .. Len(rest) : rest[i] = list[i + 1]
  BY HeadTailProperties
<1>2. Len(list) \in Nat \ {0} /\ DOMAIN list = 1 .. Len(list) /\ Head(list) = list[1]
  BY LenProperties, EmptySeq
<1>3. DOMAIN rest = 1 .. Len(rest)
  BY <1>1, LenProperties
<1>4. list[1] \in S
  BY <1>2, ElementOfSeq
<1> QED
  BY <1>1, <1>2, <1>3, <1>4

LEMMA NetChanges ==
  ASSUME NEW S, NEW list \in Seq(S), NEW i \in DOMAIN list, NEW e \in S, NEW new,
         new = [list EXCEPT ![i] = e]
  PROVE  /\ new \in Seq(S) /\ Len(new) = Len(list) /\ DOMAIN new = DOMAIN list
         /\ new[i] = e /\ \A j \in DOMAIN list : j # i => new[j] = list[j]
<1>1. Len(list) \in Nat /\ DOMAIN list = 1 .. Len(list) /\ \A j \in 1 .. Len(list) : list[j] \in S
  BY LenProperties, ElementOfSeq
<1>2. new \in Seq(S) /\ Len(new) = Len(list)
  BY ExceptSeq
<1>3. DOMAIN new = DOMAIN list /\ new[i] = e /\ \A j \in DOMAIN list : j # i => new[j] = list[j]
  OBVIOUS
<1> QED
  BY <1>2, <1>3

\* A socket put before the others, and one taken out.
LEMMA NetPrepends ==
  ASSUME NEW S, NEW list \in Seq(S), NEW h \in S, NEW new, new = <<h>> \o list, Distinct(list), ~InSeq(h, list)
  PROVE  /\ new \in Seq(S) /\ Distinct(new) /\ new # <<>>
         /\ \A g \in S : InSeq(g, new) <=> InSeq(g, list) \/ g = h
<1> DEFINE n == Len(list)
<1>1. n \in Nat /\ DOMAIN list = 1 .. n
  BY LenProperties
<1>2. <<h>> \in Seq(S) /\ Len(<<h>>) = 1 /\ <<h>>[1] = h
  OBVIOUS
<1>3. new \in Seq(S) /\ Len(new) = 1 + n /\ \A i \in 1 .. Len(new) : new[i] = IF i <= 1 THEN <<h>>[i] ELSE list[i - 1]
  BY <1>2, ConcatProperties
<1>4. DOMAIN new = 1 .. n + 1
  BY <1>1, <1>3, LenProperties
<1> HIDE DEF n
<1>5. new[1] = h /\ \A i \in 1 .. n : new[i + 1] = list[i]
  BY <1>1, <1>2, <1>3
<1>6. \A i \in 1 .. n + 1 : i = 1 \/ (i - 1 \in 1 .. n /\ new[i] = list[i - 1])
  BY <1>1, <1>3
<1>7. 1 \in 1 .. n + 1 /\ \A i \in 1 .. n : i + 1 \in 1 .. n + 1
  BY <1>1
<1>8. ASSUME NEW g \in S PROVE InSeq(g, new) <=> InSeq(g, list) \/ g = h
  <2>1. InSeq(g, new) => InSeq(g, list) \/ g = h
    BY <1>1, <1>4, <1>5, <1>6 DEF InSeq
  <2>2. InSeq(g, list) => InSeq(g, new)
    BY <1>1, <1>4, <1>5, <1>7 DEF InSeq
  <2>3. g = h => InSeq(g, new)
    BY <1>4, <1>5, <1>7 DEF InSeq
  <2> QED
    BY <2>1, <2>2, <2>3
<1>9. ASSUME NEW i \in 1 .. n + 1, NEW j \in 1 .. n + 1, new[i] = new[j] PROVE i = j
  <2>1. (i = 1 /\ j = 1) \/ (i = 1 /\ j - 1 \in 1 .. n /\ new[j] = list[j - 1]) \/ (j = 1 /\ i - 1 \in 1 .. n /\ new[i] = list[i - 1])
        \/ (i - 1 \in 1 .. n /\ new[i] = list[i - 1] /\ j - 1 \in 1 .. n /\ new[j] = list[j - 1])
    BY <1>6
  <2>2. \A k \in 1 .. n : list[k] # h
    BY <1>1 DEF InSeq
  <2>3. \A k, l \in 1 .. n : list[k] = list[l] => k = l
    BY <1>1 DEF Distinct
  <2>4. i = 1 \/ i - 1 \in 1 .. n
    BY <2>1
  <2>5. CASE i = 1 /\ j = 1
    BY <2>5
  <2>6. CASE i - 1 \in 1 .. n /\ new[i] = list[i - 1] /\ j - 1 \in 1 .. n /\ new[j] = list[j - 1]
    <3>1. i - 1 = j - 1
      BY <1>9, <2>3, <2>6
    <3> QED
      BY <3>1
  <2> QED
    BY <1>5, <1>9, <2>1, <2>2, <2>5, <2>6
<1>10. new # <<>>
  BY <1>1, <1>3
<1> QED
  BY <1>3, <1>4, <1>8, <1>9, <1>10 DEF Distinct

LEMMA NetLeast ==
  ASSUME NEW T, T \subseteq Nat, T # {}
  PROVE  Min(T) \in T /\ \A y \in T : Min(T) <= y
<1> DEFINE R == {ss \in Nat \X Nat : ss[1] < ss[2]}
<1>1. IsWellFoundedOn(R, Nat)
  BY NatLessThanWellFounded DEF OpToRel
<1>2. \E x \in T : \A y \in T : <<y, x>> \notin R
  BY <1>1, WFMin, Zenon
<1>3. \A x, y \in Nat : <<y, x>> \notin R => x <= y
  OBVIOUS
<1>4. \E x \in T : \A y \in T : x <= y
  BY <1>2, <1>3
<1> QED
  BY <1>4 DEF Min

LEMMA NetRemovesAt ==
  ASSUME NEW S, NEW s \in Seq(S), NEW h \in DOMAIN s
  PROVE  /\ RemoveAt(s, h) \in Seq(S) /\ Len(RemoveAt(s, h)) = Len(s) - 1
         /\ \A i \in 1 .. Len(s) - 1 : RemoveAt(s, h)[i] = IF i < h THEN s[i] ELSE s[i + 1]
<1> DEFINE a == SubSeq(s, 1, h - 1)
           b == SubSeq(s, h + 1, Len(s))
<1>1. Len(s) \in Nat /\ h \in 1 .. Len(s) /\ \A i \in 1 .. Len(s) : s[i] \in S
  BY LenProperties
<1>2. a \in Seq(S) /\ Len(a) = h - 1 /\ \A i \in 1 .. h - 1 : a[i] = s[i]
  BY <1>1, SubSeqProperties
<1>3. b \in Seq(S) /\ Len(b) = Len(s) - h /\ \A i \in 1 .. Len(s) - h : b[i] = s[h + i]
  <2>1. \A i \in h + 1 .. Len(s) : s[i] \in S
    BY <1>1
  <2>2. /\ b \in Seq(S) /\ Len(b) = IF h + 1 <= Len(s) THEN Len(s) - (h + 1) + 1 ELSE 0
        /\ \A i \in 1 .. Len(s) - (h + 1) + 1 : b[i] = s[(h + 1) + i - 1]
    BY <1>1, <2>1, SubSeqProperties
  <2> QED
    BY <1>1, <2>2
<1>4. RemoveAt(s, h) = a \o b
  BY DEF RemoveAt
<1>5. /\ a \o b \in Seq(S) /\ Len(a \o b) = Len(a) + Len(b)
      /\ \A i \in 1 .. Len(a) + Len(b) : (a \o b)[i] = IF i <= Len(a) THEN a[i] ELSE b[i - Len(a)]
  BY <1>2, <1>3, ConcatProperties
<1> HIDE DEF a, b
<1>6. Len(a) + Len(b) = Len(s) - 1
  BY <1>1, <1>2, <1>3
<1>7. ASSUME NEW i \in 1 .. Len(s) - 1
      PROVE  (a \o b)[i] = IF i < h THEN s[i] ELSE s[i + 1]
  <2>0. /\ i \in Int /\ h \in Int /\ 1 <= i /\ i <= Len(s) - 1 /\ 1 <= h /\ Len(s) \in Nat
        /\ (a \o b)[i] = IF i <= h - 1 THEN a[i] ELSE b[i - (h - 1)]
    <3>1. i \in Int /\ h \in Int /\ 1 <= i /\ i <= Len(s) - 1 /\ 1 <= h /\ Len(s) \in Nat
      BY <1>1
    <3>2. i \in 1 .. Len(a) + Len(b) /\ Len(a) = h - 1
      BY <1>2, <1>6
    <3> QED
      BY <1>5, <3>1, <3>2
  <2>1. CASE i < h
    <3>1. (a \o b)[i] = a[i] /\ i \in 1 .. h - 1
      BY <2>0, <2>1
    <3> QED
      BY <1>2, <2>1, <3>1
  <2>2. CASE i >= h
    <3> DEFINE k == i - (h - 1)
    <3>1. (a \o b)[i] = b[k] /\ k \in 1 .. Len(s) - h /\ h + k = i + 1
      BY <2>0, <2>2
    <3> HIDE DEF k
    <3>2. b[k] = s[h + k]
      BY <1>3, <3>1
    <3>3. ~(i < h)
      BY <2>0, <2>2
    <3> QED
      BY ONLY <3>1, <3>2, <3>3
  <2> QED
    BY <2>0, <2>1, <2>2
<1> QED
  BY <1>4, <1>5, <1>6, <1>7

LEMMA NetRemoves ==
  ASSUME NEW S, NEW list \in Seq(S), NEW h, Distinct(list), NEW new, new = RemoveFirst(list, h)
  PROVE  /\ new \in Seq(S) /\ Distinct(new)
         /\ \A g : InSeq(g, new) <=> InSeq(g, list) /\ g # h
<1> DEFINE n == Len(list)
<1>1. n \in Nat /\ DOMAIN list = 1 .. n
  BY LenProperties
<1>2. CASE ~\E i \in 1 .. n : list[i] = h
  <2>1. new = list
    BY <1>2 DEF RemoveFirst
  <2> QED
    BY <1>1, <1>2, <2>1 DEF InSeq
<1>3. CASE \E i \in 1 .. n : list[i] = h
  <2> DEFINE I == {i \in 1 .. n : list[i] = h}
             k == Min(I)
  <2>0. I \subseteq Nat /\ I # {}
    BY <1>1, <1>3
  <2>1. k \in I
    <3> HIDE DEF I
    <3> QED
      BY ONLY <2>0, NetLeast
  <2>2. new = RemoveAt(list, k)
    BY <1>3, <2>1 DEF RemoveFirst, SelectInSeq
  <2>3. k \in 1 .. n /\ list[k] = h
    BY <2>1
  <2> HIDE DEF I, k
  <2>4. /\ new \in Seq(S) /\ Len(new) = n - 1
        /\ \A i \in 1 .. n - 1 : new[i] = IF i < k THEN list[i] ELSE list[i + 1]
    BY <1>1, <2>2, <2>3, NetRemovesAt, Zenon
  <2>5. DOMAIN new = 1 .. n - 1
    BY <2>4, LenProperties
  <2> HIDE DEF n
  <2>6. \A i \in 1 .. n - 1 : /\ i < k => new[i] = list[i]
                              /\ ~(i < k) => new[i] = list[i + 1]
                              /\ i \in 1 .. n /\ i + 1 \in 1 .. n
    BY <1>1, <2>4
  <2>7. \A i, j \in 1 .. n : list[i] = list[j] => i = j
    BY <1>1 DEF Distinct
  <2>8. ASSUME NEW i \in 1 .. n - 1, NEW j \in 1 .. n - 1, new[i] = new[j] PROVE i = j
    <3>1. i \in Int /\ j \in Int /\ k \in Int
      BY <2>3
    <3>2. CASE i < k /\ j < k
      BY <2>6, <2>7, <2>8, <3>2
    <3>3. CASE i < k /\ ~(j < k)
      <4>1. i = j + 1
        BY <2>6, <2>7, <2>8, <3>3
      <4> QED
        BY <3>1, <3>3, <4>1
    <3>4. CASE ~(i < k) /\ j < k
      <4>1. i + 1 = j
        BY <2>6, <2>7, <2>8, <3>4
      <4> QED
        BY <3>1, <3>4, <4>1
    <3>5. CASE ~(i < k) /\ ~(j < k)
      <4>1. i + 1 = j + 1
        BY <2>6, <2>7, <2>8, <3>5
      <4> QED
        BY <3>1, <4>1
    <3> QED
      BY <3>2, <3>3, <3>4, <3>5
  <2>9. ASSUME NEW g PROVE InSeq(g, new) <=> InSeq(g, list) /\ g # h
    <3>1. ASSUME NEW i \in 1 .. n - 1, new[i] = g PROVE InSeq(g, list) /\ g # h
      <4>1. CASE i < k
        <5>1. list[i] = g /\ i # k /\ i \in 1 .. n
          BY <2>3, <2>6, <3>1, <4>1
        <5> QED
          BY <1>1, <2>3, <2>7, <5>1 DEF InSeq
      <4>2. CASE ~(i < k)
        <5>1. list[i + 1] = g /\ i + 1 # k /\ i + 1 \in 1 .. n
          BY <2>3, <2>6, <3>1, <4>2
        <5> QED
          BY <1>1, <2>3, <2>7, <5>1 DEF InSeq
      <4> QED
        BY <4>1, <4>2
    <3>2. ASSUME NEW i \in 1 .. n, list[i] = g, g # h PROVE InSeq(g, new)
      <4>1. i # k
        BY <2>3, <3>2
      <4>2. CASE i < k
        <5>1. i \in 1 .. n - 1
          BY <1>1, <2>3, <4>2
        <5> QED
          BY <2>5, <2>6, <3>2, <4>2, <5>1 DEF InSeq
      <4>3. CASE i > k
        <5>1. i - 1 \in 1 .. n - 1 /\ ~(i - 1 < k) /\ (i - 1) + 1 = i
          BY <1>1, <2>3, <4>3
        <5>2. new[i - 1] = list[(i - 1) + 1]
          BY <2>6, <5>1
        <5> QED
          BY <2>5, <3>2, <5>1, <5>2 DEF InSeq
      <4> QED
        BY <2>3, <4>1, <4>2, <4>3
    <3> QED
      BY <1>1, <2>5, <3>1, <3>2 DEF InSeq
  <2>10. Distinct(new)
    BY <2>5, <2>8 DEF Distinct
  <2> QED
    BY <2>4, <2>9, <2>10
<1> QED
  BY <1>2, <1>3

\* find_connection finds a socket that is listed and has the context, if there is one.
LEMMA NetFinds ==
  ASSUME NetTypes, NEW c \in DOMAIN conn, NEW h, h = FindConnection(c)
  PROVE  LET list == IF conn[c].client THEN clients ELSE conns
         IN \/ h = 0 /\ \A g \in Socks : InSeq(g, list) => sock[g].ctx # conn[c].ctx
            \/ h \in Socks /\ InSeq(h, list) /\ sock[h].ctx = conn[c].ctx
<1> DEFINE list == IF conn[c].client THEN clients ELSE conns
           I == {i \in 1 .. Len(list) : sock[list[i]].ctx = conn[c].ctx}
           found == IF I # {} THEN Min(I) ELSE 0
<1>1. list \in Seq(Socks)
  BY DEF NetTypes
<1>2. Len(list) \in Nat /\ DOMAIN list = 1 .. Len(list) /\ \A i \in 1 .. Len(list) : list[i] \in Socks
  BY <1>1, LenProperties, ElementOfSeq
<1>3. h = IF found = 0 THEN 0 ELSE list[found]
  BY DEF FindConnection, SelectInSeq, ContextOf
<1> HIDE DEF list
<1>4. CASE I = {}
  <2>1. h = 0
    BY <1>3, <1>4
  <2>2. \A g \in Socks : InSeq(g, list) => sock[g].ctx # conn[c].ctx
    BY <1>2, <1>4 DEF InSeq
  <2> QED
    BY <2>1, <2>2 DEF list
<1>5. CASE I # {}
  <2>0. I \subseteq Nat /\ I # {}
    BY <1>2, <1>5
  <2>1. Min(I) \in I
    BY ONLY <2>0, NetLeast
  <2>5. found \in I
    BY <1>5, <2>1
  <2>2. found # 0
    BY <1>2, <2>5
  <2> HIDE DEF found
  <2>3. h = list[found]
    BY <1>3, <2>2
  <2>4. h \in Socks /\ InSeq(h, list) /\ sock[h].ctx = conn[c].ctx
    BY <1>2, <2>5, <2>3 DEF InSeq
  <2> QED
    BY <2>4 DEF list
<1> QED
  BY <1>4, <1>5

-----------------------------------------------------------------------------
(***************************************************************************)
(* What is pending.                                                        *)
(***************************************************************************)
LEMMA NetItemTyped ==
  ASSUME NEW kind \in {"accept", "data", "close", "clear", "event"}, NEW c \in Nat, NEW h \in Nat, NEW n \in Nat
  PROVE  /\ Item(kind, c, h, n) \in NetItems /\ Item(kind, c, h, n).kind = kind
         /\ Item(kind, c, h, n).conn = c /\ Item(kind, c, h, n).h = h /\ Item(kind, c, h, n).n = n
  BY DEF Item, NetItems

\* An item is put at the end, or lost.
LEMMA NetQueues ==
  ASSUME netRing \in Seq(NetItems), NEW item \in NetItems, Queue(item)
  PROVE  /\ netRing' \in Seq(NetItems)
         /\ NetPending \subseteq NetPending' /\ NetPending' \subseteq NetPending \cup {item}
         /\ item.kind = "event" => NetPending' = NetPending
         /\ item.kind # "event" => item \in NetPending' \/ item.kind \in Lost(item)
         /\ Lost(item) \subseteq {item.kind} \ {"event"}
         /\ \A a, b \in NetPending' : Before(a, b)' => Before(a, b) \/ (a \in NetPending /\ b = item)
<1>1. Lost(item) \subseteq {item.kind} \ {"event"}
  BY DEF Lost
<1>2. CASE ~HasRoom
  <2>1. netRing' = netRing /\ Lost(item) = {item.kind} \ {"event"}
    BY <1>2 DEF Queue, Lost
  <2> QED
    BY <1>1, <2>1 DEF NetPending, Before
<1>3. CASE HasRoom
  <2> DEFINE n == Len(netRing)
             longer == Append(netRing, item)
  <2>1. netRing' = longer
    BY <1>3 DEF Queue
  <2>2. /\ longer \in Seq(NetItems) /\ n \in Nat /\ DOMAIN netRing = 1 .. n /\ DOMAIN longer = 1 .. n + 1
        /\ (\A i \in 1 .. n : longer[i] = netRing[i]) /\ longer[n + 1] = item
    BY NetGrows
  <2> HIDE DEF n, longer
  <2>3. /\ \A i \in 1 .. n + 1 : i \in 1 .. n \/ i = n + 1
        /\ \A i \in 1 .. n : i \in 1 .. n + 1 /\ i < n + 1 /\ i # n + 1
        /\ n + 1 \in 1 .. n + 1
    BY <2>2
  <2>4. /\ NetPending = {netRing[i] : i \in {j \in 1 .. n : netRing[j].kind # "event"}}
        /\ NetPending' = {longer[i] : i \in {j \in 1 .. n + 1 : longer[j].kind # "event"}}
    BY <2>1, <2>2 DEF NetPending
  <2>5. NetPending \subseteq NetPending'
    BY <2>2, <2>3, <2>4
  <2>6. NetPending' \subseteq NetPending \cup {item}
    BY <2>2, <2>3, <2>4
  <2>7. item.kind # "event" => item \in NetPending'
    BY <2>2, <2>3, <2>4
  <2>8. item.kind = "event" => item \notin NetPending'
    BY <2>4
  <2>9. ASSUME NEW a \in NetPending', NEW b \in NetPending', Before(a, b)'
        PROVE  Before(a, b) \/ (a \in NetPending /\ b = item)
    <3>1. PICK i \in 1 .. n + 1, j \in 1 .. n + 1 : i < j /\ longer[i] = a /\ longer[j] = b
      BY <2>1, <2>2, <2>9 DEF Before
    <3>2. i \in 1 .. n
      BY <2>2, <3>1
    <3>3. netRing[i] = a /\ a.kind # "event"
      BY <2>2, <2>4, <2>9, <3>1, <3>2
    <3>4. a \in NetPending
      BY <2>4, <3>2, <3>3
    <3>5. CASE j \in 1 .. n
      BY <2>2, <3>1, <3>2, <3>5 DEF Before
    <3>6. CASE j = n + 1
      BY <2>2, <3>1, <3>4, <3>6
    <3> QED
      BY <2>3, <3>5, <3>6
  <2> QED
    BY <1>1, <2>1, <2>2, <2>5, <2>6, <2>7, <2>8, <2>9
<1> QED
  BY <1>2, <1>3

\* The first item is taken.
LEMMA NetTakes ==
  ASSUME netRing \in Seq(NetItems), netRing # <<>>, netRing' = Tail(netRing), NEW first, first = Head(netRing)
  PROVE  /\ netRing' \in Seq(NetItems) /\ first \in NetItems
         /\ NetPending' \subseteq NetPending /\ NetPending \subseteq NetPending' \cup {first}
         /\ first.kind = "event" => NetPending' = NetPending
         /\ first.kind # "event" => first \in NetPending
         /\ \A b \in NetPending' : Before(first, b)
         /\ \A a, b \in NetPending' : Before(a, b)' => Before(a, b)
<1> DEFINE n == Len(netRing)
           rest == Tail(netRing)
<1>1. /\ rest \in Seq(NetItems) /\ n \in Nat \ {0} /\ DOMAIN netRing = 1 .. n /\ DOMAIN rest = 1 .. n - 1
      /\ first = netRing[1] /\ netRing[1] \in NetItems /\ \A i \in 1 .. n - 1 : rest[i] = netRing[i + 1]
  BY NetShrinks
<1>2. netRing' = rest
  OBVIOUS
<1> HIDE DEF n, rest
<1>3. /\ \A i \in 1 .. n - 1 : i + 1 \in 1 .. n /\ 1 < i + 1
      /\ \A i \in 1 .. n : i = 1 \/ (i - 1 \in 1 .. n - 1 /\ (i - 1) + 1 = i)
      /\ 1 \in 1 .. n
  BY <1>1
<1>4. /\ NetPending = {netRing[i] : i \in {j \in 1 .. n : netRing[j].kind # "event"}}
      /\ NetPending' = {rest[i] : i \in {j \in 1 .. n - 1 : rest[j].kind # "event"}}
  BY <1>1, <1>2 DEF NetPending
<1>5. ASSUME NEW a \in NetPending' PROVE a \in NetPending /\ Before(first, a)
  <2>1. PICK i \in 1 .. n - 1 : rest[i] = a /\ rest[i].kind # "event"
    BY <1>4, <1>5
  <2>2. netRing[i + 1] = a /\ i + 1 \in 1 .. n /\ 1 < i + 1
    BY <1>1, <1>3, <2>1
  <2>3. a \in NetPending
    BY <1>4, <2>1, <2>2
  <2>4. Before(first, a)
    BY <1>1, <1>3, <2>2 DEF Before
  <2> QED
    BY <2>3, <2>4
<1>6. ASSUME NEW a \in NetPending, a # first PROVE a \in NetPending'
  <2>1. PICK i \in 1 .. n : netRing[i] = a /\ netRing[i].kind # "event"
    BY <1>4, <1>6
  <2>2. i # 1
    BY <1>1, <1>6, <2>1
  <2>3. i - 1 \in 1 .. n - 1 /\ (i - 1) + 1 = i
    BY <1>3, <2>2
  <2>4. rest[i - 1] = netRing[(i - 1) + 1]
    BY <1>1, <2>3
  <2>5. rest[i - 1] = a /\ rest[i - 1].kind # "event"
    BY <2>1, <2>3, <2>4
  <2> QED
    BY <1>4, <2>3, <2>5
<1>7. first.kind = "event" => first \notin NetPending
  BY <1>4
<1>8. first.kind # "event" => first \in NetPending
  BY <1>1, <1>3, <1>4
<1>9. ASSUME NEW a \in NetPending', NEW b \in NetPending', Before(a, b)'
      PROVE  Before(a, b)
  <2>1. PICK i \in 1 .. n - 1, j \in 1 .. n - 1 : i < j /\ rest[i] = a /\ rest[j] = b
    BY <1>1, <1>2, <1>9 DEF Before
  <2>2. netRing[i + 1] = a /\ netRing[j + 1] = b /\ i + 1 \in 1 .. n /\ j + 1 \in 1 .. n
    BY <1>1, <1>3, <2>1
  <2>3. i + 1 < j + 1
    BY <1>1, <2>1
  <2> QED
    BY <1>1, <2>2, <2>3 DEF Before
<1>10. NetPending' \subseteq NetPending /\ NetPending \subseteq NetPending' \cup {first}
  BY <1>5, <1>6
<1> QED
  BY <1>1, <1>2, <1>5, <1>7, <1>8, <1>9, <1>10

-----------------------------------------------------------------------------
(***************************************************************************)
(* Steps that change nothing that counts.                                  *)
(***************************************************************************)
NetInv == NetTypes /\ NetInvariant

\* Nothing is there: the first state, and what is left after undefined behaviour.
NetBlank ==
  /\ server = NewServer /\ refs = NoRefs /\ netMain = NetIdle
  /\ conns = <<>> /\ clients = <<>> /\ sock = <<>> /\ conn = <<>> /\ netRing = <<>>

LEMMA NetBlankIs ==
  ASSUME NetBlank
  PROVE  NetInv
<1>1. NetTypes
  <2>1. /\ server \in [listening : BOOLEAN, closed : BOOLEAN, early : Contexts \cup {NoContext}, closes : Nat, collected : BOOLEAN]
        /\ netMain \in [at : {"idle", "connection", "copy", "data", "close"}, h : Nat]
    BY DEF NetBlank, NewServer, NetIdle
  <2>2. refs \in [Contexts -> Nat]
    BY DEF NetBlank, NoRefs
  <2>3. /\ sock \in Seq(SockRecs) /\ conn \in Seq(ConnRecs) /\ conns \in Seq(Socks) /\ clients \in Seq(Socks)
        /\ netRing \in Seq(NetItems)
    BY EmptySeq DEF NetBlank
  <2> QED
    BY <2>1, <2>2, <2>3 DEF NetTypes
<1>2. /\ DOMAIN sock = {} /\ DOMAIN conn = {} /\ DOMAIN conns = {} /\ DOMAIN clients = {} /\ DOMAIN netRing = {}
  BY DEF NetBlank
<1>3. Socks = {} /\ NetPending = {} /\ netMain.at # "close" /\ server.early = NoContext /\ ~server.closed /\ server.closes = 0
  BY <1>2 DEF Socks, NetPending, NetBlank, NetIdle, NewServer
<1>4. SocketsAgree /\ ServerCloses /\ ItemsAgree
  BY <1>2, <1>3 DEF SocketsAgree, Distinct, ServerCloses, ItemsAgree
<1>5. ItemsRegular /\ SocksRegular /\ ConnsRegular /\ DataRegular
  BY <1>2, <1>3 DEF ItemsRegular, SocksRegular, RegMain, ConnsRegular, DataRegular
<1>6. DroppedOnce
  BY <1>2 DEF DroppedOnce
<1>7. DropsExplained
  BY <1>6 DEF DropsExplained
<1> QED
  BY <1>1, <1>4, <1>5, <1>7 DEF NetInv, NetInvariant

LEMMA NetFailed ==
  ASSUME NEW reason, NetFails(reason)
  PROVE  NetInv'
<1>1. NetBlank'
  BY DEF NetFails, NetBlank
<1> QED
  BY <1>1, NetBlankIs, PTL

\* What the invariant says of a socket is the same.
SameSocks ==
  /\ DOMAIN sock' = DOMAIN sock
  /\ \A g \in DOMAIN sock :
       /\ sock'[g].conn = sock[g].conn /\ sock'[g].ctx = sock[g].ctx /\ sock'[g].client = sock[g].client
       /\ sock'[g].closed = sock[g].closed /\ sock'[g].held = sock[g].held
       /\ sock'[g].buf = sock[g].buf /\ sock'[g].given = sock[g].given
SameRing == NetPending' = NetPending /\ \A a, b \in NetPending' : Before(a, b)' => Before(a, b)
Quiet ==
  /\ SameSocks /\ SameRing
  /\ UNCHANGED <<conns, clients, conn, refs>>
  /\ server'.early = server.early
  /\ \A kind \in {"data", "close", "clear", "reused"} : kind \in netLost' <=> kind \in netLost
  /\ netMain' = netMain \/ (netMain.at # "close" /\ netMain'.at # "close")

LEMMA NetQuiet ==
  ASSUME NetInvariant, Quiet, ServerCloses'
  PROVE  NetInvariant'
<1>1. /\ DOMAIN sock' = DOMAIN sock /\ Socks' = Socks /\ NetPending' = NetPending
      /\ \A g \in Socks :
           /\ sock'[g].conn = sock[g].conn /\ sock'[g].ctx = sock[g].ctx /\ sock'[g].client = sock[g].client
           /\ sock'[g].closed = sock[g].closed /\ sock'[g].held = sock[g].held
           /\ DataOf(sock'[g]) = DataOf(sock[g])
      /\ \A a, b \in NetPending : Before(a, b)' => Before(a, b)
  BY DEF Quiet, SameSocks, SameRing, Socks, DataOf
<1>2. /\ conns' = conns /\ clients' = clients /\ conn' = conn /\ refs' = refs /\ server'.early = server.early
      /\ "data" \in netLost' <=> "data" \in netLost
      /\ netMain' = netMain \/ (netMain.at # "close" /\ netMain'.at # "close")
  BY DEF Quiet
<1>3. \A kind, c : Waits(kind, c)' <=> Waits(kind, c)
  BY <1>1 DEF Waits
<1>4. \A c : HasItem(c)' <=> HasItem(c)
  BY <1>1 DEF HasItem
<1>5. \A c, m : HasData(c, m)' <=> HasData(c, m)
  BY <1>1 DEF HasData
<1>6. \A g \in Socks : Listed(g)' <=> Listed(g)
  BY <1>1, <1>2 DEF Listed, InSeq
<1>7. SocketsAgree'
  <2>1. SocketsAgree
    BY DEF NetInvariant
  <2>2. "reused" \notin netLost' <=> "reused" \notin netLost
    BY DEF Quiet
  <2> QED
    BY <1>1, <1>2, <2>1, <2>2 DEF SocketsAgree, Distinct, InSeq
<1>8. NoCloseLost' <=> NoCloseLost
  BY DEF Quiet, NoCloseLost
<1>9. ItemsAgree'
  <2>1. \A a \in NetPending : ItemOk(a)' <=> ItemOk(a)
    BY <1>1, <1>2 DEF ItemOk
  <2> QED
    BY <1>1, <2>1 DEF NetInvariant, ItemsAgree, PairOk
<1>10. DropsExplained' /\ (Regular' <=> Regular)
  BY <1>2, <1>8 DEF NetInvariant, DropsExplained, Regular, DroppedOnce
<1>11. ASSUME Regular PROVE ItemsRegular' /\ SocksRegular' /\ ConnsRegular' /\ DataRegular'
  <2>1. ItemsRegular /\ SocksRegular /\ ConnsRegular /\ DataRegular
    BY <1>11 DEF NetInvariant
  <2>2. ItemsRegular'
    <3>0. ItemsAgree
      BY DEF NetInvariant
    <3>1. ASSUME NEW a \in NetPending PROVE RegItem(a)'
      <4>1. RegItem(a) /\ (a.h # 0 => a.h \in Socks)
        BY <2>1, <3>0, <3>1 DEF ItemsRegular, ItemsAgree, ItemOk
      <4> QED
        BY <1>1, <1>2, <1>3, <4>1 DEF RegItem
    <3> QED
      BY <1>1, <1>2, <2>1, <3>1 DEF ItemsRegular, RegPair, SameContext
  <2>3. SocksRegular'
    <3>1. ASSUME NEW g \in Socks, RegSock(g) PROVE RegSock(g)'
      <4>0. PICK c : c = sock[g].conn
        OBVIOUS
      <4>1. sock'[g].conn = c /\ (netMain = [at |-> "close", h |-> g] => netMain' = [at |-> "close", h |-> g])
        BY <1>1, <1>2, <4>0
      <4>2. /\ ~Listed(g) => ~conn[c].open /\ ~HasItem(c)
            /\ Listed(g) =>
                 /\ conn[c].open \/ Waits("close", c) \/ Waits("clear", c) \/ netMain = [at |-> "close", h |-> g]
                 /\ conn[c].drops = IF Waits("clear", c) THEN 1 ELSE 0
                 /\ sock[g].client \/ (sock[g].closed <=> Waits("clear", c))
        BY <3>1, <4>0 DEF RegSock
      <4>3. sock'[g].client = sock[g].client /\ sock'[g].closed = sock[g].closed /\ conn' = conn
        BY <1>1, <1>2
      <4>4. (Waits("close", c)' <=> Waits("close", c)) /\ (Waits("clear", c)' <=> Waits("clear", c))
        BY <1>3
      <4>5. (HasItem(c)' <=> HasItem(c)) /\ (Listed(g)' <=> Listed(g))
        BY <1>4, <1>6
      <4>6. ~Listed(g)' => ~conn'[c].open /\ ~HasItem(c)'
        BY <4>2, <4>3, <4>5
      <4>7. Listed(g)' => conn'[c].open \/ Waits("close", c)' \/ Waits("clear", c)' \/ netMain' = [at |-> "close", h |-> g]
        BY <4>1, <4>2, <4>3, <4>4, <4>5
      <4>8. Listed(g)' => conn'[c].drops = IF Waits("clear", c)' THEN 1 ELSE 0
        BY <4>2, <4>3, <4>4, <4>5
      <4>9. Listed(g)' => sock'[g].client \/ (sock'[g].closed <=> Waits("clear", c)')
        BY <4>2, <4>3, <4>4, <4>5
      <4> QED
        BY <4>1, <4>6, <4>7, <4>8, <4>9 DEF RegSock
    <3>2. \A g \in Socks : sock'[g].conn # 0 => RegSock(g)'
      BY <1>1, <2>1, <3>1 DEF SocksRegular
    <3>3. RegMain'
      <4>1. CASE netMain.at # "close" /\ netMain'.at # "close"
        BY <4>1 DEF RegMain
      <4>2. CASE netMain' = netMain /\ netMain.at = "close"
        <5>1. netMain.h \in Socks
          BY <4>2 DEF NetInvariant, SocketsAgree
        <5>2. RegMain
          BY <2>1 DEF SocksRegular
        <5>3. sock'[netMain.h].conn = sock[netMain.h].conn /\ (Listed(netMain.h) => Listed(netMain.h)')
          BY <1>1, <1>6, <4>2, <5>1
        <5> QED
          BY <1>2, <1>4, <4>2, <5>2, <5>3 DEF RegMain
      <4> QED
        BY <1>2, <4>1, <4>2
    <3>4. \A g, h \in Socks : InSeq(g, clients') /\ InSeq(h, clients') /\ sock'[g].ctx = sock'[h].ctx
                               /\ sock'[g].ctx # NoContext => g = h
      BY <1>1, <1>2, <2>1 DEF SocksRegular
    <3> QED
      BY <1>1, <3>2, <3>3, <3>4 DEF SocksRegular
  <2>4. ConnsRegular'
    <3>1. \A c \in DOMAIN conn : RegRefs(c)' <=> RegRefs(c)
      BY <1>1, <1>2 DEF RegRefs, InSeq
    <3> QED
      BY <1>1, <1>2, <1>4, <2>1, <3>1 DEF ConnsRegular, SameContext
  <2>5. DataRegular'
    <3>1. ASSUME NEW g \in Socks, RegData(g) PROVE RegData(g)'
      <4> DEFINE data == DataOf(sock[g])
                 c == sock[g].conn
      <4>1. DataOf(sock'[g]) = data /\ sock'[g].conn = c
        BY <1>1
      <4>2. /\ c = 0 => data = <<>>
            /\ \A i \in DOMAIN data :
                 /\ data[i][1] = c /\ data[i][2] \in 1 .. conn[c].packets
                 /\ \A j \in 1 .. i - 1 : data[j][2] < data[i][2]
                 /\ \A a \in NetPending : a.kind = "data" /\ a.conn = c => data[i][2] < a.n
                 /\ "data" \notin netLost => data[i][2] = i
            /\ "data" \notin netLost /\ c # 0 /\ Listed(g) =>
                 \A m \in Len(data) + 1 .. conn[c].packets : HasData(c, m)
        BY <3>1 DEF RegData
      <4> HIDE DEF data, c
      <4> QED
        BY <1>1, <1>2, <1>5, <1>6, <4>1, <4>2 DEF RegData
    <3> QED
      BY <1>1, <1>2, <1>5, <2>1, <3>1 DEF DataRegular
  <2> QED
    BY <2>2, <2>3, <2>4, <2>5
<1> QED
  BY <1>7, <1>9, <1>10, <1>11 DEF NetInvariant

-----------------------------------------------------------------------------
(***************************************************************************)
(* One socket, or one connection, changes.                                 *)
(***************************************************************************)
LEMMA NetSockIs ==
  ASSUME sock \in Seq(SockRecs), NEW h \in Socks, NEW s \in SockRecs, sock' = [sock EXCEPT ![h] = s]
  PROVE  /\ sock' \in Seq(SockRecs) /\ DOMAIN sock' = DOMAIN sock /\ sock'[h] = s
         /\ \A g \in Socks : g # h => sock'[g] = sock[g]
  BY NetChanges DEF Socks

LEMMA NetSockTimer ==
  ASSUME NEW s \in SockRecs, NEW timer \in BOOLEAN, NEW t, t = [s EXCEPT !.timer = timer]
  PROVE  /\ t \in SockRecs /\ t.conn = s.conn /\ t.ctx = s.ctx /\ t.client = s.client /\ t.closed = s.closed
         /\ t.held = s.held /\ t.buf = s.buf /\ t.given = s.given
  BY DEF SockRecs

LEMMA NetSockPaused ==
  ASSUME NEW s \in SockRecs, NEW b \in BOOLEAN, NEW t, t = [s EXCEPT !.paused = b] \/ t = [s EXCEPT !.closing = b]
  PROVE  /\ t \in SockRecs /\ t.conn = s.conn /\ t.ctx = s.ctx /\ t.client = s.client /\ t.closed = s.closed
         /\ t.held = s.held /\ t.buf = s.buf /\ t.given = s.given
  BY DEF SockRecs

LEMMA NetSockCloses ==
  ASSUME NEW s \in SockRecs, NEW n \in Nat, NEW t, t = [s EXCEPT !.closes = n]
  PROVE  /\ t \in SockRecs /\ t.conn = s.conn /\ t.ctx = s.ctx /\ t.client = s.client /\ t.closed = s.closed
         /\ t.held = s.held /\ t.buf = s.buf /\ t.given = s.given
  BY DEF SockRecs

LEMMA NetSockFreed ==
  ASSUME NEW s \in SockRecs, NEW t, t = [s EXCEPT !.held = FALSE]
  PROVE  /\ t \in SockRecs /\ t.conn = s.conn /\ t.ctx = s.ctx /\ t.client = s.client /\ t.closed = s.closed
         /\ ~t.held /\ t.buf = s.buf /\ t.given = s.given
  BY DEF SockRecs

LEMMA NetSockContext ==
  ASSUME NEW s \in SockRecs, NEW context \in Contexts, NEW t, t = [s EXCEPT !.ctx = context]
  PROVE  /\ t \in SockRecs /\ t.conn = s.conn /\ t.ctx = context /\ t.client = s.client /\ t.closed = s.closed
         /\ t.held = s.held /\ t.buf = s.buf /\ t.given = s.given
  BY DEF SockRecs

\* The same for a connection.
LEMMA NetConnPacket ==
  ASSUME NEW s \in ConnRecs, NEW n \in Nat, NEW t, t = [s EXCEPT !.packets = n]
  PROVE  t \in ConnRecs /\ t.ctx = s.ctx /\ t.client = s.client /\ t.open = s.open /\ t.packets = n
         /\ t.early = s.early /\ t.drops = s.drops
  BY DEF ConnRecs

LEMMA NetConnShut ==
  ASSUME NEW s \in ConnRecs, NEW t, t = [s EXCEPT !.open = FALSE]
  PROVE  t \in ConnRecs /\ t.ctx = s.ctx /\ t.client = s.client /\ ~t.open /\ t.packets = s.packets
         /\ t.early = s.early /\ t.drops = s.drops
  BY DEF ConnRecs

LEMMA NetConnEarly ==
  ASSUME NEW s \in ConnRecs, NEW t, t = [s EXCEPT !.open = FALSE, !.early = TRUE]
  PROVE  t \in ConnRecs /\ t.ctx = s.ctx /\ t.client = s.client /\ ~t.open /\ t.packets = s.packets
         /\ t.early /\ t.drops = s.drops
  BY DEF ConnRecs

LEMMA NetConnDrop ==
  ASSUME NEW s \in ConnRecs, NEW t, t = [s EXCEPT !.drops = s.drops + 1]
  PROVE  t \in ConnRecs /\ t.ctx = s.ctx /\ t.client = s.client /\ t.open = s.open /\ t.packets = s.packets
         /\ t.early = s.early /\ t.drops = s.drops + 1
  BY DEF ConnRecs

LEMMA NetConnNew ==
  ASSUME NEW context \in Contexts, NEW client \in BOOLEAN, NEW t,
         t = [ctx |-> context, client |-> client, open |-> TRUE, packets |-> 0, early |-> FALSE, drops |-> 0]
  PROVE  t \in ConnRecs /\ t.ctx = context /\ t.client = client /\ t.open /\ t.packets = 0 /\ ~t.early /\ t.drops = 0
  BY DEF ConnRecs

\* An "event" that is deferred changes nothing that counts, nor does one that is taken.
LEMMA NetEvents ==
  ASSUME netRing \in Seq(NetItems), NEW h \in Nat, Queue(Event(h))
  PROVE  /\ netRing' \in Seq(NetItems) /\ SameRing
         /\ DeferItem(Event(h)) => netLost' = netLost
<1>9. PICK n \in {0, 1} : Event(h) = Item("event", 0, h, n)
  BY DEF Event
<1> DEFINE item == Item("event", 0, h, n)
<1>1. item \in NetItems /\ item.kind = "event"
  <2>1. n \in Nat /\ 0 \in Nat
    OBVIOUS
  <2> QED
    BY ONLY <2>1, h \in Nat, NetItemTyped
<1>2. Queue(item) /\ (DeferItem(Event(h)) => netLost' = netLost \cup Lost(item))
  BY <1>9 DEF DeferItem
<1> HIDE DEF item
<1>3. /\ netRing' \in Seq(NetItems) /\ NetPending' = NetPending /\ Lost(item) \subseteq {item.kind} \ {"event"}
      /\ \A a, b \in NetPending' : Before(a, b)' => Before(a, b) \/ (a \in NetPending /\ b = item)
  BY <1>1, <1>2, NetQueues
<1>4. item \notin NetPending
  BY <1>1 DEF NetPending
<1>5. DeferItem(Event(h)) => netLost' = netLost
  BY <1>1, <1>2, <1>3
<1> QED
  BY <1>3, <1>4, <1>5 DEF SameRing

LEMMA NetSameRing ==
  ASSUME UNCHANGED netRing
  PROVE  SameRing
  BY DEF SameRing, NetPending, Before

LEMMA NetSameSocks ==
  ASSUME UNCHANGED sock
  PROVE  SameSocks
  BY DEF SameSocks

LEMMA NetSameSock ==
  ASSUME sock \in Seq(SockRecs), NEW h \in Socks, NEW s \in SockRecs, sock' = [sock EXCEPT ![h] = s],
         s.conn = sock[h].conn, s.ctx = sock[h].ctx, s.client = sock[h].client, s.closed = sock[h].closed,
         s.held = sock[h].held, s.buf = sock[h].buf, s.given = sock[h].given
  PROVE  sock' \in Seq(SockRecs) /\ SameSocks
<1>1. /\ sock' \in Seq(SockRecs) /\ DOMAIN sock' = DOMAIN sock /\ sock'[h] = s
      /\ \A g \in Socks : g # h => sock'[g] = sock[g]
  BY NetSockIs
<1> QED
  BY <1>1 DEF SameSocks, Socks

LEMMA NetSockTyped ==
  ASSUME NEW socks \in Seq(SockRecs), NEW h \in DOMAIN socks
  PROVE  /\ socks[h] \in SockRecs /\ socks[h].conn \in Nat /\ socks[h].ctx \in Contexts \cup {NoContext}
         /\ socks[h].client \in BOOLEAN /\ socks[h].closed \in BOOLEAN /\ socks[h].held \in BOOLEAN
         /\ socks[h].timeout \in BOOLEAN /\ socks[h].timer \in BOOLEAN /\ socks[h].paused \in BOOLEAN
         /\ socks[h].buf \in Seq(PacketIds) /\ socks[h].given \in Seq(PacketIds) /\ socks[h].closes \in Nat
         /\ h \in Nat \ {0} /\ h <= Len(socks)
<1>1. socks[h] \in SockRecs /\ h \in 1 .. Len(socks) /\ Len(socks) \in Nat
  BY LenProperties, ElementOfSeq
<1> QED
  BY <1>1 DEF SockRecs

LEMMA NetConnTyped ==
  ASSUME NEW list \in Seq(ConnRecs), NEW c \in DOMAIN list
  PROVE  /\ list[c] \in ConnRecs /\ list[c].ctx \in Contexts /\ list[c].client \in BOOLEAN /\ list[c].open \in BOOLEAN
         /\ list[c].packets \in Nat /\ list[c].early \in BOOLEAN /\ list[c].drops \in Nat
         /\ c \in Nat \ {0} /\ c <= Len(list)
<1>1. list[c] \in ConnRecs /\ c \in 1 .. Len(list) /\ Len(list) \in Nat
  BY LenProperties, ElementOfSeq
<1> QED
  BY <1>1 DEF ConnRecs

LEMMA NetConnsTyped ==
  ASSUME NetAssumption, NetTypes
  PROVE  \A c \in DOMAIN conn :
           /\ conn[c] \in ConnRecs
           /\ conn[c].ctx \in Contexts /\ conn[c].ctx # NoContext /\ conn[c].client \in BOOLEAN
           /\ conn[c].packets \in Nat /\ conn[c].drops \in Nat /\ c \in Nat \ {0} /\ c \in Nat /\ c # 0
<1>1. conn \in Seq(ConnRecs) /\ NoContext \notin Contexts
  BY DEF NetTypes, NetAssumption
<1> SUFFICES ASSUME NEW c \in DOMAIN conn
             PROVE  /\ conn[c] \in ConnRecs
                    /\ conn[c].ctx \in Contexts /\ conn[c].ctx # NoContext /\ conn[c].client \in BOOLEAN
                    /\ conn[c].packets \in Nat /\ conn[c].drops \in Nat /\ c \in Nat \ {0} /\ c \in Nat /\ c # 0
  OBVIOUS
<1> QED
  BY <1>1, NetConnTyped

\* The socket's timer, its timeout or its pause changes.
LEMMA NetQuietSocks ==
  ASSUME NetTypes, NEW h \in Socks,
         \/ sock' = Restarted(h)
         \/ sock' = [sock EXCEPT ![h] = [sock[h] EXCEPT !.timeout = FALSE, !.timer = FALSE]]
         \/ sock' = [sock EXCEPT ![h].paused = ~sock[h].paused]
         \/ \E time \in BOOLEAN : sock' = [sock EXCEPT ![h] = [sock[h] EXCEPT !.timeout = time, !.timer = time]]
  PROVE  sock' \in Seq(SockRecs) /\ SameSocks
<1>0. sock \in Seq(SockRecs)
  BY DEF NetTypes
<1>1. sock[h] \in SockRecs /\ sock[h].timeout \in BOOLEAN /\ (~sock[h].paused) \in BOOLEAN
  BY <1>0, NetSockTyped DEF Socks
<1>2. CASE sock' = Restarted(h)
  <2>9. PICK s : s = [sock[h] EXCEPT !.timer = sock[h].timeout]
    OBVIOUS
  <2>1. sock' = [sock EXCEPT ![h] = s]
    BY <1>2, <2>9 DEF Restarted
  <2>2. /\ s \in SockRecs /\ s.conn = sock[h].conn /\ s.ctx = sock[h].ctx /\ s.client = sock[h].client /\ s.closed = sock[h].closed
        /\ s.held = sock[h].held /\ s.buf = sock[h].buf /\ s.given = sock[h].given
    BY ONLY <1>1, <2>9, NetSockTimer
  <2> QED
    BY <1>0, <2>1, <2>2, NetSameSock
<1>3. CASE sock' = [sock EXCEPT ![h].paused = ~sock[h].paused]
  <2>9. PICK s : s = [sock[h] EXCEPT !.paused = ~sock[h].paused]
    OBVIOUS
  <2>1. sock' = [sock EXCEPT ![h] = s]
    BY <1>3, <2>9
  <2>2. /\ s \in SockRecs /\ s.conn = sock[h].conn /\ s.ctx = sock[h].ctx /\ s.client = sock[h].client /\ s.closed = sock[h].closed
        /\ s.held = sock[h].held /\ s.buf = sock[h].buf /\ s.given = sock[h].given
    BY ONLY <1>1, <2>9 DEF SockRecs
  <2> QED
    BY <1>0, <2>1, <2>2, NetSameSock
<1>4. CASE sock' = [sock EXCEPT ![h] = [sock[h] EXCEPT !.timeout = FALSE, !.timer = FALSE]]
  <2>9. PICK s : s = [sock[h] EXCEPT !.timeout = FALSE, !.timer = FALSE]
    OBVIOUS
  <2>2. /\ s \in SockRecs /\ s.conn = sock[h].conn /\ s.ctx = sock[h].ctx /\ s.client = sock[h].client /\ s.closed = sock[h].closed
        /\ s.held = sock[h].held /\ s.buf = sock[h].buf /\ s.given = sock[h].given
    BY ONLY <1>1, <2>9 DEF SockRecs
  <2>1. sock' = [sock EXCEPT ![h] = s]
    BY <1>4, <2>9
  <2> QED
    BY <1>0, <2>1, <2>2, NetSameSock
<1>5. CASE \E time \in BOOLEAN : sock' = [sock EXCEPT ![h] = [sock[h] EXCEPT !.timeout = time, !.timer = time]]
  <2>0. PICK time \in BOOLEAN : sock' = [sock EXCEPT ![h] = [sock[h] EXCEPT !.timeout = time, !.timer = time]]
    BY <1>5
  <2>9. PICK s : s = [sock[h] EXCEPT !.timeout = time, !.timer = time]
    OBVIOUS
  <2>2. /\ s \in SockRecs /\ s.conn = sock[h].conn /\ s.ctx = sock[h].ctx /\ s.client = sock[h].client /\ s.closed = sock[h].closed
        /\ s.held = sock[h].held /\ s.buf = sock[h].buf /\ s.given = sock[h].given
    BY ONLY <1>1, <2>9 DEF SockRecs
  <2>1. sock' = [sock EXCEPT ![h] = s]
    BY <2>0, <2>9
  <2> QED
    BY <1>0, <2>1, <2>2, NetSameSock
<1> QED
  BY <1>2, <1>3, <1>4, <1>5

\* What these steps have in common.
QuietStep ==
  \/ TcpAcceptedFails \/ EmitOther \/ ReleasePacket \/ ListenersReturn \/ ServerListen \/ CollectServer
  \/ \E h \in Socks : SocketTimeout(h) \/ PauseOrResume(h) \/ SocketWrite(h)
  \/ \E h \in Socks, time \in BOOLEAN : SetSocketTimeout(h, time)

LEMMA NetQuietSteps ==
  ASSUME NetTypes, ServerCloses, QuietStep
  PROVE  NetTypes' /\ Quiet /\ ServerCloses'
<1> USE DEF NetTypes
<1>1. netRing' \in Seq(NetItems) /\ SameRing /\ netLost' = netLost
  <2>0. 0 \in Nat /\ Socks \subseteq Nat
    BY LenProperties DEF Socks
  <2>1. ASSUME NEW h \in Nat, DeferItem(Event(h))
        PROVE  netRing' \in Seq(NetItems) /\ SameRing /\ netLost' = netLost
    BY <2>1, NetEvents DEF DeferItem
  <2>2. CASE UNCHANGED <<netRing, netLost>>
    BY <2>2, NetSameRing
  <2>3. CASE EmitOther
    <3>1. netRing # <<>> /\ netRing' = Tail(netRing) /\ Head(netRing).kind = "event" /\ netLost' = netLost
      BY <2>3 DEF EmitOther, Take, Upcoming
    <3> DEFINE first == Head(netRing)
    <3>2. /\ netRing' \in Seq(NetItems) /\ (first.kind = "event" => NetPending' = NetPending)
          /\ \A a, b \in NetPending' : Before(a, b)' => Before(a, b)
      BY <3>1, NetTakes
    <3> QED
      BY <3>1, <3>2 DEF SameRing
  <2> QED
    BY <2>0, <2>1, <2>2, <2>3 DEF QuietStep, TcpAcceptedFails, ReleasePacket, ListenersReturn, ServerListen,
                                  CollectServer, SocketTimeout, PauseOrResume, SocketWrite, SetSocketTimeout
<1>2. sock' \in Seq(SockRecs) /\ SameSocks
  <2>1. CASE \E h \in Socks : SocketTimeout(h) \/ PauseOrResume(h) \/ SocketWrite(h)
    <3>1. PICK h \in Socks : SocketTimeout(h) \/ PauseOrResume(h) \/ SocketWrite(h)
      BY <2>1
    <3>2. \/ sock' = Restarted(h)
          \/ sock' = [sock EXCEPT ![h] = [sock[h] EXCEPT !.timeout = FALSE, !.timer = FALSE]]
          \/ sock' = [sock EXCEPT ![h].paused = ~sock[h].paused]
      BY <3>1 DEF SocketTimeout, PauseOrResume, SocketWrite
    <3> QED
      BY <3>2, NetQuietSocks
  <2>2. CASE \E h \in Socks, time \in BOOLEAN : SetSocketTimeout(h, time)
    <3>1. PICK h \in Socks, time \in BOOLEAN : SetSocketTimeout(h, time)
      BY <2>2
    <3>2. sock' = [sock EXCEPT ![h] = [sock[h] EXCEPT !.timeout = time, !.timer = time]]
      BY <3>1 DEF SetSocketTimeout
    <3> QED
      BY <3>2, NetQuietSocks
  <2>3. CASE UNCHANGED sock
    BY <2>3, NetSameSocks
  <2> QED
    BY <2>1, <2>2, <2>3 DEF QuietStep, TcpAcceptedFails, EmitOther, ReleasePacket, ListenersReturn, ServerListen, CollectServer
<1>3. UNCHANGED <<conns, clients, conn, refs>>
  BY DEF QuietStep, TcpAcceptedFails, EmitOther, ReleasePacket, ListenersReturn, ServerListen, CollectServer, SocketTimeout,
         PauseOrResume, SocketWrite, SetSocketTimeout
<1>4. /\ server' \in [listening : BOOLEAN, closed : BOOLEAN, early : Contexts \cup {NoContext}, closes : Nat, collected : BOOLEAN]
      /\ server'.early = server.early /\ server'.closed = server.closed /\ server'.closes = server.closes
  <2>1. server' = server \/ server' = [server EXCEPT !.listening = TRUE] \/ server' = [server EXCEPT !.collected = TRUE]
    BY DEF QuietStep, TcpAcceptedFails, EmitOther, ReleasePacket, ListenersReturn, ServerListen, CollectServer, SocketTimeout,
           PauseOrResume, SocketWrite, SetSocketTimeout
  <2>2. server \in [listening : BOOLEAN, closed : BOOLEAN, early : Contexts \cup {NoContext}, closes : Nat, collected : BOOLEAN]
    OBVIOUS
  <2> QED
    BY ONLY <2>1, <2>2
<1>5. /\ netMain' \in [at : {"idle", "connection", "copy", "data", "close"}, h : Nat]
      /\ netMain' = netMain \/ (netMain.at # "close" /\ netMain'.at # "close")
  <2>1. \/ netMain' = netMain
        \/ netMain' = NetIdle /\ netMain.at \in {"connection", "data"}
        \/ netMain = NetIdle /\ netMain' = [at |-> "copy", h |-> 0]
    BY DEF QuietStep, TcpAcceptedFails, EmitOther, ReleasePacket, ListenersReturn, ServerListen, CollectServer, SocketTimeout,
           PauseOrResume, SocketWrite, SetSocketTimeout
  <2> QED
    BY <2>1 DEF NetIdle
<1>6. Socks' = Socks
  BY <1>2 DEF SameSocks, Socks
<1>7. ServerCloses'
  BY <1>1, <1>3, <1>4 DEF ServerCloses, SameRing
<1>8. Quiet
  BY <1>1, <1>2, <1>3, <1>4, <1>5 DEF Quiet
<1> QED
  BY <1>1, <1>2, <1>3, <1>4, <1>5, <1>6, <1>7, <1>8

LEMMA NetQuietKeeps ==
  ASSUME NetInv, QuietStep
  PROVE  NetInv'
<1>1. NetTypes /\ NetInvariant /\ ServerCloses
  BY DEF NetInv, NetInvariant
<1>2. NetTypes' /\ Quiet /\ ServerCloses'
  BY <1>1, NetQuietSteps
<1> QED
  BY <1>1, <1>2, NetQuiet DEF NetInv

-----------------------------------------------------------------------------
(***************************************************************************)
(* The parts of the invariant that a step leaves alone.                    *)
(***************************************************************************)
ConnsGrow ==
  /\ DOMAIN conn \subseteq DOMAIN conn'
  /\ \A c \in DOMAIN conn :
       /\ conn'[c].ctx = conn[c].ctx /\ conn'[c].client = conn[c].client
       /\ conn'[c].open => conn[c].open
       /\ conn[c].early => conn'[c].early
       /\ conn[c].drops <= conn'[c].drops /\ conn[c].packets <= conn'[c].packets
SameSockets ==
  /\ DOMAIN sock' = DOMAIN sock
  /\ \A g \in Socks : /\ sock'[g].conn = sock[g].conn /\ sock'[g].ctx = sock[g].ctx
                      /\ sock'[g].client = sock[g].client /\ sock'[g].held = sock[g].held
  /\ conns' = conns /\ clients' = clients

LEMMA NetRegularBefore ==
  ASSUME NetTypes, NetTypes', ConnsGrow, netLost \subseteq netLost', Regular'
  PROVE  Regular
<1>1. NoCloseLost
  BY DEF Regular, NoCloseLost
<1>2. ASSUME NEW c \in DOMAIN conn PROVE conn[c].drops <= 1
  <2>1. conn[c].drops \in Nat
    BY NetConnTyped DEF NetTypes
  <2>2. c \in DOMAIN conn' /\ conn[c].drops <= conn'[c].drops
    BY DEF ConnsGrow
  <2>3. conn'[c].drops <= 1
    BY <2>2 DEF Regular, DroppedOnce
  <2>4. conn'[c].drops \in Nat
    BY <2>2, NetConnTyped DEF NetTypes
  <2> QED
    BY <2>1, <2>2, <2>3, <2>4
<1> QED
  BY <1>1, <1>2 DEF Regular, DroppedOnce

LEMMA NetSocketsKept ==
  ASSUME SocketsAgree, SameSockets, ConnsGrow,
         \A c \in DOMAIN conn' : c \in DOMAIN conn \/ ~conn'[c].client, "reused" \in netLost => "reused" \in netLost',
         netMain'.at = "close" => netMain'.h \in Socks /\ sock[netMain'.h].held
  PROVE  SocketsAgree'
<1>1. Socks' = Socks
  BY DEF SameSockets, Socks
<1>2. Distinct(conns)' /\ Distinct(clients)'
  BY DEF SocketsAgree, SameSockets, Distinct
<1>3. ASSUME NEW g \in Socks
      PROVE  /\ InSeq(g, conns') <=> ~sock'[g].client /\ sock'[g].held
             /\ InSeq(g, clients') => sock'[g].client
             /\ sock'[g].client => sock'[g].held
             /\ sock'[g].conn # 0 => /\ sock'[g].conn \in DOMAIN conn'
                                     /\ conn'[sock'[g].conn].ctx = sock'[g].ctx
                                     /\ conn'[sock'[g].conn].client = sock'[g].client
             /\ ~sock'[g].client => sock'[g].conn # 0
             /\ \A h \in Socks : sock'[g].conn = sock'[h].conn /\ sock'[g].conn # 0 => g = h
  BY DEF SocketsAgree, SameSockets, ConnsGrow
<1>4. "reused" \notin netLost' => \A c \in DOMAIN conn' : conn'[c].client => \E g \in Socks : sock'[g].conn = c
  BY DEF SocketsAgree, SameSockets, ConnsGrow
<1>5. netMain'.at = "close" => netMain'.h \in Socks /\ sock'[netMain'.h].held
  BY DEF SameSockets
<1> QED
  BY <1>1, <1>2, <1>3, <1>4, <1>5 DEF SocketsAgree

LEMMA NetClosesKept ==
  ASSUME ServerCloses, netLost \subseteq netLost', server'.closed = server.closed, server'.closes = server.closes,
         conns' = <<>> <=> conns = <<>>, \A a \in NetPending' : a.kind = "accept" => a \in NetPending
  PROVE  ServerCloses'
  BY DEF ServerCloses

LEMMA NetItemOkKept ==
  ASSUME NetTypes, NetTypes', ConnsGrow, Socks \subseteq Socks', NEW a \in NetPending, ItemOk(a),
         a.kind = "accept" => conn'[a.conn].drops = 0 /\ \A g \in Socks' : sock'[g].conn # a.conn
  PROVE  ItemOk(a)'
<1>1. a.conn \in DOMAIN conn /\ a.conn \in DOMAIN conn'
  BY DEF ItemOk, ConnsGrow
<1>2. conn[a.conn].packets \in Nat
  BY <1>1, NetConnTyped DEF NetTypes
<1>3. conn'[a.conn].packets \in Nat
  BY <1>1, NetConnTyped DEF NetTypes
<1>4. a.kind = "data" => a.n \in 1 .. conn'[a.conn].packets
  <2>1. conn[a.conn].packets <= conn'[a.conn].packets
    BY <1>1 DEF ConnsGrow
  <2> QED
    BY <1>2, <1>3, <2>1 DEF ItemOk
<1> QED
  BY <1>1, <1>4 DEF ItemOk, ConnsGrow

LEMMA NetDropsKept ==
  ASSUME NetTypes, NetTypes', DropsExplained, ConnsGrow, netLost \subseteq netLost',
         \A c \in DOMAIN conn' : (c \in DOMAIN conn /\ conn'[c].drops = conn[c].drops) \/ conn'[c].drops = 0
  PROVE  DropsExplained'
<1>1. ASSUME NoCloseLost', ~DroppedOnce' PROVE \E c \in DOMAIN conn' : conn'[c].early /\ conn'[c].drops > 1
  <2>1. NoCloseLost
    BY <1>1 DEF NoCloseLost
  <2>2. PICK d \in DOMAIN conn' : ~(conn'[d].drops <= 1)
    BY <1>1 DEF DroppedOnce
  <2>3. d \in DOMAIN conn /\ ~(conn[d].drops <= 1)
    BY <2>2
  <2>4. PICK c \in DOMAIN conn : conn[c].early /\ conn[c].drops > 1
    BY <2>1, <2>3 DEF DropsExplained, DroppedOnce
  <2>5. c \in DOMAIN conn' /\ conn'[c].early
    BY <2>4 DEF ConnsGrow
  <2>6. conn'[c].drops = conn[c].drops \/ conn'[c].drops = 0
    BY <2>5
  <2>7. conn[c].drops <= conn'[c].drops
    BY DEF ConnsGrow
  <2>9. conn[c].drops \in Nat /\ conn'[c].drops \in Nat
    BY <2>5, NetConnTyped DEF NetTypes
  <2>8. ~(conn'[c].drops = 0)
    BY <2>4, <2>7, <2>9
  <2> QED
    BY <2>4, <2>5, <2>6, <2>8
<1> QED
  BY <1>1 DEF DropsExplained

\* A context dropped once more: the first time, or for a connection that was closed early.
LEMMA NetDropsMore ==
  ASSUME NetTypes, NetTypes', DropsExplained, ConnsGrow, netLost \subseteq netLost', NEW d \in DOMAIN conn,
         DOMAIN conn' = DOMAIN conn, \A c \in DOMAIN conn : c # d => conn'[c].drops = conn[c].drops,
         conn'[d].drops = conn[d].drops + 1,
         Regular => conn[d].drops = 0 \/ conn[d].early
  PROVE  DropsExplained'
<1>0. ASSUME NEW c \in DOMAIN conn PROVE conn[c].drops \in Nat /\ conn'[c].drops \in Nat
  <2>1. conn[c].drops \in Nat
    BY NetConnTyped DEF NetTypes
  <2>2. conn'[c].drops \in Nat
    BY NetConnTyped DEF NetTypes, ConnsGrow
  <2> QED
    BY <2>1, <2>2
<1>1. ASSUME NoCloseLost', ~DroppedOnce' PROVE \E c \in DOMAIN conn' : conn'[c].early /\ conn'[c].drops > 1
  <2>1. NoCloseLost
    BY <1>1 DEF NoCloseLost
  <2>2. CASE ~DroppedOnce
    <3>1. PICK c \in DOMAIN conn : conn[c].early /\ conn[c].drops > 1
      BY <2>1, <2>2 DEF DropsExplained
    <3>2. conn'[c].early /\ conn[c].drops <= conn'[c].drops
      BY <3>1 DEF ConnsGrow
    <3>3. conn'[c].drops > 1
      BY <1>0, <3>1, <3>2
    <3> QED
      BY <3>2, <3>3
  <2>3. CASE DroppedOnce
    <3>1. PICK c \in DOMAIN conn : ~(conn'[c].drops <= 1)
      BY <1>1 DEF DroppedOnce
    <3>2. conn[c].drops <= 1
      BY <2>3 DEF DroppedOnce
    <3>3. c = d
      BY <3>1, <3>2
    <3>4. conn'[d].drops > 1 /\ conn[d].drops # 0
      BY <1>0, <3>1, <3>2, <3>3
    <3>5. conn[d].early
      BY <2>1, <2>3, <3>4 DEF Regular
    <3> QED
      BY <3>4, <3>5 DEF ConnsGrow
  <2> QED
    BY <2>2, <2>3
<1> QED
  BY <1>1 DEF DropsExplained

-----------------------------------------------------------------------------
(***************************************************************************)
(* What still waits when an item is put, or taken.                         *)
(***************************************************************************)
PutOnly(item) ==
  /\ NetPending \subseteq NetPending' /\ NetPending' \subseteq NetPending \cup {item}
  /\ \A a, b \in NetPending' : Before(a, b)' => \/ a \in NetPending /\ b \in NetPending /\ Before(a, b)
                                                \/ a \in NetPending /\ b = item
TakenOnly(first) ==
  /\ NetPending' \subseteq NetPending /\ NetPending \subseteq NetPending' \cup {first}
  /\ first \in NetPending /\ \A b \in NetPending' : Before(first, b)
  /\ \A a, b \in NetPending' : Before(a, b)' => Before(a, b)

LEMMA NetPutMeans ==
  ASSUME NEW item, PutOnly(item)
  PROVE  /\ \A kind, c : Waits(kind, c) => Waits(kind, c)'
         /\ \A kind, c : Waits(kind, c)' => Waits(kind, c) \/ (kind = item.kind /\ c = item.conn)
         /\ \A c : HasItem(c) => HasItem(c)'
         /\ \A c : HasItem(c)' => HasItem(c) \/ c = item.conn
         /\ \A c, m : HasData(c, m) => HasData(c, m)'
         /\ item \in NetPending' => Waits(item.kind, item.conn)' /\ HasItem(item.conn)'
         /\ item \in NetPending' /\ item.kind = "data" => HasData(item.conn, item.n)'
<1>1. NetPending \subseteq NetPending' /\ NetPending' \subseteq NetPending \cup {item}
  BY DEF PutOnly
<1>2. /\ \A kind, c : Waits(kind, c) => Waits(kind, c)'
      /\ \A kind, c : Waits(kind, c)' => Waits(kind, c) \/ (kind = item.kind /\ c = item.conn)
      /\ item \in NetPending' => Waits(item.kind, item.conn)'
  BY <1>1 DEF Waits
<1>3. /\ \A c : HasItem(c) => HasItem(c)'
      /\ \A c : HasItem(c)' => HasItem(c) \/ c = item.conn
      /\ item \in NetPending' => HasItem(item.conn)'
  BY <1>1 DEF HasItem
<1>4. /\ \A c, m : HasData(c, m) => HasData(c, m)'
      /\ item \in NetPending' /\ item.kind = "data" => HasData(item.conn, item.n)'
  BY <1>1 DEF HasData
<1> QED
  BY <1>2, <1>3, <1>4

LEMMA NetTakenMeans ==
  ASSUME NEW first, TakenOnly(first)
  PROVE  /\ \A kind, c : Waits(kind, c)' => Waits(kind, c)
         /\ \A kind, c : Waits(kind, c) => Waits(kind, c)' \/ (kind = first.kind /\ c = first.conn)
         /\ \A c : HasItem(c)' => HasItem(c)
         /\ \A c : HasItem(c) => HasItem(c)' \/ c = first.conn
         /\ \A c, m : HasData(c, m) => HasData(c, m)' \/ (first.kind = "data" /\ c = first.conn /\ m = first.n)
         /\ Waits(first.kind, first.conn) /\ HasItem(first.conn)
<1>1. NetPending' \subseteq NetPending /\ NetPending \subseteq NetPending' \cup {first} /\ first \in NetPending
  BY DEF TakenOnly
<1>2. /\ \A kind, c : Waits(kind, c)' => Waits(kind, c)
      /\ \A kind, c : Waits(kind, c) => Waits(kind, c)' \/ (kind = first.kind /\ c = first.conn)
      /\ Waits(first.kind, first.conn)
  BY <1>1 DEF Waits
<1>3. /\ \A c : HasItem(c)' => HasItem(c)
      /\ \A c : HasItem(c) => HasItem(c)' \/ c = first.conn
      /\ HasItem(first.conn)
  BY <1>1 DEF HasItem
<1>4. \A c, m : HasData(c, m) => HasData(c, m)' \/ (first.kind = "data" /\ c = first.conn /\ m = first.n)
  BY <1>1 DEF HasData
<1> QED
  BY <1>2, <1>3, <1>4

\* Without a change of the ring nothing changes.
LEMMA NetRingKept ==
  ASSUME SameRing
  PROVE  /\ NetPending' = NetPending /\ \A a, b \in NetPending' : Before(a, b)' => Before(a, b)
         /\ \A kind, c : Waits(kind, c)' <=> Waits(kind, c)
         /\ \A c : HasItem(c)' <=> HasItem(c)
         /\ \A c, m : HasData(c, m)' <=> HasData(c, m)
  BY DEF SameRing, Waits, HasItem, HasData

\* An item of a regular ring stays as it is.
LEMMA NetRegItemKept ==
  ASSUME NetTypes, ItemsAgree, ConnsGrow, NEW a \in NetPending', a \in NetPending, RegItem(a),
         Socks \subseteq Socks',
         \A g \in Socks : sock[g].conn # 0 => sock'[g].conn = sock[g].conn,
         a.kind = "accept" /\ conn[a.conn].open => conn'[a.conn].open,
         a.kind = "accept" /\ Waits("clear", a.conn) => Waits("clear", a.conn)',
         a.kind = "clear" => server'.early = server.early
  PROVE  RegItem(a)'
<1>1. a.conn \in DOMAIN conn
  BY DEF ItemsAgree, ItemOk
<1>2. /\ conn'[a.conn].ctx = conn[a.conn].ctx /\ conn'[a.conn].client = conn[a.conn].client
      /\ conn[a.conn].early => conn'[a.conn].early
  BY <1>1 DEF ConnsGrow
<1>3. ASSUME a.h # 0 PROVE sock'[a.h].conn = a.conn
  <2>1. a.h \in Socks /\ sock[a.h].conn = a.conn
    BY <1>3 DEF RegItem, ItemsAgree, ItemOk
  <2>2. a.conn # 0
    BY <1>1, NetConnTyped DEF NetTypes
  <2> QED
    BY <2>1, <2>2
<1> QED
  BY <1>2, <1>3 DEF RegItem

\* Nor does a socket, whose connection has what it had.
LEMMA NetRegSockKept ==
  ASSUME NEW g \in Socks, NEW c, c = sock[g].conn, sock'[g].conn = c, RegSock(g),
         sock'[g].client = sock[g].client, sock'[g].closed = sock[g].closed,
         conn'[c].open = conn[c].open, conn'[c].drops = conn[c].drops,
         Listed(g)' <=> Listed(g),
         Waits("close", c)' <=> Waits("close", c), Waits("clear", c)' <=> Waits("clear", c),
         HasItem(c)' => HasItem(c) \/ Listed(g),
         netMain = [at |-> "close", h |-> g] => netMain' = [at |-> "close", h |-> g]
  PROVE  RegSock(g)'
<1>1. /\ ~Listed(g) => ~conn[c].open /\ ~HasItem(c)
      /\ Listed(g) =>
           /\ conn[c].open \/ Waits("close", c) \/ Waits("clear", c) \/ netMain = [at |-> "close", h |-> g]
           /\ conn[c].drops = IF Waits("clear", c) THEN 1 ELSE 0
           /\ sock[g].client \/ (sock[g].closed <=> Waits("clear", c))
  BY DEF RegSock
<1>2. ~Listed(g)' => ~conn'[c].open /\ ~HasItem(c)'
  BY <1>1
<1>3. Listed(g)' => conn'[c].open \/ Waits("close", c)' \/ Waits("clear", c)' \/ netMain' = [at |-> "close", h |-> g]
  BY <1>1
<1>4. Listed(g)' => conn'[c].drops = IF Waits("clear", c)' THEN 1 ELSE 0
  BY <1>1
<1>5. Listed(g)' => sock'[g].client \/ (sock'[g].closed <=> Waits("clear", c)')
  BY <1>1
<1> QED
  BY <1>2, <1>3, <1>4, <1>5 DEF RegSock

\* Clients' sockets, as long as none is made or given a context.
LEMMA NetClientsKept ==
  ASSUME SocksRegular, \A g \in Socks' : InSeq(g, clients') /\ sock'[g].ctx # NoContext =>
                          g \in Socks /\ InSeq(g, clients) /\ sock'[g].ctx = sock[g].ctx
  PROVE  \A g, h \in Socks' : InSeq(g, clients') /\ InSeq(h, clients') /\ sock'[g].ctx = sock'[h].ctx
                               /\ sock'[g].ctx # NoContext => g = h
  BY DEF SocksRegular

LEMMA NetRegRefsKept ==
  ASSUME NEW c \in DOMAIN conn, RegRefs(c), conn'[c].ctx = conn[c].ctx, conn'[c].open = conn[c].open,
         conn'[c].drops = conn[c].drops, refs'[conn[c].ctx] = refs[conn[c].ctx],
         \A g \in Socks' : InSeq(g, clients') /\ sock'[g].ctx = conn[c].ctx =>
            g \in Socks /\ InSeq(g, clients) /\ sock[g].ctx = conn[c].ctx
  PROVE  RegRefs(c)'
  BY DEF RegRefs

\* The order of connections that have the same context.
RegOrder ==
  \A c, d \in DOMAIN conn : c < d /\ SameContext(c, d) =>
     /\ ~conn[c].open /\ conn[c].drops = 1
     /\ HasItem(c) => \A g \in Socks : sock[g].conn # d

LEMMA NetOrderKept ==
  ASSUME RegOrder, ConnsGrow, DOMAIN conn' = DOMAIN conn,
         \A c, d \in DOMAIN conn : c < d /\ SameContext(c, d) => conn'[c].drops = conn[c].drops,
         \A c, d \in DOMAIN conn : c < d /\ SameContext(c, d) /\ HasItem(c)' => HasItem(c),
         \A g \in Socks' : g \in Socks /\ sock'[g].conn = sock[g].conn
  PROVE  RegOrder'
<1>1. ASSUME NEW c \in DOMAIN conn, NEW d \in DOMAIN conn, c < d, SameContext(c, d)'
      PROVE  /\ ~conn'[c].open /\ conn'[c].drops = 1
             /\ HasItem(c)' => \A g \in Socks' : sock'[g].conn # d
  <2>1. SameContext(c, d)
    BY <1>1 DEF SameContext, ConnsGrow
  <2>2. /\ ~conn[c].open /\ conn[c].drops = 1
        /\ HasItem(c) => \A g \in Socks : sock[g].conn # d
    BY <1>1, <2>1 DEF RegOrder
  <2>3. ~conn'[c].open
    BY <2>2 DEF ConnsGrow
  <2> QED
    BY <1>1, <2>1, <2>2, <2>3
<1> QED
  BY <1>1 DEF RegOrder

LEMMA NetConnsRegularIs ==
  ConnsRegular <=> (\A c \in DOMAIN conn : ~conn[c].client => RegRefs(c)) /\ RegOrder
  BY DEF ConnsRegular, RegOrder

LEMMA NetRegDataKept ==
  ASSUME NEW g \in Socks, NEW c, c = sock[g].conn, sock'[g].conn = c, RegData(g),
         DataOf(sock'[g]) = DataOf(sock[g]),
         c # 0 => conn'[c].packets = conn[c].packets,
         \A a \in NetPending' : a.kind = "data" /\ a.conn = c => a \in NetPending,
         "data" \notin netLost' => "data" \notin netLost,
         Listed(g)' => Listed(g),
         "data" \notin netLost' /\ Listed(g)' => \A m \in Nat : HasData(c, m) => HasData(c, m)',
         Len(DataOf(sock[g])) \in Nat, c # 0 => conn[c].packets \in Nat,
         c = 0 \/ c \in DOMAIN conn
  PROVE  RegData(g)'
<1>0. PICK data : data = DataOf(sock[g])
  OBVIOUS
<1>1. /\ c = 0 => data = <<>>
      /\ \A i \in DOMAIN data :
           /\ data[i][1] = c /\ data[i][2] \in 1 .. conn[c].packets
           /\ \A j \in 1 .. i - 1 : data[j][2] < data[i][2]
           /\ \A a \in NetPending : a.kind = "data" /\ a.conn = c => data[i][2] < a.n
           /\ "data" \notin netLost => data[i][2] = i
      /\ "data" \notin netLost /\ c # 0 /\ Listed(g) =>
           \A m \in Len(data) + 1 .. conn[c].packets : HasData(c, m)
  BY <1>0 DEF RegData
<1>2. DataOf(sock'[g]) = data /\ sock'[g].conn = c
  BY <1>0
<1>3. \A i \in DOMAIN data : c # 0
  BY <1>1
<1>4. \A i \in DOMAIN data :
           /\ data[i][1] = c /\ data[i][2] \in 1 .. conn'[c].packets
           /\ \A j \in 1 .. i - 1 : data[j][2] < data[i][2]
           /\ \A a \in NetPending' : a.kind = "data" /\ a.conn = c => data[i][2] < a.n
           /\ "data" \notin netLost' => data[i][2] = i
  BY <1>1, <1>3
<1>5. "data" \notin netLost' /\ c # 0 /\ Listed(g)' => \A m \in Len(data) + 1 .. conn'[c].packets : HasData(c, m)'
  <2>1. c # 0 => \A m \in Len(data) + 1 .. conn[c].packets : m \in Nat
    BY <1>0
  <2> QED
    BY <1>1, <2>1
<1> QED
  BY <1>1, <1>2, <1>4, <1>5 DEF RegData

-----------------------------------------------------------------------------
(***************************************************************************)
(* The socket of a connection.                                             *)
(***************************************************************************)
\* An item that is put in.
LEMMA NetPuts ==
  ASSUME netRing \in Seq(NetItems), NEW item \in NetItems, Queue(item), item.kind # "event"
  PROVE  /\ netRing' \in Seq(NetItems) /\ PutOnly(item)
         /\ item \in NetPending' \/ item.kind \in Lost(item)
         /\ Lost(item) \subseteq {item.kind}
<1>1. /\ netRing' \in Seq(NetItems)
      /\ NetPending \subseteq NetPending' /\ NetPending' \subseteq NetPending \cup {item}
      /\ item \in NetPending' \/ item.kind \in Lost(item)
      /\ Lost(item) \subseteq {item.kind}
      /\ \A a, b \in NetPending' : Before(a, b)' => Before(a, b) \/ (a \in NetPending /\ b = item)
  BY NetQueues
<1>2. \A a \in NetPending' : a.kind # "event"
  BY DEF NetPending
<1>3. \A a, b : Before(a, b) /\ a.kind # "event" /\ b.kind # "event" => a \in NetPending /\ b \in NetPending
  BY DEF Before, NetPending
<1> QED
  BY <1>1, <1>2, <1>3 DEF PutOnly

\* An item that is taken out.
LEMMA NetTakesOut ==
  ASSUME NetTypes, NEW kind \in {"accept", "data", "close", "clear"}, Take(kind), NEW first, first = Head(netRing)
  PROVE  /\ netRing' \in Seq(NetItems) /\ first \in NetItems /\ first.kind = kind /\ TakenOnly(first)
         /\ first \in NetPending /\ netMain = NetIdle
<1>1. netRing \in Seq(NetItems) /\ netRing # <<>> /\ netRing' = Tail(netRing) /\ first.kind = kind /\ kind # "event" /\ netMain = NetIdle
  BY DEF NetTypes, Take, Upcoming
<1> QED
  BY <1>1, NetTakes DEF TakenOnly

LEMMA NetCopies ==
  ASSUME NetTypes, Copy, NEW first, first = Head(netRing)
  PROVE  /\ netRing' \in Seq(NetItems) /\ first \in NetItems /\ first.kind = "data" /\ TakenOnly(first)
         /\ first \in NetPending /\ netMain.at = "copy"
<1>1. netRing \in Seq(NetItems) /\ netRing # <<>> /\ netRing' = Tail(netRing) /\ first.kind = "data" /\ netMain.at = "copy"
  BY DEF NetTypes, Copy, Upcoming
<1> QED
  BY <1>1, NetTakes DEF TakenOnly

LEMMA NetConnIs ==
  ASSUME conn \in Seq(ConnRecs), NEW c \in DOMAIN conn, NEW s \in ConnRecs, conn' = [conn EXCEPT ![c] = s]
  PROVE  /\ conn' \in Seq(ConnRecs) /\ DOMAIN conn' = DOMAIN conn /\ conn'[c] = s
         /\ \A d \in DOMAIN conn : d # c => conn'[d] = conn[d]
  BY NetChanges

LEMMA NetDataTyped ==
  ASSUME NEW socks \in Seq(SockRecs), NEW g \in DOMAIN socks
  PROVE  Len(DataOf(socks[g])) \in Nat /\ DataOf(socks[g]) \in Seq(PacketIds)
         /\ DOMAIN DataOf(socks[g]) = 1 .. Len(DataOf(socks[g]))
<1>1. socks[g].given \in Seq(PacketIds) /\ socks[g].buf \in Seq(PacketIds)
  BY NetSockTyped
<1>2. DataOf(socks[g]) \in Seq(PacketIds)
  BY <1>1, ConcatProperties DEF DataOf
<1> QED
  BY <1>2, LenProperties

\* One connection goes on.
LEMMA NetConnGoesOn ==
  ASSUME conn \in Seq(ConnRecs), NEW c \in DOMAIN conn, NEW s \in ConnRecs, conn' = [conn EXCEPT ![c] = s],
         s.ctx = conn[c].ctx, s.client = conn[c].client, s.open => conn[c].open, conn[c].early => s.early,
         conn[c].drops <= s.drops, conn[c].packets <= s.packets
  PROVE  /\ conn' \in Seq(ConnRecs) /\ DOMAIN conn' = DOMAIN conn /\ conn'[c] = s
         /\ \A d \in DOMAIN conn : d # c => conn'[d] = conn[d]
         /\ ConnsGrow
<1>1. /\ conn' \in Seq(ConnRecs) /\ DOMAIN conn' = DOMAIN conn /\ conn'[c] = s
      /\ \A d \in DOMAIN conn : d # c => conn'[d] = conn[d]
  BY NetConnIs
<1>2. ASSUME NEW d \in DOMAIN conn
      PROVE  /\ conn'[d].ctx = conn[d].ctx /\ conn'[d].client = conn[d].client
             /\ conn'[d].open => conn[d].open
             /\ conn[d].early => conn'[d].early
             /\ conn[d].drops <= conn'[d].drops /\ conn[d].packets <= conn'[d].packets
  <2>1. CASE d = c
    BY <1>1, <2>1
  <2>2. CASE d # c
    <3>1. conn'[d] = conn[d] /\ conn[d].drops \in Nat /\ conn[d].packets \in Nat
      BY <1>1, <2>2, NetConnTyped
    <3> QED
      BY <3>1
  <2> QED
    BY <2>1, <2>2
<1>3. ConnsGrow
  BY <1>1, <1>2 DEF ConnsGrow
<1> QED
  BY <1>1, <1>3

\* In a regular state, RX finds the socket of the connection itself.
LEMMA NetOwnSocket ==
  ASSUME NetAssumption, NetInv, Regular, NEW c, Alive(c), NEW h, h = SocketOf(c)
  PROVE  /\ h # 0 => h \in Socks /\ sock[h].conn = c /\ Listed(h)
         /\ conn[c].client => h # 0
         /\ \A g \in Socks : sock[g].conn = c /\ conn[c].ctx # server.early => h # 0
<1>1. NetTypes /\ SocketsAgree /\ ItemsAgree /\ ItemsRegular /\ SocksRegular /\ ConnsRegular
  BY DEF NetInv, NetInvariant
<1>2. c \in DOMAIN conn /\ conn[c].open /\ \A d \in DOMAIN conn : d > c => conn[d].ctx # conn[c].ctx
  BY DEF Alive, ContextOf
<1>3. conn[c].ctx \in Contexts /\ conn[c].ctx # NoContext /\ c \in Nat \ {0} /\ conn[c].client \in BOOLEAN
  BY <1>1, <1>2, NetConnsTyped
<1>4. PICK f : f = FindConnection(c)
  OBVIOUS
<1>5. \/ f = 0 /\ \A g \in Socks : InSeq(g, IF conn[c].client THEN clients ELSE conns) => sock[g].ctx # conn[c].ctx
      \/ f \in Socks /\ InSeq(f, IF conn[c].client THEN clients ELSE conns) /\ sock[f].ctx = conn[c].ctx
  BY <1>1, <1>2, <1>4, NetFinds

\* A socket of the connection is found.
<1>6. ASSUME NEW g \in Socks, sock[g].conn = c
      PROVE  f # 0
  <2>1. sock[g].ctx = conn[c].ctx /\ sock[g].client = conn[c].client /\ RegSock(g)
    BY <1>1, <1>3, <1>6 DEF SocketsAgree, SocksRegular
  <2>2. Listed(g)
    BY <1>2, <1>6, <2>1 DEF RegSock
  <2>3. InSeq(g, IF conn[c].client THEN clients ELSE conns)
    BY <2>1, <2>2 DEF Listed
  <2>4. f \in Socks => f # 0
    BY <1>1, NetSockTyped DEF NetTypes, Socks
  <2> QED
    BY <1>5, <2>1, <2>3, <2>4
<1>7. CASE conn[c].client
  <2>1. h = f
    BY <1>4, <1>7 DEF SocketOf
  <2>2. PICK g \in Socks : sock[g].conn = c
    BY <1>1, <1>2, <1>7 DEF SocketsAgree, Regular, NoCloseLost
  <2>3. sock[g].ctx = conn[c].ctx /\ sock[g].client /\ RegSock(g)
    BY <1>1, <1>3, <1>7, <2>2 DEF SocketsAgree, SocksRegular
  <2>4. Listed(g) /\ InSeq(g, clients)
    BY <1>2, <2>2, <2>3 DEF RegSock, Listed
  <2>5. f # 0
    BY <1>6, <2>2
  <2>6. f \in Socks /\ InSeq(f, clients) /\ sock[f].ctx = conn[c].ctx
    BY <1>5, <1>7, <2>5
  <2>7. f = g
    BY <1>1, <1>3, <2>3, <2>4, <2>6 DEF SocksRegular
  <2> QED
    BY <2>1, <2>2, <2>4, <2>5, <2>7
<1>8. CASE ~conn[c].client
  <2>1. conn[c].ctx # server.early => h = f
    BY <1>4 DEF SocketOf, ContextOf
  <2>2. ASSUME h # 0 PROVE h \in Socks /\ sock[h].conn = c /\ Listed(h)
    <3>1. conn[c].ctx # server.early /\ h = f
      BY <1>4, <1>8, <2>2 DEF SocketOf, ContextOf
    <3>2. h \in Socks /\ InSeq(h, conns) /\ sock[h].ctx = conn[c].ctx
      BY <1>5, <1>8, <2>2, <3>1
    <3>3. ~sock[h].client /\ sock[h].conn # 0 /\ Listed(h)
      BY <1>1, <3>2 DEF SocketsAgree, Listed
    <3>4. PICK d : d = sock[h].conn
      OBVIOUS
    <3>5. d \in DOMAIN conn /\ conn[d].ctx = conn[c].ctx /\ ~conn[d].client /\ RegSock(h)
      BY <1>1, <3>2, <3>3, <3>4 DEF SocketsAgree, SocksRegular
    <3>6. d \in Nat /\ ~(d > c)
      BY <1>1, <1>2, <3>5, NetConnTyped DEF NetTypes
    <3>7. ~(d < c)
      <4>1. SUFFICES ASSUME d < c PROVE FALSE
        OBVIOUS
      <4>2. conn[d].drops = 1
        BY <1>1, <1>2, <1>8, <3>5, <4>1 DEF ConnsRegular, SameContext
      <4>3. Waits("clear", d)
        BY <3>3, <3>4, <3>5, <4>2 DEF RegSock
      <4>4. PICK a \in NetPending : a.kind = "clear" /\ a.conn = d
        BY <4>3 DEF Waits
      <4>5. server.early = conn[d].ctx
        BY <1>1, <4>4 DEF ItemsRegular, RegItem
      <4> QED
        BY <3>1, <3>5, <4>5
    <3>8. d = c
      BY <1>3, <3>6, <3>7
    <3> QED
      BY <3>2, <3>3, <3>4, <3>8
  <2> QED
    BY <1>6, <1>8, <2>1, <2>2
<1> QED
  BY <1>3, <1>7, <1>8

-----------------------------------------------------------------------------
(***************************************************************************)
(* A packet comes.                                                         *)
(***************************************************************************)
LEMMA NetTcpReceivedIs ==
  ASSUME NetAssumption, NetInv, NEW c, TcpReceived(c), NEW item, item = Item("data", c, SocketOf(c), conn[c].packets + 1)
  PROVE  /\ NetTypes' /\ c \in DOMAIN conn /\ item \in NetItems /\ PutOnly(item)
         /\ item.kind = "data" /\ item.conn = c /\ item.h = SocketOf(c) /\ item.n = conn[c].packets + 1
         /\ item.h # 0 => item.h \in Socks
         /\ item \in NetPending' \/ "data" \in netLost'
         /\ netLost \subseteq netLost' /\ netLost' \subseteq netLost \cup {"data"}
         /\ DOMAIN conn' = DOMAIN conn /\ ConnsGrow
         /\ \A d \in DOMAIN conn : d # c => conn'[d] = conn[d]
         /\ conn'[c].open = conn[c].open /\ conn'[c].drops = conn[c].drops /\ conn'[c].early = conn[c].early
         /\ conn'[c].packets = conn[c].packets + 1 /\ conn[c].packets \in Nat
<1>1. NetTypes
  BY DEF NetInv
<1>2. c \in DOMAIN conn
  BY DEF TcpReceived, Alive
<1>3. conn[c] \in ConnRecs /\ conn[c].packets \in Nat /\ c \in Nat /\ conn[c].drops \in Nat
  BY <1>1, <1>2, NetConnTyped DEF NetTypes
<1>4. PICK s : s = [conn[c] EXCEPT !.packets = conn[c].packets + 1]
  OBVIOUS
<1>5. s \in ConnRecs /\ s.ctx = conn[c].ctx /\ s.client = conn[c].client /\ s.open = conn[c].open
      /\ s.packets = conn[c].packets + 1 /\ s.early = conn[c].early /\ s.drops = conn[c].drops
  BY ONLY <1>3, <1>4, NetConnPacket
<1>6. conn' = [conn EXCEPT ![c] = s]
  BY <1>4 DEF TcpReceived
<1>7. /\ conn' \in Seq(ConnRecs) /\ DOMAIN conn' = DOMAIN conn /\ conn'[c] = s
      /\ \A d \in DOMAIN conn : d # c => conn'[d] = conn[d]
      /\ ConnsGrow
  <2>1. conn[c].drops <= s.drops /\ conn[c].packets <= s.packets
    BY <1>3, <1>5
  <2> QED
    BY <1>1, <1>2, <1>5, <1>6, <2>1, NetConnGoesOn DEF NetTypes
<1>8. conn[c].packets + 1 \in Nat
  BY <1>3
<1>9. SocketOf(c) \in Nat /\ (SocketOf(c) # 0 => SocketOf(c) \in Socks)
  <2>1. PICK f : f = FindConnection(c)
    OBVIOUS
  <2>2. f = 0 \/ f \in Socks
    BY <1>1, <1>2, <2>1, NetFinds
  <2>3. f \in Socks => f \in Nat
    BY <1>1, NetSockTyped DEF NetTypes, Socks
  <2>4. SocketOf(c) = 0 \/ SocketOf(c) = f
    BY <2>1 DEF SocketOf
  <2> QED
    BY <2>2, <2>3, <2>4
<1>10. /\ item \in NetItems /\ item.kind = "data" /\ item.conn = c /\ item.h = SocketOf(c) /\ item.n = conn[c].packets + 1
  <2>1. PICK h, n : h = SocketOf(c) /\ n = conn[c].packets + 1
    OBVIOUS
  <2>2. h \in Nat /\ n \in Nat /\ c \in Nat
    BY <1>3, <1>8, <1>9, <2>1
  <2> QED
    BY <2>1, <2>2 DEF Item, NetItems
<1>11. Queue(item) /\ netLost' = netLost \cup Lost(item)
  BY DEF TcpReceived, DeferItem
<1>12. /\ netRing' \in Seq(NetItems) /\ PutOnly(item)
       /\ item \in NetPending' \/ "data" \in Lost(item)
       /\ Lost(item) \subseteq {"data"}
  BY <1>1, <1>10, <1>11, NetPuts DEF NetTypes
<1>13. NetTypes'
  BY <1>1, <1>7, <1>12 DEF NetTypes, TcpReceived, Socks
<1> QED
  BY <1>2, <1>3, <1>5, <1>7, <1>8, <1>9, <1>10, <1>11, <1>12, <1>13

LEMMA NetTcpReceived ==
  ASSUME NetAssumption, NetInv, NEW c, TcpReceived(c)
  PROVE  NetInv'
<1>0. PICK item : item = Item("data", c, SocketOf(c), conn[c].packets + 1)
  OBVIOUS
<1>1. NetTypes /\ NetInvariant /\ SocketsAgree /\ ServerCloses /\ ItemsAgree /\ DropsExplained
  BY DEF NetInv, NetInvariant
<1>2. /\ NetTypes' /\ c \in DOMAIN conn /\ item \in NetItems /\ PutOnly(item)
      /\ item.kind = "data" /\ item.conn = c /\ item.h = SocketOf(c) /\ item.n = conn[c].packets + 1
      /\ item.h # 0 => item.h \in Socks
      /\ item \in NetPending' \/ "data" \in netLost'
      /\ netLost \subseteq netLost' /\ netLost' \subseteq netLost \cup {"data"}
      /\ DOMAIN conn' = DOMAIN conn /\ ConnsGrow
      /\ \A d \in DOMAIN conn : d # c => conn'[d] = conn[d]
      /\ conn'[c].open = conn[c].open /\ conn'[c].drops = conn[c].drops /\ conn'[c].early = conn[c].early
      /\ conn'[c].packets = conn[c].packets + 1 /\ conn[c].packets \in Nat
  BY <1>0, NetTcpReceivedIs
<1>3. Alive(c) /\ UNCHANGED <<server, conns, clients, sock, refs, netMain>>
  BY DEF TcpReceived
<1>4. conn[c].open /\ \A d \in DOMAIN conn : d > c => conn[d].ctx # conn[c].ctx
  BY <1>3 DEF Alive, ContextOf
<1>5. /\ NetPending \subseteq NetPending' /\ NetPending' \subseteq NetPending \cup {item}
      /\ \A a, b \in NetPending' : Before(a, b)' => \/ a \in NetPending /\ b \in NetPending /\ Before(a, b)
                                                    \/ a \in NetPending /\ b = item
  BY <1>2 DEF PutOnly
<1>6. Socks' = Socks
  BY <1>3 DEF Socks
<1>7. /\ \A kind, d : Waits(kind, d) => Waits(kind, d)'
      /\ \A kind, d : Waits(kind, d)' => Waits(kind, d) \/ (kind = "data" /\ d = c)
      /\ \A d : HasItem(d) => HasItem(d)'
      /\ \A d : HasItem(d)' => HasItem(d) \/ d = c
      /\ \A d, m : HasData(d, m) => HasData(d, m)'
      /\ item \in NetPending' => HasData(c, item.n)'
  BY <1>2, NetPutMeans
<1>8. \A a \in NetPending : ItemOk(a) /\ a.conn \in DOMAIN conn /\ (a.conn = c => a.kind \notin {"close", "clear"})
  BY <1>1, <1>4 DEF ItemsAgree, ItemOk
<1>9. ASSUME NEW a \in NetPending PROVE PairOk(a, item)
  <2>1. a.conn = c /\ a.kind = "data" => a.n < item.n
    BY <1>2, <1>8 DEF ItemOk
  <2> QED
    BY <1>2, <1>8, <2>1 DEF PairOk
<1>10. SocketsAgree'
  <2>1. netMain'.at = "close" => netMain'.h \in Socks /\ sock[netMain'.h].held
    BY <1>1, <1>3 DEF SocketsAgree
  <2>2. SameSockets
    BY <1>3 DEF SameSockets
  <2> QED
    BY <1>1, <1>2, <2>1, <2>2, NetSocketsKept
<1>11. ServerCloses'
  <2>1. \A a \in NetPending' : a.kind = "accept" => a \in NetPending
    BY <1>2, <1>5
  <2> QED
    BY <1>1, <1>2, <1>3, <2>1, NetClosesKept
<1>12. ItemsAgree'
  <2>1. ItemOk(item)'
    BY <1>2, <1>6 DEF ItemOk
  <2>2. ASSUME NEW a \in NetPending PROVE ItemOk(a)'
    <3>1. a.kind = "accept" => conn'[a.conn].drops = 0 /\ \A g \in Socks' : sock'[g].conn # a.conn
      BY <1>2, <1>3, <1>6, <1>8 DEF ItemOk
    <3> QED
      BY <1>1, <1>2, <1>6, <1>8, <3>1, NetItemOkKept
  <2>3. \A a, b \in NetPending' : Before(a, b)' => PairOk(a, b)
    BY <1>1, <1>5, <1>9 DEF ItemsAgree
  <2> QED
    BY <1>5, <2>1, <2>2, <2>3 DEF ItemsAgree
<1>13. DropsExplained'
  BY <1>1, <1>2, NetDropsKept
<1>14. ASSUME Regular' PROVE ItemsRegular' /\ SocksRegular' /\ ConnsRegular' /\ DataRegular'
  <2>1. Regular
    BY <1>1, <1>2, <1>14, NetRegularBefore
  <2>2. ItemsRegular /\ SocksRegular /\ ConnsRegular /\ RegOrder /\ DataRegular
    BY <1>1, <2>1, NetConnsRegularIs DEF NetInvariant
  <2>3. PICK h : h = SocketOf(c)
    OBVIOUS
  <2>4. /\ h # 0 => h \in Socks /\ sock[h].conn = c /\ Listed(h)
        /\ conn[c].client => h # 0
    BY <1>3, <2>1, <2>3, NetOwnSocket
  <2>5. \A d \in DOMAIN conn : conn'[d].open = conn[d].open /\ conn'[d].drops = conn[d].drops
                               /\ conn'[d].ctx = conn[d].ctx /\ conn'[d].client = conn[d].client /\ conn'[d].early = conn[d].early
    <3>1. conn'[c].early = conn[c].early
      BY <1>2
    <3> QED
      BY <1>2, <3>1 DEF ConnsGrow
  <2>6. ItemsRegular'
    <3>1. ASSUME NEW a \in NetPending PROVE RegItem(a)'
      <4>1. RegItem(a) /\ a \in NetPending'
        BY <1>5, <2>2 DEF ItemsRegular
      <4> QED
        BY <1>1, <1>2, <1>3, <1>6, <1>7, <1>8, <2>5, <4>1, NetRegItemKept
    <3>2. RegItem(item)'
      BY <1>2, <1>3, <2>3, <2>4, <2>5 DEF RegItem
    <3>3. ASSUME NEW a \in NetPending' , NEW b \in NetPending', Before(a, b)' PROVE RegPair(a, b)'
      <4>1. CASE a \in NetPending /\ b \in NetPending /\ Before(a, b)
        <5>1. RegPair(a, b) /\ a.conn \in DOMAIN conn /\ b.conn \in DOMAIN conn
          BY <1>8, <2>2, <4>1 DEF ItemsRegular
        <5> QED
          BY <2>5, <5>1 DEF RegPair, SameContext
      <4>2. CASE a \in NetPending /\ b = item
        <5>1. a.conn \in DOMAIN conn /\ a.conn \in Nat /\ c \in Nat
          BY <1>1, <1>2, <1>8, <4>2, NetConnTyped DEF NetTypes
        <5>2. conn[a.conn].ctx = conn[c].ctx => a.conn <= c
          BY <1>4, <5>1
        <5> QED
          BY <1>2, <2>5, <4>2, <5>1, <5>2 DEF RegPair, SameContext
      <4> QED
        BY <1>5, <3>3, <4>1, <4>2
    <3>4. server'.early # NoContext => \E a \in NetPending' : a.kind = "clear" /\ conn'[a.conn].ctx = server'.early
      BY <1>3, <1>5, <1>8, <2>2, <2>5 DEF ItemsRegular
    <3> QED
      BY <1>5, <3>1, <3>2, <3>3, <3>4 DEF ItemsRegular
  <2>7. SocksRegular'
    <3>1. ASSUME NEW g \in Socks, sock[g].conn # 0 PROVE RegSock(g)'
      <4>1. PICK d : d = sock[g].conn
        OBVIOUS
      <4>2. d \in DOMAIN conn /\ RegSock(g)
        BY <1>1, <2>2, <3>1, <4>1 DEF SocketsAgree, SocksRegular
      <4>3. Listed(g)' <=> Listed(g)
        BY <1>3 DEF Listed
      <4>4. d = c => Listed(g)
        BY <1>4, <4>1, <4>2 DEF RegSock
      <4>5. (Waits("close", d)' <=> Waits("close", d)) /\ (Waits("clear", d)' <=> Waits("clear", d))
        BY <1>7
      <4>6. HasItem(d)' => HasItem(d) \/ Listed(g)
        BY <1>7, <4>4
      <4> QED
        BY <1>3, <2>5, <4>1, <4>2, <4>3, <4>5, <4>6, NetRegSockKept
    <3>2. RegMain'
      <4>1. CASE netMain.at # "close"
        BY <1>3, <4>1 DEF RegMain
      <4>2. CASE netMain.at = "close"
        <5>1. PICK g, d : g = netMain.h /\ d = sock[g].conn
          OBVIOUS
        <5>2. d # 0 /\ ~conn[d].open /\ ~HasItem(d) /\ Listed(g) /\ g \in Socks
          BY <1>1, <2>2, <4>2, <5>1 DEF RegMain, SocksRegular, SocketsAgree
        <5>3. d # c /\ d \in DOMAIN conn
          BY <1>1, <1>4, <5>1, <5>2 DEF SocketsAgree
        <5>4. ~HasItem(d)' /\ ~conn'[d].open /\ Listed(g)'
          BY <1>3, <1>7, <2>5, <5>2, <5>3 DEF Listed
        <5> QED
          BY <1>3, <5>1, <5>2, <5>4 DEF RegMain
      <4> QED
        BY <4>1, <4>2
    <3>3. \A g, h1 \in Socks' : InSeq(g, clients') /\ InSeq(h1, clients') /\ sock'[g].ctx = sock'[h1].ctx
                               /\ sock'[g].ctx # NoContext => g = h1
      BY <1>3, <1>6, <2>2, NetClientsKept
    <3> QED
      BY <1>3, <1>6, <3>1, <3>2, <3>3 DEF SocksRegular
  <2>8. ConnsRegular'
    <3>1. ASSUME NEW d \in DOMAIN conn, ~conn[d].client PROVE RegRefs(d)'
      BY <1>3, <1>6, <2>2, <2>5, <3>1, NetRegRefsKept DEF ConnsRegular
    <3>2. RegOrder'
      <4>1. \A d, e \in DOMAIN conn : d < e /\ SameContext(d, e) /\ HasItem(d)' => HasItem(d)
        <5>1. \A e \in DOMAIN conn : c < e => ~SameContext(c, e)
          <6>1. \A e \in DOMAIN conn : e \in Nat
            BY <1>1, NetConnTyped DEF NetTypes
          <6> QED
            BY <1>2, <1>4, <6>1 DEF SameContext
        <5> QED
          BY <1>7, <5>1
      <4> QED
        BY <1>2, <1>3, <1>6, <2>2, <2>5, <4>1, NetOrderKept
    <3>3. (\A d \in DOMAIN conn : ~conn[d].client => RegRefs(d))'
      BY <1>2, <2>5, <3>1
    <3> QED
      BY <3>2, <3>3 DEF ConnsRegular, RegOrder
  <2>9. DataRegular'
    <3>1. ASSUME NEW g \in Socks PROVE RegData(g)'
      <4>1. PICK d : d = sock[g].conn
        OBVIOUS
      <4>2. RegData(g) /\ (d # 0 => d \in DOMAIN conn)
        BY <1>1, <2>2, <4>1 DEF SocketsAgree, DataRegular
      <4>3. Listed(g)' <=> Listed(g)
        BY <1>3 DEF Listed
      <4>4. Len(DataOf(sock[g])) \in Nat /\ (d # 0 => conn[d].packets \in Nat)
        BY <1>1, <4>2, NetDataTyped, NetConnTyped DEF NetTypes
      <4>5. CASE d # c
        <5>1. \A a \in NetPending' : a.kind = "data" /\ a.conn = d => a \in NetPending
          BY <1>2, <1>5, <4>5
        <5>2. d # 0 => conn'[d].packets = conn[d].packets
          BY <1>2, <4>2, <4>5
        <5>3. DataOf(sock'[g]) = DataOf(sock[g]) /\ sock'[g].conn = d
          BY <1>3, <4>1
        <5> QED
          BY <1>2, <1>7, <4>1, <4>2, <4>3, <4>4, <5>1, <5>2, <5>3, NetRegDataKept
      <4>6. CASE d = c
        <5>0. PICK data : data = DataOf(sock[g])
          OBVIOUS
        <5>1. /\ \A i \in DOMAIN data :
                   /\ data[i][1] = c /\ data[i][2] \in 1 .. conn[c].packets
                   /\ \A j \in 1 .. i - 1 : data[j][2] < data[i][2]
                   /\ \A a \in NetPending : a.kind = "data" /\ a.conn = c => data[i][2] < a.n
                   /\ "data" \notin netLost => data[i][2] = i
              /\ "data" \notin netLost /\ Listed(g) =>
                   \A m \in Len(data) + 1 .. conn[c].packets : HasData(c, m)
              /\ c # 0
          <6>1. c # 0
            BY <1>1, <1>2, NetConnTyped DEF NetTypes
          <6> QED
            BY <4>1, <4>2, <4>6, <5>0, <6>1 DEF RegData
        <5>2. \A i \in DOMAIN data :
                   /\ data[i][2] \in 1 .. conn'[c].packets
                   /\ \A a \in NetPending' : a.kind = "data" /\ a.conn = c => data[i][2] < a.n
          <6>1. conn[c].packets \in Nat /\ conn'[c].packets = conn[c].packets + 1
            BY <1>2, <4>1, <4>4, <4>6, <5>1
          <6> SUFFICES ASSUME NEW i \in DOMAIN data
                       PROVE  /\ data[i][2] \in 1 .. conn'[c].packets
                              /\ \A a \in NetPending' : a.kind = "data" /\ a.conn = c => data[i][2] < a.n
            OBVIOUS
          <6>2. data[i][2] \in 1 .. conn[c].packets
            BY <5>1
          <6>3. data[i][2] \in 1 .. conn'[c].packets
            BY <6>1, <6>2
          <6>4. ASSUME NEW a \in NetPending', a.kind = "data", a.conn = c PROVE data[i][2] < a.n
            <7>1. CASE a \in NetPending
              BY <5>1, <6>4, <7>1
            <7>2. CASE a = item
              BY <1>2, <6>1, <6>2, <7>2
            <7> QED
              BY <1>5, <6>4, <7>1, <7>2
          <6> QED
            BY <6>3, <6>4
        <5>3. "data" \notin netLost' /\ Listed(g)' =>
                 \A m \in Len(data) + 1 .. conn'[c].packets : HasData(c, m)'
          <6>1. SUFFICES ASSUME "data" \notin netLost', Listed(g), NEW m \in Len(data) + 1 .. conn'[c].packets PROVE HasData(c, m)'
            BY <4>3
          <6>2. m = item.n \/ m \in Len(data) + 1 .. conn[c].packets
            BY <1>2, <4>4, <5>0
          <6>3. HasData(c, item.n)'
            BY <1>2, <1>7, <6>1
          <6>4. m \in Len(data) + 1 .. conn[c].packets => HasData(c, m)'
            BY <1>2, <1>7, <5>1, <6>1
          <6> QED
            BY <6>2, <6>3, <6>4
        <5>4. sock'[g].conn = c /\ DataOf(sock'[g]) = data
          BY <1>3, <4>1, <4>6, <5>0
        <5> QED
          BY <1>2, <5>1, <5>2, <5>3, <5>4 DEF RegData
      <4> QED
        BY <4>5, <4>6
    <3>2. "data" \notin netLost' =>
            \A a \in NetPending' : a.kind = "accept" => \A m \in 1 .. conn'[a.conn].packets : HasData(a.conn, m)'
      <4>1. SUFFICES ASSUME "data" \notin netLost', NEW a \in NetPending', a.kind = "accept",
                            NEW m \in 1 .. conn'[a.conn].packets
                     PROVE  HasData(a.conn, m)'
        OBVIOUS
      <4>2. a \in NetPending
        BY <1>2, <1>5, <4>1
      <4>3. \A k \in 1 .. conn[a.conn].packets : HasData(a.conn, k)'
        BY <1>2, <1>7, <2>2, <4>1, <4>2 DEF DataRegular
      <4>4. CASE a.conn # c
        BY <1>2, <1>8, <4>1, <4>2, <4>3, <4>4
      <4>5. CASE a.conn = c
        <5>1. m \in 1 .. conn[c].packets \/ m = item.n
          BY <1>2, <4>1, <4>5
        <5> QED
          BY <1>2, <1>7, <4>1, <4>3, <4>5, <5>1
      <4> QED
        BY <4>4, <4>5
    <3> QED
      BY <1>6, <3>1, <3>2 DEF DataRegular
  <2> QED
    BY <2>6, <2>7, <2>8, <2>9
<1> QED
  BY <1>2, <1>10, <1>11, <1>12, <1>13, <1>14 DEF NetInv, NetInvariant

-----------------------------------------------------------------------------
(***************************************************************************)
(* The peer closes.                                                        *)
(***************************************************************************)
LEMMA NetOwns ==
  ASSUME SocketsAgree, NEW h \in Socks, NEW c, c = sock[h].conn, c # 0
  PROVE  /\ c \in DOMAIN conn /\ sock[h].ctx = conn[c].ctx /\ sock[h].client = conn[c].client
         /\ \A g \in Socks : sock[g].conn = c => g = h
  BY DEF SocketsAgree

LEMMA NetItemsPut ==
  ASSUME ItemsAgree, NEW item, PutOnly(item), \A a \in NetPending : ItemOk(a)',
         item \in NetPending' => ItemOk(item)', \A a \in NetPending : PairOk(a, item)
  PROVE  ItemsAgree'
<1>1. /\ NetPending' \subseteq NetPending \cup {item}
      /\ \A a, b \in NetPending' : Before(a, b)' => \/ a \in NetPending /\ b \in NetPending /\ Before(a, b)
                                                    \/ a \in NetPending /\ b = item
  BY DEF PutOnly
<1>2. \A a, b \in NetPending' : Before(a, b)' => PairOk(a, b)
  BY <1>1 DEF ItemsAgree
<1>3. \A a \in NetPending' : ItemOk(a)'
  BY <1>1
<1> QED
  BY <1>2, <1>3 DEF ItemsAgree

LEMMA NetItemsTaken ==
  ASSUME ItemsAgree, NEW first, TakenOnly(first), \A a \in NetPending' : ItemOk(a)'
  PROVE  ItemsAgree'
<1>1. /\ NetPending' \subseteq NetPending
      /\ \A a, b \in NetPending' : Before(a, b)' => Before(a, b)
  BY DEF TakenOnly
<1>2. \A a, b \in NetPending' : Before(a, b)' => PairOk(a, b)
  BY <1>1 DEF ItemsAgree
<1> QED
  BY <1>2 DEF ItemsAgree

LEMMA NetRegPairKept ==
  ASSUME ItemsAgree, ConnsGrow, NEW a \in NetPending, NEW b \in NetPending, RegPair(a, b)
  PROVE  RegPair(a, b)'
<1>1. a.conn \in DOMAIN conn /\ b.conn \in DOMAIN conn
  BY DEF ItemsAgree, ItemOk
<1> QED
  BY <1>1 DEF RegPair, SameContext, ConnsGrow

LEMMA NetUnref ==
  ASSUME refs \in [Contexts -> Nat], NEW context, refs' = Unref(context)
  PROVE  /\ refs' \in [Contexts -> Nat]
         /\ \A x \in Contexts : x # context => refs'[x] = refs[x]
         /\ context \in Contexts /\ refs[context] > 0 => refs'[context] = refs[context] - 1
<1>1. refs' = [refs EXCEPT ![context] = IF refs[context] = 0 THEN 0 ELSE refs[context] - 1]
  BY DEF Unref
<1>2. CASE context \in Contexts
  <2>1. refs[context] \in Nat
    BY <1>2
  <2>2. (IF refs[context] = 0 THEN 0 ELSE refs[context] - 1) \in Nat
    BY <2>1
  <2> QED
    BY <1>1, <1>2, <2>1, <2>2
<1>3. CASE context \notin Contexts
  BY <1>1, <1>3
<1> QED
  BY <1>2, <1>3

LEMMA NetSocketOfTyped ==
  ASSUME NetTypes, NEW c \in DOMAIN conn
  PROVE  SocketOf(c) \in Nat /\ (SocketOf(c) # 0 => SocketOf(c) \in Socks /\ SocketOf(c) = FindConnection(c))
<1>1. PICK f : f = FindConnection(c)
  OBVIOUS
<1>2. f = 0 \/ f \in Socks
  BY <1>1, NetFinds
<1>3. f \in Socks => f \in Nat
  BY NetSockTyped DEF NetTypes, Socks
<1>4. SocketOf(c) = 0 \/ SocketOf(c) = f
  BY <1>1 DEF SocketOf
<1> QED
  BY <1>1, <1>2, <1>3, <1>4

LEMMA NetTcpClosedIs ==
  ASSUME NetAssumption, NetInv, NEW c, TcpClosed(c), NEW item, item = Item("close", c, SocketOf(c), 0)
  PROVE  /\ NetTypes' /\ c \in DOMAIN conn /\ PutOnly(item) /\ conn[c].ctx \in Contexts /\ conn[c].ctx # NoContext
         /\ item.kind = "close" /\ item.conn = c /\ item.h = SocketOf(c) /\ item.h # 0 /\ item.h \in Socks
         /\ item \in NetPending' \/ "close" \in netLost'
         /\ netLost \subseteq netLost' /\ netLost' \subseteq netLost \cup {"close"}
         /\ DOMAIN conn' = DOMAIN conn /\ ConnsGrow
         /\ \A d \in DOMAIN conn : d # c => conn'[d] = conn[d]
         /\ ~conn'[c].open /\ conn'[c].drops = conn[c].drops /\ conn'[c].packets = conn[c].packets
         /\ conn'[c].early = conn[c].early
         /\ SameSockets /\ \A g \in Socks : sock'[g].closed = sock[g].closed /\ DataOf(sock'[g]) = DataOf(sock[g])
         /\ \A x \in Contexts : x # conn[c].ctx => refs'[x] = refs[x]
         /\ refs'[conn[c].ctx] = refs[conn[c].ctx] - 1 /\ refs[conn[c].ctx] \in Nat
<1>1. NetTypes
  BY DEF NetInv
<1>2. c \in DOMAIN conn /\ refs[conn[c].ctx] > 0
  BY DEF TcpClosed, Alive, ContextOf
<1>3. conn[c] \in ConnRecs /\ conn[c].packets \in Nat /\ c \in Nat /\ conn[c].drops \in Nat
      /\ conn[c].ctx \in Contexts /\ conn[c].ctx # NoContext
  BY <1>1, <1>2, NetConnsTyped
<1>4. PICK s : s = [conn[c] EXCEPT !.open = FALSE]
  OBVIOUS
<1>5. s \in ConnRecs /\ s.ctx = conn[c].ctx /\ s.client = conn[c].client /\ ~s.open
      /\ s.packets = conn[c].packets /\ s.early = conn[c].early /\ s.drops = conn[c].drops
  BY ONLY <1>3, <1>4, NetConnShut
<1>6. conn' = [conn EXCEPT ![c] = s]
  BY <1>4 DEF TcpClosed
<1>7. /\ conn' \in Seq(ConnRecs) /\ DOMAIN conn' = DOMAIN conn /\ conn'[c] = s
      /\ \A d \in DOMAIN conn : d # c => conn'[d] = conn[d]
      /\ ConnsGrow
  <2>1. conn[c].drops <= s.drops /\ conn[c].packets <= s.packets
    BY <1>3, <1>5
  <2> QED
    BY <1>1, <1>2, <1>5, <1>6, <2>1, NetConnGoesOn DEF NetTypes
<1>8. PICK h : h = SocketOf(c)
  OBVIOUS
<1>9. h \in Nat /\ h # 0 /\ h \in Socks
  BY <1>1, <1>2, <1>8, NetSocketOfTyped DEF TcpClosed
<1>10. /\ item \in NetItems /\ item.kind = "close" /\ item.conn = c /\ item.h = h
  BY <1>3, <1>8, <1>9 DEF Item, NetItems
<1>11. Queue(item) /\ netLost' = netLost \cup Lost(item)
  BY DEF TcpClosed, DeferItem
<1>12. /\ netRing' \in Seq(NetItems) /\ PutOnly(item)
       /\ item \in NetPending' \/ "close" \in Lost(item)
       /\ Lost(item) \subseteq {"close"}
  BY <1>1, <1>10, <1>11, NetPuts DEF NetTypes
<1>13. sock' \in Seq(SockRecs) /\ SameSocks
  <2>1. PICK t : t = [sock[h] EXCEPT !.closing = TRUE]
    OBVIOUS
  <2>2. sock[h] \in SockRecs
    BY <1>1, <1>9, NetSockTyped DEF NetTypes, Socks
  <2>3. /\ t \in SockRecs /\ t.conn = sock[h].conn /\ t.ctx = sock[h].ctx /\ t.client = sock[h].client /\ t.closed = sock[h].closed
        /\ t.held = sock[h].held /\ t.buf = sock[h].buf /\ t.given = sock[h].given
    BY ONLY <2>1, <2>2 DEF SockRecs
  <2>4. sock' = [sock EXCEPT ![h] = t]
    BY <1>8, <2>1 DEF TcpClosed
  <2> QED
    BY <1>1, <1>9, <2>3, <2>4, NetSameSock DEF NetTypes
<1>14. SameSockets /\ \A g \in Socks : sock'[g].closed = sock[g].closed /\ DataOf(sock'[g]) = DataOf(sock[g])
  BY <1>13 DEF SameSocks, SameSockets, Socks, DataOf, TcpClosed
<1>15. /\ refs' \in [Contexts -> Nat]
       /\ \A x \in Contexts : x # conn[c].ctx => refs'[x] = refs[x]
       /\ refs'[conn[c].ctx] = refs[conn[c].ctx] - 1
  <2>1. refs' = Unref(conn[c].ctx) /\ refs \in [Contexts -> Nat]
    BY <1>1 DEF TcpClosed, ContextOf, NetTypes
  <2> QED
    BY <1>2, <1>3, <2>1, NetUnref
<1>16. NetTypes'
  <2>1. Socks' = Socks
    BY <1>14 DEF SameSockets, Socks
  <2> QED
    BY <1>1, <1>7, <1>12, <1>13, <1>15, <2>1 DEF NetTypes, TcpClosed
<1>17. refs[conn[c].ctx] \in Nat
  BY <1>1, <1>3 DEF NetTypes
<1> QED
  BY <1>2, <1>3, <1>5, <1>7, <1>8, <1>9, <1>10, <1>11, <1>12, <1>14, <1>15, <1>16, <1>17

LEMMA NetTcpClosed ==
  ASSUME NetAssumption, NetInv, NEW c, TcpClosed(c)
  PROVE  NetInv'
<1>0. PICK item : item = Item("close", c, SocketOf(c), 0)
  OBVIOUS
<1>1. NetTypes /\ NetInvariant /\ SocketsAgree /\ ServerCloses /\ ItemsAgree /\ DropsExplained
  BY DEF NetInv, NetInvariant
<1>2. /\ NetTypes' /\ c \in DOMAIN conn /\ PutOnly(item) /\ conn[c].ctx \in Contexts /\ conn[c].ctx # NoContext
      /\ item.kind = "close" /\ item.conn = c /\ item.h = SocketOf(c) /\ item.h # 0 /\ item.h \in Socks
      /\ item \in NetPending' \/ "close" \in netLost'
      /\ netLost \subseteq netLost' /\ netLost' \subseteq netLost \cup {"close"}
      /\ DOMAIN conn' = DOMAIN conn /\ ConnsGrow
      /\ \A d \in DOMAIN conn : d # c => conn'[d] = conn[d]
      /\ ~conn'[c].open /\ conn'[c].drops = conn[c].drops /\ conn'[c].packets = conn[c].packets
      /\ conn'[c].early = conn[c].early
      /\ SameSockets /\ \A g \in Socks : sock'[g].closed = sock[g].closed /\ DataOf(sock'[g]) = DataOf(sock[g])
      /\ \A x \in Contexts : x # conn[c].ctx => refs'[x] = refs[x]
      /\ refs'[conn[c].ctx] = refs[conn[c].ctx] - 1 /\ refs[conn[c].ctx] \in Nat
  BY <1>0, NetTcpClosedIs
<1>3. Alive(c) /\ UNCHANGED <<server, conns, clients, netMain>>
  BY DEF TcpClosed
<1>4. conn[c].open /\ \A d \in DOMAIN conn : d > c => conn[d].ctx # conn[c].ctx
  BY <1>3 DEF Alive, ContextOf
<1>5. /\ NetPending \subseteq NetPending' /\ NetPending' \subseteq NetPending \cup {item}
      /\ \A a, b \in NetPending' : Before(a, b)' => \/ a \in NetPending /\ b \in NetPending /\ Before(a, b)
                                                    \/ a \in NetPending /\ b = item
  BY <1>2 DEF PutOnly
<1>6. /\ Socks' = Socks
      /\ \A g \in Socks : sock'[g].conn = sock[g].conn /\ sock'[g].ctx = sock[g].ctx /\ sock'[g].client = sock[g].client
  BY <1>2 DEF Socks, SameSockets
<1>7. /\ \A kind, d : Waits(kind, d) => Waits(kind, d)'
      /\ \A kind, d : Waits(kind, d)' => Waits(kind, d) \/ (kind = "close" /\ d = c)
      /\ \A d : HasItem(d) => HasItem(d)'
      /\ \A d : HasItem(d)' => HasItem(d) \/ d = c
      /\ \A d, m : HasData(d, m) => HasData(d, m)'
      /\ item \in NetPending' => Waits("close", c)'
  BY <1>2, NetPutMeans
<1>8. \A a \in NetPending : ItemOk(a) /\ a.conn \in DOMAIN conn /\ (a.conn = c => a.kind \notin {"close", "clear"})
  BY <1>1, <1>4 DEF ItemsAgree, ItemOk
<1>9. \A a \in NetPending : PairOk(a, item)
  BY <1>2, <1>8 DEF PairOk
<1>10. SocketsAgree'
  <2>1. netMain'.at = "close" => netMain'.h \in Socks /\ sock[netMain'.h].held
    BY <1>1, <1>3 DEF SocketsAgree
  <2> QED
    BY <1>1, <1>2, <2>1, NetSocketsKept
<1>11. ServerCloses'
  <2>1. \A a \in NetPending' : a.kind = "accept" => a \in NetPending
    BY <1>2, <1>5
  <2> QED
    BY <1>1, <1>2, <1>3, <2>1, NetClosesKept
<1>12. ItemsAgree'
  <2>1. ItemOk(item)'
    BY <1>2, <1>6 DEF ItemOk
  <2>2. ASSUME NEW a \in NetPending PROVE ItemOk(a)'
    <3>1. conn'[a.conn].drops = conn[a.conn].drops
      BY <1>2, <1>8
    <3>2. a.kind = "accept" => conn'[a.conn].drops = 0 /\ \A g \in Socks' : sock'[g].conn # a.conn
      BY <1>6, <1>8, <3>1 DEF ItemOk
    <3> QED
      BY <1>1, <1>2, <1>6, <1>8, <3>2, NetItemOkKept
  <2> QED
    BY <1>1, <1>2, <1>9, <2>1, <2>2, NetItemsPut
<1>13. DropsExplained'
  BY <1>1, <1>2, NetDropsKept
<1>14. ASSUME Regular' PROVE ItemsRegular' /\ SocksRegular' /\ ConnsRegular' /\ DataRegular'
  <2>1. Regular
    BY <1>1, <1>2, <1>14, NetRegularBefore
  <2>2. ItemsRegular /\ SocksRegular /\ ConnsRegular /\ RegOrder /\ DataRegular
    BY <1>1, <2>1, NetConnsRegularIs DEF NetInvariant
  <2>3. PICK h : h = SocketOf(c)
    OBVIOUS
  <2>4. h # 0 /\ h \in Socks /\ sock[h].conn = c /\ Listed(h)
    BY <1>2, <1>3, <2>1, <2>3, NetOwnSocket
  <2>5. \A d \in DOMAIN conn : conn'[d].drops = conn[d].drops /\ conn'[d].packets = conn[d].packets
                               /\ conn'[d].ctx = conn[d].ctx /\ conn'[d].client = conn[d].client /\ conn'[d].early = conn[d].early
    BY <1>2 DEF ConnsGrow
  <2>0. item \in NetPending'
    BY <1>2, <1>14 DEF Regular, NoCloseLost
  <2>10. \A g \in Socks : Listed(g)' <=> Listed(g)
    BY <1>3, <1>6 DEF Listed
  <2>6. ItemsRegular'
    <3>1. ASSUME NEW a \in NetPending PROVE RegItem(a)'
      <4>1. RegItem(a) /\ a \in NetPending'
        BY <1>5, <2>2 DEF ItemsRegular
      <4>2. a.kind = "accept" => a.conn # c
        BY <1>8, <2>4 DEF ItemOk
      <4>3. a.kind = "accept" /\ conn[a.conn].open => conn'[a.conn].open
        BY <1>2, <1>8, <4>2
      <4> QED
        BY <1>1, <1>2, <1>3, <1>6, <1>7, <4>1, <4>3, NetRegItemKept
    <3>2. RegItem(item)'
      BY <1>2, <1>6, <2>3, <2>4 DEF RegItem
    <3>3. ASSUME NEW a \in NetPending' , NEW b \in NetPending', Before(a, b)' PROVE RegPair(a, b)'
      <4>1. CASE a \in NetPending /\ b \in NetPending /\ Before(a, b)
        BY <1>1, <1>2, <2>2, <4>1, NetRegPairKept DEF ItemsRegular
      <4>2. CASE a \in NetPending /\ b = item
        <5>1. a.conn \in DOMAIN conn /\ a.conn \in Nat /\ c \in Nat
          BY <1>1, <1>2, <1>8, <4>2, NetConnTyped DEF NetTypes
        <5>2. conn[a.conn].ctx = conn[c].ctx => a.conn <= c
          BY <1>4, <5>1
        <5> QED
          BY <1>2, <2>5, <4>2, <5>1, <5>2 DEF RegPair, SameContext
      <4> QED
        BY <1>5, <3>3, <4>1, <4>2
    <3>4. server'.early # NoContext => \E a \in NetPending' : a.kind = "clear" /\ conn'[a.conn].ctx = server'.early
      BY <1>3, <1>5, <1>8, <2>2, <2>5 DEF ItemsRegular
    <3> QED
      BY <1>5, <3>1, <3>2, <3>3, <3>4 DEF ItemsRegular
  <2>7. SocksRegular'
    <3>1. ASSUME NEW g \in Socks, sock[g].conn # 0 PROVE RegSock(g)'
      <4>1. PICK d : d = sock[g].conn
        OBVIOUS
      <4>2. d \in DOMAIN conn /\ RegSock(g)
        BY <1>1, <2>2, <3>1, <4>1 DEF SocketsAgree, SocksRegular
      <4>3. CASE d # c
        <5>1. (Waits("close", d)' <=> Waits("close", d)) /\ (Waits("clear", d)' <=> Waits("clear", d))
          BY <1>7, <4>3
        <5>2. HasItem(d)' => HasItem(d)
          BY <1>7, <4>3
        <5>3. conn'[d].open = conn[d].open
          BY <1>2, <4>2, <4>3
        <5> QED
          BY <1>2, <1>3, <1>6, <2>5, <2>10, <4>1, <4>2, <5>1, <5>2, <5>3, NetRegSockKept
      <4>4. CASE d = c
        <5>1. g = h /\ Listed(g)'
          <6>1. sock[g].conn = c /\ c # 0
            BY <3>1, <4>1, <4>4
          <6>2. g = h
            BY ONLY <1>1, <2>4, <6>1, NetOwns
          <6> QED
            BY <2>4, <2>10, <6>2
        <5>2. sock'[g].conn = c /\ sock'[g].client = sock[g].client /\ sock'[g].closed = sock[g].closed
          BY <1>2, <1>6, <4>1, <4>4
        <5>3. Waits("close", c)' /\ (Waits("clear", c)' <=> Waits("clear", c))
          BY <1>7, <2>0
        <5>4. conn[c].drops = (IF Waits("clear", c) THEN 1 ELSE 0) /\ (sock[g].client \/ (sock[g].closed <=> Waits("clear", c)))
          BY <2>4, <4>1, <4>2, <4>4, <5>1 DEF RegSock
        <5>5. conn'[c].drops = IF Waits("clear", c)' THEN 1 ELSE 0
          BY <1>2, <5>3, <5>4
        <5>6. sock'[g].client \/ (sock'[g].closed <=> Waits("clear", c)')
          BY <5>2, <5>3, <5>4
        <5> QED
          BY <5>1, <5>2, <5>3, <5>5, <5>6 DEF RegSock
      <4> QED
        BY <4>3, <4>4
    <3>2. RegMain'
      <4>1. CASE netMain.at # "close"
        BY <1>3, <4>1 DEF RegMain
      <4>2. CASE netMain.at = "close"
        <5>1. PICK g, d : g = netMain.h /\ d = sock[g].conn
          OBVIOUS
        <5>2. d # 0 /\ ~conn[d].open /\ ~HasItem(d) /\ Listed(g) /\ g \in Socks
          BY <1>1, <2>2, <4>2, <5>1 DEF RegMain, SocksRegular, SocketsAgree
        <5>3. d # c /\ d \in DOMAIN conn
          BY <1>1, <1>4, <5>1, <5>2 DEF SocketsAgree
        <5>4. ~HasItem(d)' /\ ~conn'[d].open /\ Listed(g)' /\ sock'[g].conn = d
          BY <1>2, <1>6, <1>7, <2>10, <5>1, <5>2, <5>3
        <5> QED
          BY <1>3, <5>1, <5>2, <5>4 DEF RegMain
      <4> QED
        BY <4>1, <4>2
    <3>3. \A g, h1 \in Socks' : InSeq(g, clients') /\ InSeq(h1, clients') /\ sock'[g].ctx = sock'[h1].ctx
                               /\ sock'[g].ctx # NoContext => g = h1
      BY <1>3, <1>6, <2>2, NetClientsKept
    <3> QED
      BY <1>6, <3>1, <3>2, <3>3 DEF SocksRegular
  <2>8. ConnsRegular'
    <3>0. \A d \in DOMAIN conn : d \in Nat /\ conn[d].ctx \in Contexts
      BY <1>1, NetConnTyped DEF NetTypes
    <3>1. ASSUME NEW d \in DOMAIN conn, ~conn[d].client PROVE RegRefs(d)'
      <4>0. RegRefs(d)
        BY <2>2, <3>1 DEF ConnsRegular
      <4>1. CASE conn[d].ctx # conn[c].ctx
        <5>1. d # c /\ conn'[d].open = conn[d].open /\ refs'[conn[d].ctx] = refs[conn[d].ctx]
          BY <1>2, <3>0, <4>1
        <5> QED
          BY <1>3, <1>6, <2>5, <4>0, <5>1, NetRegRefsKept
      <4>2. CASE conn[d].ctx = conn[c].ctx /\ d # c
        <5>1. ~(conn[d].open \/ conn[d].drops = 0)
          <6>1. CASE conn[c].client
            <7>1. InSeq(h, clients) /\ sock[h].ctx = conn[c].ctx
              <8>1. c # 0 /\ sock[h].ctx = conn[c].ctx /\ sock[h].client = conn[c].client
                <9>1. c # 0
                  BY <1>1, <1>2, NetConnTyped DEF NetTypes
                <9> QED
                  BY ONLY <1>1, <2>4, <9>1, NetOwns
              <8> QED
                BY <2>4, <6>1, <8>1 DEF Listed
            <7> QED
              BY <2>4, <4>0, <4>2, <7>1 DEF RegRefs
          <6>2. CASE ~conn[c].client
            <7>1. d < c
              BY <1>2, <1>4, <3>0, <4>2
            <7> QED
              BY <1>2, <2>2, <3>1, <4>2, <6>2, <7>1 DEF RegOrder, SameContext
          <6> QED
            BY <6>1, <6>2
        <5>2. ~(conn'[d].open \/ conn'[d].drops = 0)
          BY <1>2, <4>2, <5>1
        <5> QED
          BY <5>2 DEF RegRefs
      <4>3. CASE d = c
        <5>1. /\ refs[conn[c].ctx] = 1 + (1 - conn[c].drops)
              /\ \A g \in Socks : InSeq(g, clients) => sock[g].ctx # conn[c].ctx
          BY <1>4, <4>0, <4>3 DEF RegRefs
        <5>2. conn[c].drops \in Nat
          BY <1>1, <1>2, NetConnTyped DEF NetTypes
        <5>3. refs'[conn[c].ctx] = 0 + (1 - conn'[c].drops)
          BY <1>2, <5>1, <5>2
        <5>4. \A g \in Socks' : InSeq(g, clients') => sock'[g].ctx # conn'[c].ctx
          BY <1>2, <1>3, <1>6, <2>5, <5>1
        <5>5. conn'[c].ctx = conn[c].ctx
          BY <1>2, <2>5
        <5> QED
          BY <1>2, <4>3, <5>3, <5>4, <5>5 DEF RegRefs
      <4> QED
        BY <4>1, <4>2, <4>3
    <3>2. RegOrder'
      <4>1. \A d, e \in DOMAIN conn : d < e /\ SameContext(d, e) /\ HasItem(d)' => HasItem(d)
        <5>1. \A e \in DOMAIN conn : c < e => ~SameContext(c, e)
          BY <1>2, <1>4, <3>0 DEF SameContext
        <5> QED
          BY <1>7, <5>1
      <4> QED
        BY <1>2, <1>6, <2>2, <2>5, <4>1, NetOrderKept
    <3>3. (\A d \in DOMAIN conn : ~conn[d].client => RegRefs(d))'
      BY <1>2, <2>5, <3>1
    <3> QED
      BY <3>2, <3>3 DEF ConnsRegular, RegOrder
  <2>9. DataRegular'
    <3>0. "data" \notin netLost' => "data" \notin netLost
      BY <1>2
    <3>1. ASSUME NEW g \in Socks PROVE RegData(g)'
      <4>1. PICK d : d = sock[g].conn
        OBVIOUS
      <4>2. RegData(g) /\ (d # 0 => d \in DOMAIN conn)
        BY <1>1, <2>2, <4>1 DEF SocketsAgree, DataRegular
      <4>4. Len(DataOf(sock[g])) \in Nat /\ (d # 0 => conn[d].packets \in Nat)
        BY <1>1, <4>2, NetDataTyped, NetConnTyped DEF NetTypes, Socks
      <4>5. \A a \in NetPending' : a.kind = "data" /\ a.conn = d => a \in NetPending
        BY <1>2, <1>5
      <4>6. DataOf(sock'[g]) = DataOf(sock[g]) /\ sock'[g].conn = d /\ (d # 0 => conn'[d].packets = conn[d].packets)
        BY <1>2, <1>6, <2>5, <4>1, <4>2
      <4> QED
        BY <1>7, <2>10, <3>0, <4>1, <4>2, <4>4, <4>5, <4>6, NetRegDataKept
    <3>2. "data" \notin netLost' =>
            \A a \in NetPending' : a.kind = "accept" => \A m \in 1 .. conn'[a.conn].packets : HasData(a.conn, m)'
      BY <1>2, <1>5, <1>7, <1>8, <2>2, <2>5, <3>0 DEF DataRegular
    <3> QED
      BY <1>6, <3>1, <3>2 DEF DataRegular
  <2> QED
    BY <2>6, <2>7, <2>8, <2>9
<1> QED
  BY <1>2, <1>10, <1>11, <1>12, <1>13, <1>14 DEF NetInv, NetInvariant

LEMMA NetTcpClosedEarlyIs ==
  ASSUME NetAssumption, NetInv, NEW c, TcpClosedEarly(c), NEW item, item = Item("clear", c, 0, 0)
  PROVE  /\ NetTypes' /\ c \in DOMAIN conn /\ PutOnly(item) /\ conn[c].ctx \in Contexts /\ conn[c].ctx # NoContext
         /\ item.kind = "clear" /\ item.conn = c /\ item.h = 0
         /\ netLost \subseteq netLost' /\ netLost' \subseteq netLost \cup {"clear"}
         /\ "clear" \in netLost' \/ /\ item \in NetPending' /\ server.early = NoContext /\ conn'[c].early
                                    /\ server'.early = conn[c].ctx
         /\ DOMAIN conn' = DOMAIN conn /\ ConnsGrow
         /\ \A d \in DOMAIN conn : d # c => conn'[d] = conn[d]
         /\ ~conn'[c].open /\ conn'[c].drops = conn[c].drops /\ conn'[c].packets = conn[c].packets
         /\ server'.closed = server.closed /\ server'.closes = server.closes
         /\ \A x \in Contexts : x # conn[c].ctx => refs'[x] = refs[x]
         /\ refs'[conn[c].ctx] = refs[conn[c].ctx] - 1 /\ refs[conn[c].ctx] \in Nat
<1>1. NetTypes
  BY DEF NetInv
<1>2. c \in DOMAIN conn /\ refs[conn[c].ctx] > 0
  BY DEF TcpClosedEarly, Alive, ContextOf
<1>3. conn[c] \in ConnRecs /\ conn[c].packets \in Nat /\ c \in Nat /\ conn[c].drops \in Nat
      /\ conn[c].ctx \in Contexts /\ conn[c].ctx # NoContext
  BY <1>1, <1>2, NetConnsTyped
<1>4. PICK s : s = IF server.early = NoContext THEN [conn[c] EXCEPT !.open = FALSE, !.early = TRUE]
                                               ELSE [conn[c] EXCEPT !.open = FALSE]
  OBVIOUS
<1>5. s \in ConnRecs /\ s.ctx = conn[c].ctx /\ s.client = conn[c].client /\ ~s.open
      /\ s.packets = conn[c].packets /\ (conn[c].early => s.early) /\ s.drops = conn[c].drops
      /\ (server.early = NoContext => s.early)
  <2>1. CASE server.early = NoContext
    <3>1. s = [conn[c] EXCEPT !.open = FALSE, !.early = TRUE]
      BY <1>4, <2>1
    <3>2. s \in ConnRecs /\ s.ctx = conn[c].ctx /\ s.client = conn[c].client /\ ~s.open
          /\ s.packets = conn[c].packets /\ s.early /\ s.drops = conn[c].drops
      BY ONLY <1>3, <3>1, NetConnEarly
    <3> QED
      BY <3>2
  <2>2. CASE server.early # NoContext
    <3>1. s = [conn[c] EXCEPT !.open = FALSE]
      BY <1>4, <2>2
    <3>2. s \in ConnRecs /\ s.ctx = conn[c].ctx /\ s.client = conn[c].client /\ ~s.open
          /\ s.packets = conn[c].packets /\ s.early = conn[c].early /\ s.drops = conn[c].drops
      BY ONLY <1>3, <3>1, NetConnShut
    <3> QED
      BY <2>2, <3>2
  <2> QED
    BY <2>1, <2>2
<1>6. conn' = [conn EXCEPT ![c] = s]
  <2>1. CASE server.early = NoContext
    BY <1>4, <2>1 DEF TcpClosedEarly
  <2>2. CASE server.early # NoContext
    BY <1>4, <2>2 DEF TcpClosedEarly
  <2> QED
    BY <2>1, <2>2
<1>7. /\ conn' \in Seq(ConnRecs) /\ DOMAIN conn' = DOMAIN conn /\ conn'[c] = s
      /\ \A d \in DOMAIN conn : d # c => conn'[d] = conn[d]
      /\ ConnsGrow
  <2>1. conn[c].drops <= s.drops /\ conn[c].packets <= s.packets
    BY <1>3, <1>5
  <2> QED
    BY <1>1, <1>2, <1>5, <1>6, <2>1, NetConnGoesOn DEF NetTypes
<1>10. /\ item \in NetItems /\ item.kind = "clear" /\ item.conn = c /\ item.h = 0
  BY <1>3 DEF Item, NetItems
<1>11. /\ netRing' \in Seq(NetItems) /\ PutOnly(item) /\ netLost \subseteq netLost' /\ netLost' \subseteq netLost \cup {"clear"}
       /\ "clear" \in netLost' \/ (item \in NetPending' /\ server.early = NoContext)
  <2>1. CASE server.early = NoContext
    <3>1. Queue(item) /\ netLost' = netLost \cup Lost(item)
      BY <2>1 DEF TcpClosedEarly, DeferItem
    <3>2. /\ netRing' \in Seq(NetItems) /\ PutOnly(item)
          /\ item \in NetPending' \/ "clear" \in Lost(item)
          /\ Lost(item) \subseteq {"clear"}
      BY <1>1, <1>10, <3>1, NetPuts DEF NetTypes
    <3> QED
      BY <2>1, <3>1, <3>2
  <2>2. CASE server.early # NoContext
    <3>1. netRing' = netRing /\ netLost' = netLost \cup {"clear"}
      BY <2>2 DEF TcpClosedEarly
    <3>2. NetPending' = NetPending /\ \A a, b : Before(a, b)' <=> Before(a, b)
      BY <3>1 DEF NetPending, Before
    <3> QED
      BY <1>1, <3>1, <3>2 DEF PutOnly, NetTypes
  <2> QED
    BY <2>1, <2>2
<1>12. server' \in [listening : BOOLEAN, closed : BOOLEAN, early : Contexts \cup {NoContext}, closes : Nat, collected : BOOLEAN]
       /\ server'.closed = server.closed /\ server'.closes = server.closes
       /\ (server.early = NoContext => server'.early = conn[c].ctx)
  <2>0. server \in [listening : BOOLEAN, closed : BOOLEAN, early : Contexts \cup {NoContext}, closes : Nat, collected : BOOLEAN]
    BY <1>1 DEF NetTypes
  <2>1. CASE server.early = NoContext
    <3>1. server' = [server EXCEPT !.early = conn[c].ctx]
      BY <2>1 DEF TcpClosedEarly, ContextOf
    <3> QED
      BY <1>3, <2>0, <3>1
  <2>2. CASE server.early # NoContext
    BY <2>0, <2>2 DEF TcpClosedEarly
  <2> QED
    BY <2>1, <2>2
<1>15. /\ refs' \in [Contexts -> Nat]
       /\ \A x \in Contexts : x # conn[c].ctx => refs'[x] = refs[x]
       /\ refs'[conn[c].ctx] = refs[conn[c].ctx] - 1
  <2>1. refs' = Unref(conn[c].ctx) /\ refs \in [Contexts -> Nat]
    BY <1>1 DEF TcpClosedEarly, ContextOf, NetTypes
  <2> QED
    BY <1>2, <1>3, <2>1, NetUnref
<1>16. NetTypes'
  BY <1>1, <1>7, <1>11, <1>12, <1>15 DEF NetTypes, TcpClosedEarly, Socks
<1>17. refs[conn[c].ctx] \in Nat
  BY <1>1, <1>3 DEF NetTypes
<1> QED
  BY <1>2, <1>3, <1>5, <1>7, <1>10, <1>11, <1>12, <1>15, <1>16, <1>17

LEMMA NetTcpClosedEarly ==
  ASSUME NetAssumption, NetInv, NEW c, TcpClosedEarly(c)
  PROVE  NetInv'
<1>0. PICK item : item = Item("clear", c, 0, 0)
  OBVIOUS
<1>1. NetTypes /\ NetInvariant /\ SocketsAgree /\ ServerCloses /\ ItemsAgree /\ DropsExplained
  BY DEF NetInv, NetInvariant
<1>2. /\ NetTypes' /\ c \in DOMAIN conn /\ PutOnly(item) /\ conn[c].ctx \in Contexts /\ conn[c].ctx # NoContext
      /\ item.kind = "clear" /\ item.conn = c /\ item.h = 0
      /\ netLost \subseteq netLost' /\ netLost' \subseteq netLost \cup {"clear"}
      /\ "clear" \in netLost' \/ /\ item \in NetPending' /\ server.early = NoContext /\ conn'[c].early
                                 /\ server'.early = conn[c].ctx
      /\ DOMAIN conn' = DOMAIN conn /\ ConnsGrow
      /\ \A d \in DOMAIN conn : d # c => conn'[d] = conn[d]
      /\ ~conn'[c].open /\ conn'[c].drops = conn[c].drops /\ conn'[c].packets = conn[c].packets
      /\ server'.closed = server.closed /\ server'.closes = server.closes
      /\ \A x \in Contexts : x # conn[c].ctx => refs'[x] = refs[x]
      /\ refs'[conn[c].ctx] = refs[conn[c].ctx] - 1 /\ refs[conn[c].ctx] \in Nat
  BY <1>0, NetTcpClosedEarlyIs
<1>3. Alive(c) /\ ~conn[c].client /\ SocketOf(c) = 0 /\ UNCHANGED <<conns, clients, sock, netMain>>
  BY DEF TcpClosedEarly
<1>4. conn[c].open /\ \A d \in DOMAIN conn : d > c => conn[d].ctx # conn[c].ctx
  BY <1>3 DEF Alive, ContextOf
<1>5. /\ NetPending \subseteq NetPending' /\ NetPending' \subseteq NetPending \cup {item}
      /\ \A a, b \in NetPending' : Before(a, b)' => \/ a \in NetPending /\ b \in NetPending /\ Before(a, b)
                                                    \/ a \in NetPending /\ b = item
  BY <1>2 DEF PutOnly
<1>6. /\ Socks' = Socks /\ SameSockets
  BY <1>3 DEF Socks, SameSockets
<1>7. /\ \A kind, d : Waits(kind, d) => Waits(kind, d)'
      /\ \A kind, d : Waits(kind, d)' => Waits(kind, d) \/ (kind = "clear" /\ d = c)
      /\ \A d : HasItem(d) => HasItem(d)'
      /\ \A d : HasItem(d)' => HasItem(d) \/ d = c
      /\ \A d, m : HasData(d, m) => HasData(d, m)'
      /\ item \in NetPending' => Waits("clear", c)'
  BY <1>2, NetPutMeans
<1>8. \A a \in NetPending : ItemOk(a) /\ a.conn \in DOMAIN conn /\ (a.conn = c => a.kind \notin {"close", "clear"})
  BY <1>1, <1>4 DEF ItemsAgree, ItemOk
<1>9. \A a \in NetPending : PairOk(a, item)
  BY <1>2, <1>8 DEF PairOk
<1>10. SocketsAgree'
  <2>1. netMain'.at = "close" => netMain'.h \in Socks /\ sock[netMain'.h].held
    BY <1>1, <1>3 DEF SocketsAgree
  <2> QED
    BY <1>1, <1>2, <1>6, <2>1, NetSocketsKept
<1>11. ServerCloses'
  <2>1. \A a \in NetPending' : a.kind = "accept" => a \in NetPending
    BY <1>2, <1>5
  <2> QED
    BY <1>1, <1>2, <1>3, <2>1, NetClosesKept
<1>12. ItemsAgree'
  <2>1. ItemOk(item)'
    <3>1. conn'[c].client = conn[c].client
      BY <1>2 DEF ConnsGrow
    <3> QED
      BY <1>2, <1>3, <3>1 DEF ItemOk
  <2>2. ASSUME NEW a \in NetPending PROVE ItemOk(a)'
    <3>1. conn'[a.conn].drops = conn[a.conn].drops
      BY <1>2, <1>8
    <3>2. a.kind = "accept" => conn'[a.conn].drops = 0 /\ \A g \in Socks' : sock'[g].conn # a.conn
      BY <1>3, <1>6, <1>8, <3>1 DEF ItemOk
    <3> QED
      BY <1>1, <1>2, <1>6, <1>8, <3>2, NetItemOkKept
  <2> QED
    BY <1>1, <1>2, <1>9, <2>1, <2>2, NetItemsPut
<1>13. DropsExplained'
  BY <1>1, <1>2, NetDropsKept
<1>14. ASSUME Regular' PROVE ItemsRegular' /\ SocksRegular' /\ ConnsRegular' /\ DataRegular'
  <2>1. Regular
    BY <1>1, <1>2, <1>14, NetRegularBefore
  <2>2. ItemsRegular /\ SocksRegular /\ ConnsRegular /\ RegOrder /\ DataRegular
    BY <1>1, <2>1, NetConnsRegularIs DEF NetInvariant
  <2>0. /\ item \in NetPending' /\ server.early = NoContext /\ conn'[c].early /\ server'.early = conn[c].ctx
        /\ "data" \notin netLost' => "data" \notin netLost
    BY <1>2, <1>14 DEF Regular, NoCloseLost
  <2>3. \A d \in DOMAIN conn : d \in Nat \ {0} /\ conn[d].ctx \in Contexts /\ conn[d].ctx # NoContext
    BY <1>1, NetConnsTyped
  \* No socket is there yet, and nothing else has been closed early.
  <2>4. \A g \in Socks : sock[g].conn # c
    <3>1. PICK h : h = SocketOf(c)
      OBVIOUS
    <3>2. \A g \in Socks : sock[g].conn = c /\ conn[c].ctx # server.early => h # 0
      BY <1>3, <2>1, <3>1, NetOwnSocket
    <3> QED
      BY <1>2, <1>3, <2>0, <3>1, <3>2
  <2>5. \A d \in DOMAIN conn : conn'[d].drops = conn[d].drops /\ conn'[d].packets = conn[d].packets
                               /\ conn'[d].ctx = conn[d].ctx /\ conn'[d].client = conn[d].client
    BY <1>2 DEF ConnsGrow
  <2>11. \A a \in NetPending : a.kind # "clear"
    <3>1. \A a \in NetPending : a.kind = "clear" => server.early = conn[a.conn].ctx
      BY <2>2 DEF ItemsRegular, RegItem
    <3> QED
      BY <1>8, <2>0, <2>3, <3>1
  <2>10. \A g \in Socks : Listed(g)' <=> Listed(g)
    BY <1>3 DEF Listed
  <2>6. ItemsRegular'
    <3>1. ASSUME NEW a \in NetPending PROVE RegItem(a)'
      <4>1. RegItem(a) /\ a \in NetPending' /\ a.kind # "clear"
        BY <1>5, <2>2, <2>11 DEF ItemsRegular
      <4>3. CASE a.conn # c
        <5>1. a.kind = "accept" /\ conn[a.conn].open => conn'[a.conn].open
          BY <1>2, <1>8, <4>3
        <5> QED
          BY <1>1, <1>2, <1>3, <1>6, <1>7, <4>1, <5>1, NetRegItemKept
      <4>4. CASE a.conn = c
        <5>1. /\ a.h # 0 => sock'[a.h].conn = a.conn
              /\ a.kind = "data" /\ conn'[a.conn].client => a.h # 0
          BY <1>2, <1>3, <2>5, <4>1, <4>4 DEF RegItem
        <5>2. Waits("clear", a.conn)'
          BY <1>7, <2>0, <4>4
        <5> QED
          BY <4>1, <5>1, <5>2 DEF RegItem
      <4> QED
        BY <4>3, <4>4
    <3>2. RegItem(item)'
      BY <1>2, <2>0, <2>5 DEF RegItem
    <3>3. ASSUME NEW a \in NetPending' , NEW b \in NetPending', Before(a, b)' PROVE RegPair(a, b)'
      <4>1. CASE a \in NetPending /\ b \in NetPending /\ Before(a, b)
        BY <1>1, <1>2, <2>2, <4>1, NetRegPairKept DEF ItemsRegular
      <4>2. CASE a \in NetPending /\ b = item
        <5>1. a.conn \in DOMAIN conn /\ a.conn \in Nat /\ c \in Nat
          BY <1>2, <1>8, <2>3, <4>2
        <5>2. conn[a.conn].ctx = conn[c].ctx => a.conn <= c
          BY <1>4, <5>1
        <5> QED
          BY <1>2, <2>5, <2>11, <4>2, <5>1, <5>2 DEF RegPair, SameContext
      <4> QED
        BY <1>5, <3>3, <4>1, <4>2
    <3>4. item \in NetPending' /\ item.kind = "clear" /\ conn'[item.conn].ctx = server'.early
      BY <1>2, <2>0, <2>5
    <3> QED
      BY <1>5, <3>1, <3>2, <3>3, <3>4 DEF ItemsRegular
  <2>7. SocksRegular'
    <3>1. ASSUME NEW g \in Socks, sock[g].conn # 0 PROVE RegSock(g)'
      <4>1. PICK d : d = sock[g].conn
        OBVIOUS
      <4>2. d \in DOMAIN conn /\ RegSock(g) /\ d # c
        BY <1>1, <2>2, <2>4, <3>1, <4>1 DEF SocketsAgree, SocksRegular
      <4>4. (Waits("close", d)' <=> Waits("close", d)) /\ (Waits("clear", d)' <=> Waits("clear", d))
        BY <1>7, <4>2
      <4>5. HasItem(d)' => HasItem(d)
        BY <1>7, <4>2
      <4>6. conn'[d].open = conn[d].open
        BY <1>2, <4>2
      <4> QED
        BY <1>3, <2>5, <2>10, <4>1, <4>2, <4>4, <4>5, <4>6, NetRegSockKept
    <3>2. RegMain'
      <4>1. CASE netMain.at # "close"
        BY <1>3, <4>1 DEF RegMain
      <4>2. CASE netMain.at = "close"
        <5>1. PICK g, d : g = netMain.h /\ d = sock[g].conn
          OBVIOUS
        <5>2. d # 0 /\ ~conn[d].open /\ ~HasItem(d) /\ Listed(g) /\ g \in Socks
          BY <1>1, <2>2, <4>2, <5>1 DEF RegMain, SocksRegular, SocketsAgree
        <5>3. d # c /\ d \in DOMAIN conn
          BY <1>1, <1>4, <5>1, <5>2 DEF SocketsAgree
        <5>4. ~HasItem(d)' /\ ~conn'[d].open /\ Listed(g)' /\ sock'[g].conn = d
          BY <1>2, <1>3, <1>7, <2>10, <5>1, <5>2, <5>3
        <5> QED
          BY <1>3, <5>1, <5>2, <5>4 DEF RegMain
      <4> QED
        BY <4>1, <4>2
    <3>3. \A g, h1 \in Socks' : InSeq(g, clients') /\ InSeq(h1, clients') /\ sock'[g].ctx = sock'[h1].ctx
                               /\ sock'[g].ctx # NoContext => g = h1
      BY <1>3, <1>6, <2>2, NetClientsKept
    <3> QED
      BY <1>3, <1>6, <3>1, <3>2, <3>3 DEF SocksRegular
  <2>8. ConnsRegular'
    <3>1. ASSUME NEW d \in DOMAIN conn, ~conn[d].client PROVE RegRefs(d)'
      <4>0. RegRefs(d)
        BY <2>2, <3>1 DEF ConnsRegular
      <4>1. CASE conn[d].ctx # conn[c].ctx
        <5>1. d # c /\ conn'[d].open = conn[d].open /\ refs'[conn[d].ctx] = refs[conn[d].ctx]
          BY <1>2, <2>3, <4>1
        <5> QED
          BY <1>3, <1>6, <2>5, <4>0, <5>1, NetRegRefsKept
      <4>2. CASE conn[d].ctx = conn[c].ctx /\ d # c
        <5>1. ~(conn[d].open \/ conn[d].drops = 0)
          <6>1. d < c
            BY <1>2, <1>4, <2>3, <4>2
          <6> QED
            BY <1>2, <1>3, <2>2, <3>1, <4>2, <6>1 DEF RegOrder, SameContext
        <5>2. ~(conn'[d].open \/ conn'[d].drops = 0)
          BY <1>2, <4>2, <5>1
        <5> QED
          BY <5>2 DEF RegRefs
      <4>3. CASE d = c
        <5>1. /\ refs[conn[c].ctx] = 1 + (1 - conn[c].drops)
              /\ \A g \in Socks : InSeq(g, clients) => sock[g].ctx # conn[c].ctx
          BY <1>4, <4>0, <4>3 DEF RegRefs
        <5>2. conn[c].drops \in Nat
          BY <1>1, <1>2, NetConnTyped DEF NetTypes
        <5>3. refs'[conn[c].ctx] = 0 + (1 - conn'[c].drops)
          BY <1>2, <5>1, <5>2
        <5>4. \A g \in Socks' : InSeq(g, clients') => sock'[g].ctx # conn'[c].ctx
          BY <1>2, <1>3, <1>6, <2>5, <5>1
        <5>5. conn'[c].ctx = conn[c].ctx
          BY <1>2, <2>5
        <5> QED
          BY <1>2, <4>3, <5>3, <5>4, <5>5 DEF RegRefs
      <4> QED
        BY <4>1, <4>2, <4>3
    <3>2. RegOrder'
      <4>1. \A d, e \in DOMAIN conn : d < e /\ SameContext(d, e) /\ HasItem(d)' => HasItem(d)
        <5>1. \A e \in DOMAIN conn : c < e => ~SameContext(c, e)
          BY <1>2, <1>4, <2>3 DEF SameContext
        <5> QED
          BY <1>7, <5>1
      <4> QED
        BY <1>2, <1>3, <1>6, <2>2, <2>5, <4>1, NetOrderKept
    <3>3. (\A d \in DOMAIN conn : ~conn[d].client => RegRefs(d))'
      BY <1>2, <2>5, <3>1
    <3> QED
      BY <3>2, <3>3 DEF ConnsRegular, RegOrder
  <2>9. DataRegular'
    <3>1. ASSUME NEW g \in Socks PROVE RegData(g)'
      <4>1. PICK d : d = sock[g].conn
        OBVIOUS
      <4>2. RegData(g) /\ (d # 0 => d \in DOMAIN conn)
        BY <1>1, <2>2, <4>1 DEF SocketsAgree, DataRegular
      <4>4. Len(DataOf(sock[g])) \in Nat /\ (d # 0 => conn[d].packets \in Nat)
        BY <1>1, <4>2, NetDataTyped, NetConnTyped DEF NetTypes, Socks
      <4>5. \A a \in NetPending' : a.kind = "data" /\ a.conn = d => a \in NetPending
        BY <1>2, <1>5
      <4>6. DataOf(sock'[g]) = DataOf(sock[g]) /\ sock'[g].conn = d /\ (d # 0 => conn'[d].packets = conn[d].packets)
        BY <1>3, <2>5, <4>1, <4>2
      <4> QED
        BY <1>7, <2>0, <2>10, <4>1, <4>2, <4>4, <4>5, <4>6, NetRegDataKept
    <3>2. "data" \notin netLost' =>
            \A a \in NetPending' : a.kind = "accept" => \A m \in 1 .. conn'[a.conn].packets : HasData(a.conn, m)'
      BY <1>2, <1>5, <1>7, <1>8, <2>0, <2>2, <2>5 DEF DataRegular
    <3> QED
      BY <1>6, <3>1, <3>2 DEF DataRegular
  <2> QED
    BY <2>6, <2>7, <2>8, <2>9
<1> QED
  BY <1>2, <1>10, <1>11, <1>12, <1>13, <1>14 DEF NetInv, NetInvariant

-----------------------------------------------------------------------------
(***************************************************************************)
(* A connection is made.                                                   *)
(***************************************************************************)
LEMMA NetConnMade ==
  ASSUME conn \in Seq(ConnRecs), NEW context \in Contexts, NEW client \in BOOLEAN, NewConnection(context, client),
         NEW n, n = Len(conn) + 1
  PROVE  /\ conn' \in Seq(ConnRecs) /\ n \in Nat \ {0} /\ n \notin DOMAIN conn /\ n \in DOMAIN conn'
         /\ \A d \in DOMAIN conn : d \in DOMAIN conn' /\ conn'[d] = conn[d] /\ d < n /\ d \in Nat \ {0}
         /\ \A d \in DOMAIN conn' : d \in DOMAIN conn \/ d = n
         /\ conn'[n].ctx = context /\ conn'[n].client = client /\ conn'[n].open /\ conn'[n].packets = 0
         /\ ~conn'[n].early /\ conn'[n].drops = 0
         /\ ConnsGrow
<1>1. PICK s : s = [ctx |-> context, client |-> client, open |-> TRUE, packets |-> 0, early |-> FALSE, drops |-> 0]
  OBVIOUS
<1>2. s \in ConnRecs /\ s.ctx = context /\ s.client = client /\ s.open /\ s.packets = 0 /\ ~s.early /\ s.drops = 0
  BY <1>1, NetConnNew
<1>3. conn' = Append(conn, s)
  BY <1>1 DEF NewConnection
<1>4. /\ conn' \in Seq(ConnRecs) /\ Len(conn) \in Nat
      /\ DOMAIN conn = 1 .. Len(conn) /\ DOMAIN conn' = 1 .. Len(conn) + 1
      /\ (\A i \in 1 .. Len(conn) : conn'[i] = conn[i]) /\ conn'[Len(conn) + 1] = s
  BY <1>2, <1>3, NetGrows
<1>5. /\ n \in Nat \ {0} /\ n \notin DOMAIN conn /\ n \in DOMAIN conn' /\ conn'[n] = s
      /\ \A d \in DOMAIN conn : d \in DOMAIN conn' /\ conn'[d] = conn[d] /\ d < n /\ d \in Nat \ {0}
      /\ \A d \in DOMAIN conn' : d \in DOMAIN conn \/ d = n
  BY <1>4
<1>6. \A d \in DOMAIN conn : conn[d].drops \in Nat /\ conn[d].packets \in Nat
  BY NetConnTyped
<1>7. ConnsGrow
  BY <1>5, <1>6 DEF ConnsGrow
<1> QED
  BY <1>2, <1>4, <1>5, <1>7

LEMMA NetTcpAcceptedIs ==
  ASSUME NetAssumption, NetInv, NEW context \in Contexts, TcpAccepted(context), NEW n, n = Len(conn) + 1,
         NEW item, item = Item("accept", n, 0, 0)
  PROVE  /\ NetTypes' /\ PutOnly(item)
         /\ item.kind = "accept" /\ item.conn = n /\ item.h = 0
         /\ netLost \subseteq netLost'
         /\ n \in Nat \ {0} /\ n \notin DOMAIN conn /\ n \in DOMAIN conn'
         /\ \A d \in DOMAIN conn : d \in DOMAIN conn' /\ conn'[d] = conn[d] /\ d < n /\ d \in Nat \ {0}
         /\ \A d \in DOMAIN conn' : d \in DOMAIN conn \/ d = n
         /\ conn'[n].ctx = context /\ ~conn'[n].client /\ conn'[n].open /\ conn'[n].packets = 0
         /\ ~conn'[n].early /\ conn'[n].drops = 0
         /\ ConnsGrow
         /\ "reused" \notin netLost' => \A g \in Socks : InSeq(g, clients) => sock[g].ctx # context
         /\ refs[context] = 0 /\ refs'[context] = 2 /\ \A x \in Contexts : x # context => refs'[x] = refs[x]
<1>1. NetTypes
  BY DEF NetInv
<1>2. conn \in Seq(ConnRecs) /\ NewConnection(context, FALSE)
  BY <1>1 DEF NetTypes, TcpAccepted
<1>3. /\ conn' \in Seq(ConnRecs) /\ n \in Nat \ {0} /\ n \notin DOMAIN conn /\ n \in DOMAIN conn'
      /\ \A d \in DOMAIN conn : d \in DOMAIN conn' /\ conn'[d] = conn[d] /\ d < n /\ d \in Nat \ {0}
      /\ \A d \in DOMAIN conn' : d \in DOMAIN conn \/ d = n
      /\ conn'[n].ctx = context /\ conn'[n].client = FALSE /\ conn'[n].open /\ conn'[n].packets = 0
      /\ ~conn'[n].early /\ conn'[n].drops = 0
      /\ ConnsGrow
  BY <1>2, NetConnMade
<1>4. /\ item \in NetItems /\ item.kind = "accept" /\ item.conn = n /\ item.h = 0
  BY <1>3 DEF Item, NetItems
<1>5. Queue(item) /\ netLost' = netLost \cup Lost(item) \cup Reuses(context)
  BY DEF TcpAccepted
<1>6. netRing' \in Seq(NetItems) /\ PutOnly(item)
  BY <1>1, <1>4, <1>5, NetPuts DEF NetTypes
<1>7. refs' \in [Contexts -> Nat] /\ refs[context] = 0 /\ refs'[context] = 2 /\ \A x \in Contexts : x # context => refs'[x] = refs[x]
  BY <1>1 DEF TcpAccepted, NetTypes
<1>8. "reused" \notin netLost' => \A g \in Socks : InSeq(g, clients) => sock[g].ctx # context
  BY <1>5 DEF Reuses, InSeq
<1>9. NetTypes'
  BY <1>1, <1>3, <1>6, <1>7 DEF NetTypes, TcpAccepted, Socks
<1> QED
  BY <1>3, <1>4, <1>5, <1>6, <1>7, <1>8, <1>9

LEMMA NetTcpAccepted ==
  ASSUME NetAssumption, NetInv, NEW context \in Contexts, TcpAccepted(context)
  PROVE  NetInv'
<1>0. PICK n, item : n = Len(conn) + 1 /\ item = Item("accept", n, 0, 0)
  OBVIOUS
<1>1. NetTypes /\ NetInvariant /\ SocketsAgree /\ ServerCloses /\ ItemsAgree /\ DropsExplained
  BY DEF NetInv, NetInvariant
<1>2. /\ NetTypes' /\ PutOnly(item)
      /\ item.kind = "accept" /\ item.conn = n /\ item.h = 0
      /\ netLost \subseteq netLost'
      /\ n \in Nat \ {0} /\ n \notin DOMAIN conn /\ n \in DOMAIN conn'
      /\ \A d \in DOMAIN conn : d \in DOMAIN conn' /\ conn'[d] = conn[d] /\ d < n /\ d \in Nat \ {0}
      /\ \A d \in DOMAIN conn' : d \in DOMAIN conn \/ d = n
      /\ conn'[n].ctx = context /\ ~conn'[n].client /\ conn'[n].open /\ conn'[n].packets = 0
      /\ ~conn'[n].early /\ conn'[n].drops = 0
      /\ ConnsGrow
      /\ "reused" \notin netLost' => \A g \in Socks : InSeq(g, clients) => sock[g].ctx # context
      /\ refs[context] = 0 /\ refs'[context] = 2 /\ \A x \in Contexts : x # context => refs'[x] = refs[x]
  BY <1>0, NetTcpAcceptedIs
<1>3. ~server.closed /\ UNCHANGED <<server, conns, clients, sock, netMain>>
  BY DEF TcpAccepted
<1>5. /\ NetPending \subseteq NetPending' /\ NetPending' \subseteq NetPending \cup {item}
      /\ \A a, b \in NetPending' : Before(a, b)' => \/ a \in NetPending /\ b \in NetPending /\ Before(a, b)
                                                    \/ a \in NetPending /\ b = item
  BY <1>2 DEF PutOnly
<1>6. /\ Socks' = Socks /\ SameSockets
  BY <1>3 DEF Socks, SameSockets
<1>7. /\ \A kind, d : Waits(kind, d) => Waits(kind, d)'
      /\ \A kind, d : Waits(kind, d)' => Waits(kind, d) \/ (kind = "accept" /\ d = n)
      /\ \A d : HasItem(d) => HasItem(d)'
      /\ \A d : HasItem(d)' => HasItem(d) \/ d = n
      /\ \A d, m : HasData(d, m) => HasData(d, m)'
  BY <1>2, NetPutMeans
<1>8. \A a \in NetPending : ItemOk(a) /\ a.conn \in DOMAIN conn /\ a.conn # n
  BY <1>1, <1>2 DEF ItemsAgree, ItemOk
<1>4. \A g \in Socks : sock[g].conn # n /\ (sock[g].conn # 0 => sock[g].conn \in DOMAIN conn)
  BY <1>1, <1>2 DEF SocketsAgree
<1>9. \A a \in NetPending : PairOk(a, item)
  BY <1>2, <1>8 DEF PairOk
<1>10. SocketsAgree'
  <2>1. netMain'.at = "close" => netMain'.h \in Socks /\ sock[netMain'.h].held
    BY <1>1, <1>3 DEF SocketsAgree
  <2> QED
    BY <1>1, <1>2, <1>6, <2>1, NetSocketsKept
<1>11. ServerCloses'
  BY <1>1, <1>2, <1>3 DEF ServerCloses
<1>12. ItemsAgree'
  <2>1. ItemOk(item)'
    BY <1>2, <1>3, <1>4, <1>6 DEF ItemOk
  <2>2. ASSUME NEW a \in NetPending PROVE ItemOk(a)'
    <3>1. conn'[a.conn].drops = conn[a.conn].drops
      BY <1>2, <1>8
    <3>2. a.kind = "accept" => conn'[a.conn].drops = 0 /\ \A g \in Socks' : sock'[g].conn # a.conn
      BY <1>3, <1>6, <1>8, <3>1 DEF ItemOk
    <3> QED
      BY <1>1, <1>2, <1>6, <1>8, <3>2, NetItemOkKept
  <2> QED
    BY <1>1, <1>2, <1>9, <2>1, <2>2, NetItemsPut
<1>13. DropsExplained'
  <2>1. \A c \in DOMAIN conn' : (c \in DOMAIN conn /\ conn'[c].drops = conn[c].drops) \/ conn'[c].drops = 0
    BY <1>2
  <2> QED
    BY <1>1, <1>2, <2>1, NetDropsKept
<1>14. ASSUME Regular' PROVE ItemsRegular' /\ SocksRegular' /\ ConnsRegular' /\ DataRegular'
  <2>1. Regular
    BY <1>1, <1>2, <1>14, NetRegularBefore
  <2>2. ItemsRegular /\ SocksRegular /\ ConnsRegular /\ RegOrder /\ DataRegular
    BY <1>1, <2>1, NetConnsRegularIs DEF NetInvariant
  <2>0. /\ \A g \in Socks : InSeq(g, clients) => sock[g].ctx # context
        /\ "data" \notin netLost' => "data" \notin netLost
    BY <1>2, <1>14 DEF Regular, NoCloseLost
  <2>3. \A d \in DOMAIN conn : conn[d].drops \in Nat /\ conn[d].drops <= 1 /\ conn[d].ctx \in Contexts /\ conn[d].packets \in Nat
    <3>1. \A d \in DOMAIN conn : conn[d].drops \in Nat /\ conn[d].ctx \in Contexts /\ conn[d].packets \in Nat
      BY <1>1, NetConnTyped DEF NetTypes
    <3> QED
      BY <2>1, <3>1 DEF Regular, DroppedOnce
  \* The context is free: what had it before is over.
  <2>4. ASSUME NEW d \in DOMAIN conn, ~conn[d].client, conn[d].ctx = context
        PROVE  ~conn[d].open /\ conn[d].drops = 1
    <3>1. conn[d].open \/ conn[d].drops = 0 => refs[context] = (IF conn[d].open THEN 1 ELSE 0) + (1 - conn[d].drops)
      BY <2>2, <2>4 DEF ConnsRegular, RegRefs
    <3>2. conn[d].drops = 0 \/ conn[d].drops = 1
      BY <2>3
    <3> QED
      BY <1>2, <3>1, <3>2
  <2>10. \A g \in Socks : Listed(g)' <=> Listed(g)
    BY <1>3 DEF Listed
  <2>6. ItemsRegular'
    <3>1. ASSUME NEW a \in NetPending PROVE RegItem(a)'
      <4>1. RegItem(a) /\ a \in NetPending'
        BY <1>5, <2>2 DEF ItemsRegular
      <4>2. a.kind = "accept" /\ conn[a.conn].open => conn'[a.conn].open
        BY <1>2, <1>8
      <4> QED
        BY <1>1, <1>2, <1>3, <1>6, <1>7, <4>1, <4>2, NetRegItemKept
    <3>2. RegItem(item)'
      BY <1>2 DEF RegItem
    <3>3. ASSUME NEW a \in NetPending' , NEW b \in NetPending', Before(a, b)' PROVE RegPair(a, b)'
      <4>1. CASE a \in NetPending /\ b \in NetPending /\ Before(a, b)
        BY <1>1, <1>2, <2>2, <4>1, NetRegPairKept DEF ItemsRegular
      <4>2. CASE a \in NetPending /\ b = item
        <5>1. a.conn \in DOMAIN conn /\ a.conn \in Nat /\ n \in Nat /\ a.conn < n
          BY <1>2, <1>8, <4>2
        <5> QED
          BY <1>2, <4>2, <5>1 DEF RegPair
      <4> QED
        BY <1>5, <3>3, <4>1, <4>2
    <3>4. server'.early # NoContext => \E a \in NetPending' : a.kind = "clear" /\ conn'[a.conn].ctx = server'.early
      BY <1>2, <1>3, <1>5, <1>8, <2>2 DEF ItemsRegular
    <3> QED
      BY <1>5, <3>1, <3>2, <3>3, <3>4 DEF ItemsRegular
  <2>7. SocksRegular'
    <3>1. ASSUME NEW g \in Socks, sock[g].conn # 0 PROVE RegSock(g)'
      <4>1. PICK d : d = sock[g].conn
        OBVIOUS
      <4>2. d \in DOMAIN conn /\ RegSock(g) /\ d # n
        BY <1>1, <1>4, <2>2, <3>1, <4>1 DEF SocketsAgree, SocksRegular
      <4>4. (Waits("close", d)' <=> Waits("close", d)) /\ (Waits("clear", d)' <=> Waits("clear", d))
        BY <1>7, <4>2
      <4>5. HasItem(d)' => HasItem(d)
        BY <1>7, <4>2
      <4>6. conn'[d].open = conn[d].open /\ conn'[d].drops = conn[d].drops
        BY <1>2, <4>2
      <4> QED
        BY <1>3, <2>10, <4>1, <4>2, <4>4, <4>5, <4>6, NetRegSockKept
    <3>2. RegMain'
      <4>1. CASE netMain.at # "close"
        BY <1>3, <4>1 DEF RegMain
      <4>2. CASE netMain.at = "close"
        <5>1. PICK g, d : g = netMain.h /\ d = sock[g].conn
          OBVIOUS
        <5>2. d # 0 /\ ~conn[d].open /\ ~HasItem(d) /\ Listed(g) /\ g \in Socks
          BY <1>1, <2>2, <4>2, <5>1 DEF RegMain, SocksRegular, SocketsAgree
        <5>3. d # n /\ d \in DOMAIN conn
          BY <1>4, <5>1, <5>2
        <5>4. ~HasItem(d)' /\ ~conn'[d].open /\ Listed(g)' /\ sock'[g].conn = d
          BY <1>2, <1>3, <1>7, <2>10, <5>1, <5>2, <5>3
        <5> QED
          BY <1>3, <5>1, <5>2, <5>4 DEF RegMain
      <4> QED
        BY <4>1, <4>2
    <3>3. \A g, h1 \in Socks' : InSeq(g, clients') /\ InSeq(h1, clients') /\ sock'[g].ctx = sock'[h1].ctx
                               /\ sock'[g].ctx # NoContext => g = h1
      BY <1>3, <1>6, <2>2, NetClientsKept
    <3> QED
      BY <1>3, <1>6, <3>1, <3>2, <3>3 DEF SocksRegular
  <2>8. ConnsRegular'
    <3>1. ASSUME NEW d \in DOMAIN conn, ~conn[d].client PROVE RegRefs(d)'
      <4>0. RegRefs(d) /\ conn'[d] = conn[d]
        BY <1>2, <2>2, <3>1 DEF ConnsRegular
      <4>1. CASE conn[d].ctx # context
        <5>1. refs'[conn[d].ctx] = refs[conn[d].ctx]
          BY <1>2, <2>3, <4>1
        <5> QED
          BY <1>3, <1>6, <4>0, <5>1, NetRegRefsKept
      <4>2. CASE conn[d].ctx = context
        <5>1. ~(conn'[d].open \/ conn'[d].drops = 0)
          BY <2>4, <3>1, <4>0, <4>2
        <5> QED
          BY <5>1 DEF RegRefs
      <4> QED
        BY <4>1, <4>2
    <3>2. RegRefs(n)'
      BY <1>2, <1>3, <1>6, <2>0 DEF RegRefs
    <3>3. ASSUME NEW d \in DOMAIN conn', NEW e \in DOMAIN conn', d < e, SameContext(d, e)'
          PROVE  ~conn'[d].open /\ conn'[d].drops = 1 /\ (HasItem(d)' => \A g \in Socks' : sock'[g].conn # e)
      <4>1. d # n
        <5>1. e < n \/ e = n
          BY <1>2
        <5>2. d \in Nat /\ e \in Nat
          BY <1>2
        <5> QED
          BY <3>3, <5>1, <5>2
      <4>2. d \in DOMAIN conn /\ conn'[d] = conn[d]
        BY <1>2, <4>1
      <4>3. CASE e = n
        <5>1. ~conn[d].client /\ conn[d].ctx = context
          BY <1>2, <3>3, <4>2, <4>3 DEF SameContext
        <5> QED
          BY <1>3, <1>4, <1>6, <2>4, <4>2, <4>3, <5>1
      <4>4. CASE e \in DOMAIN conn
        <5>1. SameContext(d, e)
          BY <1>2, <3>3, <4>2, <4>4 DEF SameContext
        <5>2. /\ ~conn[d].open /\ conn[d].drops = 1
              /\ HasItem(d) => \A g \in Socks : sock[g].conn # e
          BY <2>2, <3>3, <4>2, <4>4, <5>1 DEF RegOrder
        <5>3. HasItem(d)' => HasItem(d)
          BY <1>7, <4>1
        <5> QED
          BY <1>3, <1>6, <4>2, <5>2, <5>3
      <4> QED
        BY <1>2, <4>3, <4>4
    <3>4. (\A d \in DOMAIN conn : ~conn[d].client => RegRefs(d))'
      BY <1>2, <3>1, <3>2
    <3> QED
      BY <3>3, <3>4 DEF ConnsRegular
  <2>9. DataRegular'
    <3>1. ASSUME NEW g \in Socks PROVE RegData(g)'
      <4>1. PICK d : d = sock[g].conn
        OBVIOUS
      <4>2. RegData(g) /\ (d # 0 => d \in DOMAIN conn)
        BY <1>1, <2>2, <4>1 DEF SocketsAgree, DataRegular
      <4>4. Len(DataOf(sock[g])) \in Nat /\ (d # 0 => conn[d].packets \in Nat)
        BY <1>1, <4>2, NetDataTyped, NetConnTyped DEF NetTypes, Socks
      <4>5. \A a \in NetPending' : a.kind = "data" /\ a.conn = d => a \in NetPending
        BY <1>2, <1>5
      <4>6. DataOf(sock'[g]) = DataOf(sock[g]) /\ sock'[g].conn = d /\ (d # 0 => conn'[d].packets = conn[d].packets)
        BY <1>2, <1>3, <4>1, <4>2
      <4> QED
        BY <1>7, <2>0, <2>10, <4>1, <4>2, <4>4, <4>5, <4>6, NetRegDataKept
    <3>2. "data" \notin netLost' =>
            \A a \in NetPending' : a.kind = "accept" => \A m \in 1 .. conn'[a.conn].packets : HasData(a.conn, m)'
      BY <1>2, <1>5, <1>7, <1>8, <2>0, <2>2 DEF DataRegular
    <3> QED
      BY <1>6, <3>1, <3>2 DEF DataRegular
  <2> QED
    BY <2>6, <2>7, <2>8, <2>9
<1> QED
  BY <1>2, <1>10, <1>11, <1>12, <1>13, <1>14 DEF NetInv, NetInvariant

-----------------------------------------------------------------------------
(***************************************************************************)
(* Sockets of clients.                                                     *)
(***************************************************************************)
LEMMA NetTcpConnectedIs ==
  ASSUME NetAssumption, NetInv, NEW h \in Socks, TcpConnected(h), NEW n, n = Len(conn) + 1
  PROVE  /\ NetTypes' /\ SameRing /\ netLost' = netLost
         /\ n \in Nat \ {0} /\ n \notin DOMAIN conn /\ n \in DOMAIN conn'
         /\ \A d \in DOMAIN conn : d \in DOMAIN conn' /\ conn'[d] = conn[d] /\ d < n /\ d \in Nat \ {0}
         /\ \A d \in DOMAIN conn' : d \in DOMAIN conn \/ d = n
         /\ conn'[n].ctx = sock[h].ctx /\ conn'[n].client /\ conn'[n].open /\ conn'[n].packets = 0
         /\ ~conn'[n].early /\ conn'[n].drops = 0
         /\ ConnsGrow
         /\ InSeq(h, clients) /\ sock[h].conn = 0 /\ sock[h].ctx # NoContext /\ sock'[h].conn = n
         /\ \A g \in Socks : g # h => sock'[g].conn = sock[g].conn
         /\ DOMAIN sock' = DOMAIN sock
         /\ \A g \in Socks : /\ sock'[g].ctx = sock[g].ctx /\ sock'[g].client = sock[g].client
                             /\ sock'[g].held = sock[g].held /\ sock'[g].closed = sock[g].closed
                             /\ DataOf(sock'[g]) = DataOf(sock[g])
<1>1. NetTypes
  BY DEF NetInv
<1>2. /\ InSeq(h, clients) /\ sock[h].ctx # NoContext /\ sock[h].conn = 0 /\ NewConnection(sock[h].ctx, TRUE)
      /\ DeferItem(Event(h)) /\ UNCHANGED <<server, conns, clients, refs, netMain, netCount, netFault>>
  BY DEF TcpConnected
<1>3. sock[h] \in SockRecs /\ sock[h].timeout \in BOOLEAN /\ sock[h].ctx \in Contexts \cup {NoContext}
  BY <1>1, NetSockTyped DEF NetTypes, Socks
<1>4. PICK context : context = sock[h].ctx
  OBVIOUS
<1>5. context \in Contexts
  BY <1>2, <1>3, <1>4
<1>6. /\ conn' \in Seq(ConnRecs) /\ n \in Nat \ {0} /\ n \notin DOMAIN conn /\ n \in DOMAIN conn'
      /\ \A d \in DOMAIN conn : d \in DOMAIN conn' /\ conn'[d] = conn[d] /\ d < n /\ d \in Nat \ {0}
      /\ \A d \in DOMAIN conn' : d \in DOMAIN conn \/ d = n
      /\ conn'[n].ctx = context /\ conn'[n].client = TRUE /\ conn'[n].open /\ conn'[n].packets = 0
      /\ ~conn'[n].early /\ conn'[n].drops = 0
      /\ ConnsGrow
  <2>1. conn \in Seq(ConnRecs) /\ NewConnection(context, TRUE) /\ TRUE \in BOOLEAN
    BY <1>1, <1>2, <1>4 DEF NetTypes, NewConnection
  <2> QED
    BY ONLY <1>5, <2>1, n = Len(conn) + 1, NetConnMade
<1>7. PICK s : s = [sock[h] EXCEPT !.timer = sock[h].timeout, !.conn = n]
  OBVIOUS
<1>8. /\ s \in SockRecs /\ s.conn = n /\ s.ctx = sock[h].ctx /\ s.client = sock[h].client /\ s.closed = sock[h].closed
      /\ s.held = sock[h].held /\ s.buf = sock[h].buf /\ s.given = sock[h].given
  <2>1. n \in Nat
    BY <1>6
  <2> QED
    BY ONLY <1>3, <1>7, <2>1 DEF SockRecs
<1>9. sock' = [sock EXCEPT ![h] = s]
  BY <1>7 DEF TcpConnected
<1>10. /\ sock' \in Seq(SockRecs) /\ DOMAIN sock' = DOMAIN sock /\ sock'[h] = s
       /\ \A g \in Socks : g # h => sock'[g] = sock[g]
  BY <1>1, <1>8, <1>9, NetSockIs DEF NetTypes
<1>11. \A g \in Socks : /\ sock'[g].ctx = sock[g].ctx /\ sock'[g].client = sock[g].client
                        /\ sock'[g].held = sock[g].held /\ sock'[g].closed = sock[g].closed
                        /\ DataOf(sock'[g]) = DataOf(sock[g])
  BY <1>8, <1>10 DEF DataOf
<1>12. netRing' \in Seq(NetItems) /\ SameRing /\ netLost' = netLost
  <2>1. h \in Nat /\ netRing \in Seq(NetItems)
    BY <1>1, NetSockTyped DEF NetTypes, Socks
  <2>2. DeferItem(Event(h)) /\ Queue(Event(h))
    BY <1>2 DEF DeferItem
  <2> QED
    BY ONLY <2>1, <2>2, NetEvents
<1>13. NetTypes'
  BY <1>1, <1>2, <1>6, <1>10, <1>12 DEF NetTypes, Socks
<1> QED
  BY <1>2, <1>4, <1>6, <1>8, <1>10, <1>11, <1>12, <1>13

LEMMA NetTcpConnected ==
  ASSUME NetAssumption, NetInv, NEW h \in Socks, TcpConnected(h)
  PROVE  NetInv'
<1>0. PICK n : n = Len(conn) + 1
  OBVIOUS
<1>1. NetTypes /\ NetInvariant /\ SocketsAgree /\ ServerCloses /\ ItemsAgree /\ DropsExplained
  BY DEF NetInv, NetInvariant
<1>2. /\ NetTypes' /\ SameRing /\ netLost' = netLost
      /\ n \in Nat \ {0} /\ n \notin DOMAIN conn /\ n \in DOMAIN conn'
      /\ \A d \in DOMAIN conn : d \in DOMAIN conn' /\ conn'[d] = conn[d] /\ d < n /\ d \in Nat \ {0}
      /\ \A d \in DOMAIN conn' : d \in DOMAIN conn \/ d = n
      /\ conn'[n].ctx = sock[h].ctx /\ conn'[n].client /\ conn'[n].open /\ conn'[n].packets = 0
      /\ ~conn'[n].early /\ conn'[n].drops = 0
      /\ ConnsGrow
      /\ InSeq(h, clients) /\ sock[h].conn = 0 /\ sock[h].ctx # NoContext /\ sock'[h].conn = n
      /\ \A g \in Socks : g # h => sock'[g].conn = sock[g].conn
      /\ DOMAIN sock' = DOMAIN sock
      /\ \A g \in Socks : /\ sock'[g].ctx = sock[g].ctx /\ sock'[g].client = sock[g].client
                          /\ sock'[g].held = sock[g].held /\ sock'[g].closed = sock[g].closed
                          /\ DataOf(sock'[g]) = DataOf(sock[g])
  BY <1>0, NetTcpConnectedIs
<1>3. UNCHANGED <<server, conns, clients, refs, netMain>>
  BY DEF TcpConnected
<1>6. Socks' = Socks
  BY <1>2 DEF Socks
<1>5. NetPending' = NetPending /\ \A a, b \in NetPending' : Before(a, b)' => Before(a, b)
  BY <1>2, NetRingKept
<1>7. /\ \A kind, d : Waits(kind, d)' <=> Waits(kind, d)
      /\ \A d : HasItem(d)' <=> HasItem(d)
      /\ \A d, m : HasData(d, m)' <=> HasData(d, m)
  BY <1>2, NetRingKept
<1>8. \A a \in NetPending : ItemOk(a) /\ a.conn \in DOMAIN conn /\ a.conn # n
  BY <1>1, <1>2 DEF ItemsAgree, ItemOk
<1>4. /\ \A g \in Socks : sock[g].conn # n /\ (sock[g].conn # 0 => sock[g].conn \in DOMAIN conn)
      /\ sock[h].client /\ ~HasItem(n)
  <2>1. \A g \in Socks : sock[g].conn # n /\ (sock[g].conn # 0 => sock[g].conn \in DOMAIN conn)
    BY <1>1, <1>2 DEF SocketsAgree
  <2>2. sock[h].client
    BY <1>1, <1>2 DEF SocketsAgree
  <2> QED
    BY <1>8, <2>1, <2>2 DEF HasItem
<1>10. SocketsAgree'
  <2>1. Distinct(conns)' /\ Distinct(clients)'
    BY <1>1, <1>3 DEF SocketsAgree, Distinct
  <2>2. ASSUME NEW g \in Socks
        PROVE  /\ InSeq(g, conns') <=> ~sock'[g].client /\ sock'[g].held
               /\ InSeq(g, clients') => sock'[g].client
               /\ sock'[g].client => sock'[g].held
               /\ sock'[g].conn # 0 => /\ sock'[g].conn \in DOMAIN conn'
                                       /\ conn'[sock'[g].conn].ctx = sock'[g].ctx
                                       /\ conn'[sock'[g].conn].client = sock'[g].client
               /\ ~sock'[g].client => sock'[g].conn # 0
    <3>1. /\ InSeq(g, conns') <=> ~sock'[g].client /\ sock'[g].held
          /\ InSeq(g, clients') => sock'[g].client
          /\ sock'[g].client => sock'[g].held
      BY <1>1, <1>2, <1>3 DEF SocketsAgree
    <3>2. CASE g = h
      <4>1. conn'[n].client = sock[h].client
        <5>1. conn'[n].client \in BOOLEAN /\ sock[h].client \in BOOLEAN
          BY <1>1, <1>2, NetConnTyped, NetSockTyped DEF NetTypes, Socks
        <5> QED
          BY <1>2, <1>4, <5>1
      <4> QED
        BY <1>2, <1>4, <3>1, <3>2, <4>1
    <3>3. CASE g # h
      <4>1. sock'[g].conn = sock[g].conn
        BY <1>2, <3>3
      <4>2. sock[g].conn # 0 => /\ sock[g].conn \in DOMAIN conn
                                /\ conn[sock[g].conn].ctx = sock[g].ctx
                                /\ conn[sock[g].conn].client = sock[g].client
        BY <1>1 DEF SocketsAgree
      <4>3. ~sock[g].client => sock[g].conn # 0
        BY <1>1 DEF SocketsAgree
      <4> QED
        BY <1>2, <3>1, <4>1, <4>2, <4>3
    <3> QED
      BY <3>2, <3>3
  <2>3. \A g, f \in Socks : sock'[g].conn = sock'[f].conn /\ sock'[g].conn # 0 => g = f
    <3>1. \A g, f \in Socks : sock[g].conn = sock[f].conn /\ sock[g].conn # 0 => g = f
      BY <1>1 DEF SocketsAgree
    <3> QED
      BY <1>2, <1>4, <3>1
  <2>4. "reused" \notin netLost' => \A c \in DOMAIN conn' : conn'[c].client => \E g \in Socks : sock'[g].conn = c
    <3>1. ASSUME "reused" \notin netLost', NEW c \in DOMAIN conn, conn[c].client PROVE \E g \in Socks : sock'[g].conn = c
      <4>1. PICK g \in Socks : sock[g].conn = c
        BY <1>1, <1>2, <3>1 DEF SocketsAgree
      <4>2. g # h
        BY <1>2, <3>1, <4>1
      <4> QED
        BY <1>2, <4>1, <4>2
    <3> QED
      BY <1>2, <3>1
  <2>5. netMain'.at = "close" => netMain'.h \in Socks /\ sock'[netMain'.h].held
    BY <1>1, <1>2, <1>3 DEF SocketsAgree
  <2> QED
    BY <1>6, <2>1, <2>2, <2>3, <2>4, <2>5 DEF SocketsAgree
<1>11. ServerCloses'
  BY <1>1, <1>2, <1>3, <1>5 DEF ServerCloses
<1>12. ItemsAgree'
  <2>2. ASSUME NEW a \in NetPending PROVE ItemOk(a)'
    <3>1. conn'[a.conn].drops = conn[a.conn].drops
      BY <1>2, <1>8
    <3>2. a.kind = "accept" => conn'[a.conn].drops = 0 /\ \A g \in Socks' : sock'[g].conn # a.conn
      BY <1>2, <1>6, <1>8, <3>1 DEF ItemOk
    <3> QED
      BY <1>1, <1>2, <1>6, <1>8, <3>2, NetItemOkKept
  <2>3. \A a, b \in NetPending' : Before(a, b)' => PairOk(a, b)
    BY <1>1, <1>5 DEF ItemsAgree
  <2> QED
    BY <1>5, <2>2, <2>3 DEF ItemsAgree
<1>13. DropsExplained'
  <2>1. \A c \in DOMAIN conn' : (c \in DOMAIN conn /\ conn'[c].drops = conn[c].drops) \/ conn'[c].drops = 0
    BY <1>2
  <2> QED
    BY <1>1, <1>2, <2>1, NetDropsKept
<1>14. ASSUME Regular' PROVE ItemsRegular' /\ SocksRegular' /\ ConnsRegular' /\ DataRegular'
  <2>1. Regular
    BY <1>1, <1>2, <1>14, NetRegularBefore
  <2>2. ItemsRegular /\ SocksRegular /\ ConnsRegular /\ RegOrder /\ DataRegular
    BY <1>1, <2>1, NetConnsRegularIs DEF NetInvariant
  <2>3. \A d \in DOMAIN conn : conn[d].drops \in Nat /\ conn[d].ctx \in Contexts /\ conn[d].packets \in Nat
    BY <1>1, NetConnTyped DEF NetTypes
  <2>10. \A g \in Socks : Listed(g)' <=> Listed(g)
    BY <1>2, <1>3 DEF Listed
  <2>6. ItemsRegular'
    <3>1. ASSUME NEW a \in NetPending PROVE RegItem(a)'
      <4>1. RegItem(a) /\ a \in NetPending'
        BY <1>5, <2>2 DEF ItemsRegular
      <4>2. a.kind = "accept" /\ conn[a.conn].open => conn'[a.conn].open
        BY <1>2, <1>8
      <4>3. \A g \in Socks : sock[g].conn # 0 => sock'[g].conn = sock[g].conn
        BY <1>2
      <4> QED
        BY <1>1, <1>2, <1>3, <1>6, <1>7, <4>1, <4>2, <4>3, NetRegItemKept
    <3>3. ASSUME NEW a \in NetPending' , NEW b \in NetPending', Before(a, b)' PROVE RegPair(a, b)'
      BY <1>1, <1>2, <1>5, <2>2, <3>3, NetRegPairKept DEF ItemsRegular
    <3>4. server'.early # NoContext => \E a \in NetPending' : a.kind = "clear" /\ conn'[a.conn].ctx = server'.early
      BY <1>2, <1>3, <1>5, <1>8, <2>2 DEF ItemsRegular
    <3> QED
      BY <1>5, <3>1, <3>3, <3>4 DEF ItemsRegular
  <2>7. SocksRegular'
    <3>1. ASSUME NEW g \in Socks, sock'[g].conn # 0 PROVE RegSock(g)'
      <4>1. PICK d : d = sock[g].conn
        OBVIOUS
      <4>2. CASE g # h
        <5>1. d \in DOMAIN conn /\ RegSock(g) /\ sock'[g].conn = d
          BY <1>2, <1>4, <2>2, <3>1, <4>1, <4>2 DEF SocksRegular
        <5>2. conn'[d].open = conn[d].open /\ conn'[d].drops = conn[d].drops
          BY <1>2, <5>1
        <5> QED
          BY <1>2, <1>3, <1>7, <2>10, <4>1, <5>1, <5>2, NetRegSockKept
      <4>3. CASE g = h
        <5>1. Listed(g)' /\ sock'[g].client /\ sock'[g].conn = n
          BY <1>2, <1>3, <1>4, <4>3 DEF Listed
        <5>2. ~Waits("clear", n)'
          BY <1>4, <1>7 DEF Waits, HasItem
        <5> QED
          BY <1>2, <5>1, <5>2 DEF RegSock
      <4> QED
        BY <4>2, <4>3
    <3>2. RegMain'
      <4>1. CASE netMain.at # "close"
        BY <1>3, <4>1 DEF RegMain
      <4>2. CASE netMain.at = "close"
        <5>1. PICK g, d : g = netMain.h /\ d = sock[g].conn
          OBVIOUS
        <5>2. d # 0 /\ ~conn[d].open /\ ~HasItem(d) /\ Listed(g) /\ g \in Socks
          BY <1>1, <2>2, <4>2, <5>1 DEF RegMain, SocksRegular, SocketsAgree
        <5>3. d \in DOMAIN conn /\ g # h
          BY <1>2, <1>4, <5>1, <5>2
        <5>4. ~HasItem(d)' /\ ~conn'[d].open /\ Listed(g)' /\ sock'[g].conn = d
          BY <1>2, <1>7, <2>10, <5>1, <5>2, <5>3
        <5> QED
          BY <1>3, <5>1, <5>2, <5>4 DEF RegMain
      <4> QED
        BY <4>1, <4>2
    <3>3. \A g, h1 \in Socks' : InSeq(g, clients') /\ InSeq(h1, clients') /\ sock'[g].ctx = sock'[h1].ctx
                               /\ sock'[g].ctx # NoContext => g = h1
      BY <1>2, <1>3, <1>6, <2>2, NetClientsKept
    <3> QED
      BY <1>6, <3>1, <3>2, <3>3 DEF SocksRegular
  <2>8. ConnsRegular'
    <3>1. ASSUME NEW d \in DOMAIN conn, ~conn[d].client PROVE RegRefs(d)'
      <4>0. RegRefs(d) /\ conn'[d] = conn[d]
        BY <1>2, <2>2, <3>1 DEF ConnsRegular
      <4> QED
        BY <1>2, <1>3, <1>6, <4>0, NetRegRefsKept
    <3>3. ASSUME NEW d \in DOMAIN conn', NEW e \in DOMAIN conn', d < e, SameContext(d, e)'
          PROVE  ~conn'[d].open /\ conn'[d].drops = 1 /\ (HasItem(d)' => \A g \in Socks' : sock'[g].conn # e)
      <4>1. d # n /\ e # n
        BY <1>2, <3>3 DEF SameContext
      <4>2. d \in DOMAIN conn /\ conn'[d] = conn[d] /\ e \in DOMAIN conn /\ conn'[e] = conn[e]
        BY <1>2, <4>1
      <4>3. SameContext(d, e)
        BY <3>3, <4>2 DEF SameContext
      <4>4. /\ ~conn[d].open /\ conn[d].drops = 1
            /\ HasItem(d) => \A g \in Socks : sock[g].conn # e
        BY <2>2, <3>3, <4>2, <4>3 DEF RegOrder
      <4>5. \A g \in Socks : sock[g].conn # e => sock'[g].conn # e
        BY <1>2, <4>1
      <4> QED
        BY <1>6, <1>7, <4>2, <4>4, <4>5
    <3>4. (\A d \in DOMAIN conn : ~conn[d].client => RegRefs(d))'
      BY <1>2, <3>1
    <3> QED
      BY <3>3, <3>4 DEF ConnsRegular
  <2>9. DataRegular'
    <3>1. ASSUME NEW g \in Socks PROVE RegData(g)'
      <4>1. PICK d : d = sock[g].conn
        OBVIOUS
      <4>2. RegData(g) /\ (d # 0 => d \in DOMAIN conn)
        BY <1>4, <2>2, <4>1 DEF DataRegular
      <4>3. CASE g # h
        <5>1. Len(DataOf(sock[g])) \in Nat /\ (d # 0 => conn[d].packets \in Nat)
          BY <1>1, <2>3, <4>2, NetDataTyped DEF NetTypes, Socks
        <5>2. DataOf(sock'[g]) = DataOf(sock[g]) /\ sock'[g].conn = d /\ (d # 0 => conn'[d].packets = conn[d].packets)
          BY <1>2, <4>1, <4>2, <4>3
        <5>3. \A a \in NetPending' : a.kind = "data" /\ a.conn = d => a \in NetPending
          BY <1>5
        <5> QED
          BY <1>2, <1>7, <2>10, <4>1, <4>2, <5>1, <5>2, <5>3, NetRegDataKept
      <4>4. CASE g = h
        <5>1. DataOf(sock[h]) = <<>>
          BY <1>2, <4>2, <4>4 DEF RegData
        <5>2. DataOf(sock'[g]) = <<>> /\ sock'[g].conn = n
          BY <1>2, <4>4, <5>1
        <5>3. DOMAIN <<>> = {} /\ Len(<<>>) = 0
          OBVIOUS
        <5> QED
          BY <1>2, <5>2, <5>3 DEF RegData
      <4> QED
        BY <4>3, <4>4
    <3>2. "data" \notin netLost' =>
            \A a \in NetPending' : a.kind = "accept" => \A m \in 1 .. conn'[a.conn].packets : HasData(a.conn, m)'
      BY <1>2, <1>5, <1>7, <1>8, <2>2 DEF DataRegular
    <3> QED
      BY <1>6, <3>1, <3>2 DEF DataRegular
  <2> QED
    BY <2>6, <2>7, <2>8, <2>9
<1> QED
  BY <1>2, <1>10, <1>11, <1>12, <1>13, <1>14 DEF NetInv, NetInvariant

LEMMA NetSockMade ==
  ASSUME NetTypes, NEW s \in SockRecs, sock' = Append(sock, s), NEW n, n = Len(sock) + 1
  PROVE  /\ sock' \in Seq(SockRecs) /\ n \in Nat \ {0} /\ n \notin Socks /\ n \in Socks' /\ sock'[n] = s
         /\ \A g \in Socks : g \in Socks' /\ sock'[g] = sock[g]
         /\ \A g \in Socks' : g \in Socks \/ g = n
         /\ Socks \subseteq Socks'
         /\ \A list : list \in Seq(Socks) => list \in Seq(Socks') /\ ~InSeq(n, list)
<1>1. /\ sock' \in Seq(SockRecs) /\ Len(sock) \in Nat
      /\ DOMAIN sock = 1 .. Len(sock) /\ DOMAIN sock' = 1 .. Len(sock) + 1
      /\ (\A i \in 1 .. Len(sock) : sock'[i] = sock[i]) /\ sock'[Len(sock) + 1] = s
  BY NetGrows DEF NetTypes
<1>2. /\ n \in Nat \ {0} /\ n \notin Socks /\ n \in Socks' /\ sock'[n] = s
      /\ \A g \in Socks : g \in Socks' /\ sock'[g] = sock[g]
      /\ \A g \in Socks' : g \in Socks \/ g = n
  BY <1>1 DEF Socks
<1>3. ASSUME NEW list, list \in Seq(Socks) PROVE list \in Seq(Socks') /\ ~InSeq(n, list)
  <2>1. \A i \in DOMAIN list : list[i] \in Socks
    BY <1>3, LenProperties, ElementOfSeq
  <2> QED
    BY <1>2, <1>3, <2>1, SeqMonotonic DEF InSeq
<1> QED
  BY <1>1, <1>2, <1>3

LEMMA NetNewClientSocketIs ==
  ASSUME NetAssumption, NetInv, NewClientSocket, NEW n, n = Len(sock) + 1
  PROVE  /\ NetTypes' /\ n \in Nat \ {0} /\ n \notin Socks /\ n \in Socks'
         /\ \A g \in Socks : g \in Socks' /\ sock'[g] = sock[g]
         /\ \A g \in Socks' : g \in Socks \/ g = n
         /\ sock'[n].conn = 0 /\ sock'[n].ctx = NoContext /\ sock'[n].client /\ sock'[n].held
         /\ DataOf(sock'[n]) = <<>>
         /\ Distinct(clients) => Distinct(clients')
         /\ \A g \in Socks' : InSeq(g, clients') <=> (g \in Socks /\ InSeq(g, clients)) \/ g = n
         /\ ~InSeq(n, conns)
<1>1. NetTypes /\ SocketsAgree
  BY DEF NetInv, NetInvariant
<1>2. PICK s : s = NewSocket(0, NoContext, TRUE)
  OBVIOUS
<1>3. /\ s \in SockRecs /\ s.conn = 0 /\ s.ctx = NoContext /\ s.client /\ s.held /\ s.buf = <<>> /\ s.given = <<>>
  <2>1. <<>> \in Seq(PacketIds)
    BY EmptySeq
  <2> QED
    BY <1>2, <2>1 DEF NewSocket, SockRecs
<1>4. sock' = Append(sock, s) /\ clients' = <<n>> \o clients
  BY <1>2 DEF NewClientSocket
<1>5. /\ sock' \in Seq(SockRecs) /\ n \in Nat \ {0} /\ n \notin Socks /\ n \in Socks' /\ sock'[n] = s
      /\ \A g \in Socks : g \in Socks' /\ sock'[g] = sock[g]
      /\ \A g \in Socks' : g \in Socks \/ g = n
      /\ Socks \subseteq Socks'
      /\ \A list : list \in Seq(Socks) => list \in Seq(Socks') /\ ~InSeq(n, list)
  BY <1>1, <1>3, <1>4, NetSockMade
<1>6. clients \in Seq(Socks') /\ conns \in Seq(Socks') /\ ~InSeq(n, clients) /\ ~InSeq(n, conns)
  BY <1>1, <1>5 DEF NetTypes
<1>7. clients' \in Seq(Socks') /\ Distinct(clients') /\ \A g \in Socks' : InSeq(g, clients') <=> InSeq(g, clients) \/ g = n
  <2>1. PICK S, new : S = Socks' /\ new = clients'
    OBVIOUS
  <2>2. Distinct(clients) /\ clients \in Seq(S) /\ n \in S /\ new = <<n>> \o clients /\ ~InSeq(n, clients)
    BY <1>1, <1>4, <1>5, <1>6, <2>1 DEF SocketsAgree
  <2>3. new \in Seq(S) /\ Distinct(new) /\ \A g \in S : InSeq(g, new) <=> InSeq(g, clients) \/ g = n
    BY ONLY <2>2, NetPrepends
  <2> QED
    BY <2>1, <2>3
<1>8. NetTypes'
  BY <1>1, <1>5, <1>6, <1>7 DEF NewClientSocket, NetTypes
<1>9. DataOf(sock'[n]) = <<>>
  <2>1. <<>> \o <<>> = <<>>
    OBVIOUS
  <2> QED
    BY <1>3, <1>5, <2>1 DEF DataOf
<1> QED
  BY <1>3, <1>5, <1>6, <1>7, <1>8, <1>9

LEMMA NetNewClientSocket ==
  ASSUME NetAssumption, NetInv, NewClientSocket
  PROVE  NetInv'
<1>0. PICK n : n = Len(sock) + 1
  OBVIOUS
<1>1. NetTypes /\ NetInvariant /\ SocketsAgree /\ ServerCloses /\ ItemsAgree /\ DropsExplained
  BY DEF NetInv, NetInvariant
<1>2. /\ NetTypes' /\ n \in Nat \ {0} /\ n \notin Socks /\ n \in Socks'
      /\ \A g \in Socks : g \in Socks' /\ sock'[g] = sock[g]
      /\ \A g \in Socks' : g \in Socks \/ g = n
      /\ sock'[n].conn = 0 /\ sock'[n].ctx = NoContext /\ sock'[n].client /\ sock'[n].held
      /\ DataOf(sock'[n]) = <<>>
      /\ Distinct(clients) => Distinct(clients')
      /\ \A g \in Socks' : InSeq(g, clients') <=> (g \in Socks /\ InSeq(g, clients)) \/ g = n
      /\ ~InSeq(n, conns)
  BY <1>0, NetNewClientSocketIs
<1>3. UNCHANGED <<server, conns, conn, refs, netRing, netMain, netCount, netLost, netFault>>
  BY DEF NewClientSocket
<1>5. /\ NetPending' = NetPending /\ \A a, b \in NetPending' : Before(a, b)' => Before(a, b)
      /\ \A kind, d : Waits(kind, d)' <=> Waits(kind, d)
      /\ \A d : HasItem(d)' <=> HasItem(d)
      /\ \A d, m : HasData(d, m)' <=> HasData(d, m)
  BY <1>3, NetSameRing, NetRingKept
<1>7. ConnsGrow
  <2>1. \A d \in DOMAIN conn : conn[d].drops \in Nat /\ conn[d].packets \in Nat
    BY <1>1, NetConnTyped DEF NetTypes
  <2> QED
    BY <1>3, <2>1 DEF ConnsGrow
<1>8. \A a \in NetPending : ItemOk(a) /\ a.conn \in DOMAIN conn /\ a.conn # 0
  <2>1. \A a \in NetPending : ItemOk(a) /\ a.conn \in DOMAIN conn
    BY <1>1 DEF ItemsAgree, ItemOk
  <2> QED
    BY <1>1, <2>1, NetConnTyped DEF NetTypes
<1>10. SocketsAgree'
  <2>1. Distinct(conns)' /\ Distinct(clients)'
    BY <1>1, <1>2, <1>3 DEF SocketsAgree, Distinct
  <2>2. ASSUME NEW g \in Socks'
        PROVE  /\ InSeq(g, conns') <=> ~sock'[g].client /\ sock'[g].held
               /\ InSeq(g, clients') => sock'[g].client
               /\ sock'[g].client => sock'[g].held
               /\ sock'[g].conn # 0 => /\ sock'[g].conn \in DOMAIN conn'
                                       /\ conn'[sock'[g].conn].ctx = sock'[g].ctx
                                       /\ conn'[sock'[g].conn].client = sock'[g].client
               /\ ~sock'[g].client => sock'[g].conn # 0
    <3>1. CASE g = n
      BY <1>2, <1>3, <3>1
    <3>2. CASE g # n
      <4>1. g \in Socks /\ sock'[g] = sock[g] /\ (InSeq(g, clients') => InSeq(g, clients))
        BY <1>2, <3>2
      <4> QED
        BY <1>1, <1>3, <4>1 DEF SocketsAgree
    <3> QED
      BY <3>1, <3>2
  <2>3. \A g, f \in Socks' : sock'[g].conn = sock'[f].conn /\ sock'[g].conn # 0 => g = f
    BY <1>1, <1>2 DEF SocketsAgree
  <2>4. ASSUME "reused" \notin netLost', NEW c \in DOMAIN conn', conn'[c].client
        PROVE  \E g \in Socks' : sock'[g].conn = c
    <3>1. PICK g \in Socks : sock[g].conn = c
      BY <1>1, <1>3, <2>4 DEF SocketsAgree
    <3>2. g \in Socks' /\ sock'[g].conn = c
      BY <1>2, <3>1
    <3> QED
      BY <3>2
  <2>5. netMain'.at = "close" => netMain'.h \in Socks' /\ sock'[netMain'.h].held
    BY <1>1, <1>2, <1>3 DEF SocketsAgree
  <2> QED
    BY <2>1, <2>2, <2>3, <2>4, <2>5 DEF SocketsAgree
<1>11. ServerCloses'
  BY <1>1, <1>3, <1>5 DEF ServerCloses
<1>12. ItemsAgree'
  <2>2. ASSUME NEW a \in NetPending PROVE ItemOk(a)'
    <3>2. a.kind = "accept" => conn'[a.conn].drops = 0 /\ \A g \in Socks' : sock'[g].conn # a.conn
      BY <1>2, <1>3, <1>8 DEF ItemOk
    <3>3. Socks \subseteq Socks'
      BY <1>2
    <3> QED
      BY <1>1, <1>2, <1>7, <1>8, <3>2, <3>3, NetItemOkKept
  <2>3. \A a, b \in NetPending' : Before(a, b)' => PairOk(a, b)
    BY <1>1, <1>5 DEF ItemsAgree
  <2> QED
    BY <1>5, <2>2, <2>3 DEF ItemsAgree
<1>13. DropsExplained'
  BY <1>1, <1>3 DEF DropsExplained, NoCloseLost, DroppedOnce
<1>14. ASSUME Regular' PROVE ItemsRegular' /\ SocksRegular' /\ ConnsRegular' /\ DataRegular'
  <2>1. Regular
    BY <1>3, <1>14 DEF Regular, NoCloseLost, DroppedOnce
  <2>2. ItemsRegular /\ SocksRegular /\ ConnsRegular /\ RegOrder /\ DataRegular
    BY <1>1, <2>1, NetConnsRegularIs DEF NetInvariant
  <2>3. \A d \in DOMAIN conn : conn[d].drops \in Nat /\ conn[d].ctx \in Contexts /\ conn[d].ctx # NoContext /\ conn[d].packets \in Nat /\ d # 0
    BY <1>1, NetConnsTyped
  <2>10. \A g \in Socks : Listed(g)' <=> Listed(g)
    BY <1>2, <1>3 DEF Listed
  <2>6. ItemsRegular'
    <3>1. ASSUME NEW a \in NetPending PROVE RegItem(a)'
      <4>1. RegItem(a) /\ a \in NetPending'
        BY <1>5, <2>2 DEF ItemsRegular
      <4>3. Socks \subseteq Socks' /\ \A g \in Socks : sock[g].conn # 0 => sock'[g].conn = sock[g].conn
        BY <1>2
      <4> QED
        BY <1>1, <1>3, <1>5, <1>7, <4>1, <4>3, NetRegItemKept
    <3>3. ASSUME NEW a \in NetPending' , NEW b \in NetPending', Before(a, b)' PROVE RegPair(a, b)'
      BY <1>1, <1>5, <1>7, <2>2, <3>3, NetRegPairKept DEF ItemsRegular
    <3>4. server'.early # NoContext => \E a \in NetPending' : a.kind = "clear" /\ conn'[a.conn].ctx = server'.early
      BY <1>3, <1>5, <2>2 DEF ItemsRegular
    <3> QED
      BY <1>5, <3>1, <3>3, <3>4 DEF ItemsRegular
  <2>7. SocksRegular'
    <3>1. ASSUME NEW g \in Socks', sock'[g].conn # 0 PROVE RegSock(g)'
      <4>1. PICK d : d = sock[g].conn
        OBVIOUS
      <4>2. g \in Socks /\ sock'[g] = sock[g]
        BY <1>2, <3>1
      <4>3. RegSock(g) /\ sock'[g].conn = d
        BY <2>2, <3>1, <4>1, <4>2 DEF SocksRegular
      <4> QED
        BY <1>3, <1>5, <2>10, <4>1, <4>2, <4>3, NetRegSockKept
    <3>2. RegMain'
      <4>1. CASE netMain.at # "close"
        BY <1>3, <4>1 DEF RegMain
      <4>2. CASE netMain.at = "close"
        <5>1. PICK g, d : g = netMain.h /\ d = sock[g].conn
          OBVIOUS
        <5>2. d # 0 /\ ~conn[d].open /\ ~HasItem(d) /\ Listed(g) /\ g \in Socks
          BY <1>1, <2>2, <4>2, <5>1 DEF RegMain, SocksRegular, SocketsAgree
        <5>4. ~HasItem(d)' /\ ~conn'[d].open /\ Listed(g)' /\ sock'[g].conn = d
          BY <1>2, <1>3, <1>5, <2>10, <5>1, <5>2
        <5> QED
          BY <1>3, <5>1, <5>2, <5>4 DEF RegMain
      <4> QED
        BY <4>1, <4>2
    <3>3. \A g, h1 \in Socks' : InSeq(g, clients') /\ InSeq(h1, clients') /\ sock'[g].ctx = sock'[h1].ctx
                               /\ sock'[g].ctx # NoContext => g = h1
      BY <1>2, <2>2, NetClientsKept
    <3> QED
      BY <3>1, <3>2, <3>3 DEF SocksRegular
  <2>8. ConnsRegular'
    <3>1. ASSUME NEW d \in DOMAIN conn, ~conn[d].client PROVE RegRefs(d)'
      <4>0. RegRefs(d) /\ conn'[d] = conn[d]
        BY <1>3, <2>2, <3>1 DEF ConnsRegular
      <4>1. \A g \in Socks' : InSeq(g, clients') /\ sock'[g].ctx = conn[d].ctx =>
               g \in Socks /\ InSeq(g, clients) /\ sock[g].ctx = conn[d].ctx
        BY <1>2, <2>3
      <4> QED
        BY <1>3, <4>0, <4>1, NetRegRefsKept
    <3>3. ASSUME NEW d \in DOMAIN conn, NEW e \in DOMAIN conn, d < e, SameContext(d, e)'
          PROVE  ~conn'[d].open /\ conn'[d].drops = 1 /\ (HasItem(d)' => \A g \in Socks' : sock'[g].conn # e)
      <4>1. SameContext(d, e) /\ e # 0
        BY <1>3, <2>3, <3>3 DEF SameContext
      <4>2. /\ ~conn[d].open /\ conn[d].drops = 1
            /\ HasItem(d) => \A g \in Socks : sock[g].conn # e
        BY <2>2, <3>3, <4>1 DEF RegOrder
      <4> QED
        BY <1>2, <1>3, <1>5, <4>1, <4>2
    <3>4. (\A d \in DOMAIN conn : ~conn[d].client => RegRefs(d))'
      BY <1>3, <3>1
    <3> QED
      BY <1>3, <3>3, <3>4 DEF ConnsRegular
  <2>9. DataRegular'
    <3>1. ASSUME NEW g \in Socks' PROVE RegData(g)'
      <4>3. CASE g # n
        <5>0. g \in Socks /\ sock'[g] = sock[g]
          BY <1>2, <4>3
        <5>1. PICK d : d = sock[g].conn
          OBVIOUS
        <5>2. RegData(g) /\ (d = 0 \/ d \in DOMAIN conn)
          BY <1>1, <2>2, <5>0, <5>1 DEF SocketsAgree, DataRegular
        <5>3. Len(DataOf(sock[g])) \in Nat /\ (d # 0 => conn[d].packets \in Nat)
          BY <1>1, <2>3, <5>0, <5>2, NetDataTyped DEF NetTypes, Socks
        <5> QED
          BY <1>3, <1>5, <2>10, <5>0, <5>1, <5>2, <5>3, NetRegDataKept
      <4>4. CASE g = n
        <5>3. DOMAIN <<>> = {} /\ Len(<<>>) = 0
          OBVIOUS
        <5> QED
          BY <1>2, <4>4, <5>3 DEF RegData
      <4> QED
        BY <4>3, <4>4
    <3>2. "data" \notin netLost' =>
            \A a \in NetPending' : a.kind = "accept" => \A m \in 1 .. conn'[a.conn].packets : HasData(a.conn, m)'
      BY <1>3, <1>5, <2>2 DEF DataRegular
    <3> QED
      BY <3>1, <3>2 DEF DataRegular
  <2> QED
    BY <2>6, <2>7, <2>8, <2>9
<1> QED
  BY <1>2, <1>10, <1>11, <1>12, <1>13, <1>14 DEF NetInv, NetInvariant

\* A client's socket is given a context.
LEMMA NetSocketConnectIs ==
  ASSUME NetAssumption, NetInv, NEW h \in Socks, NEW context \in Contexts, SocketConnect(h, context)
  PROVE  /\ NetTypes' /\ context # NoContext /\ refs[context] = 0
         /\ sock[h].client /\ sock[h].ctx = NoContext /\ sock[h].conn = 0
         /\ DOMAIN sock' = DOMAIN sock
         /\ sock'[h].ctx = context /\ \A g \in Socks : g # h => sock'[g].ctx = sock[g].ctx
         /\ \A g \in Socks : /\ sock'[g].conn = sock[g].conn /\ sock'[g].client = sock[g].client
                             /\ sock'[g].held = sock[g].held /\ sock'[g].closed = sock[g].closed
                             /\ DataOf(sock'[g]) = DataOf(sock[g])
         /\ \A x \in Contexts : x # context => refs'[x] = refs[x]
         /\ "reused" \notin netLost' => \A g \in Socks : InSeq(g, clients) => sock[g].ctx # context
         /\ netLost \subseteq netLost'
<1>1. NetTypes /\ SocketsAgree
  BY DEF NetInv, NetInvariant
<1>2. sock[h] \in SockRecs /\ sock[h].conn \in Nat
  BY <1>1, NetSockTyped DEF NetTypes, Socks
<1>3. PICK s : s = [sock[h] EXCEPT !.ctx = context]
  OBVIOUS
<1>4. /\ s \in SockRecs /\ s.conn = sock[h].conn /\ s.ctx = context /\ s.client = sock[h].client
      /\ s.closed = sock[h].closed /\ s.held = sock[h].held /\ s.buf = sock[h].buf /\ s.given = sock[h].given
  BY ONLY <1>2, <1>3, context \in Contexts, NetSockContext
<1>5. sock' = [sock EXCEPT ![h] = s]
  BY <1>3 DEF SocketConnect
<1>6. /\ sock' \in Seq(SockRecs) /\ DOMAIN sock' = DOMAIN sock /\ sock'[h] = s
      /\ \A g \in Socks : g # h => sock'[g] = sock[g]
  BY <1>1, <1>4, <1>5, NetSockIs DEF NetTypes
<1>7. refs' \in [Contexts -> Nat] /\ \A x \in Contexts : x # context => refs'[x] = refs[x]
  BY <1>1 DEF SocketConnect, NetTypes
<1>8. NetTypes'
  BY <1>1, <1>6, <1>7 DEF SocketConnect, NetTypes, Socks
<1>9. sock[h].conn = 0
  <2>1. SUFFICES ASSUME sock[h].conn # 0 PROVE FALSE
    OBVIOUS
  <2>2. PICK c \in DOMAIN conn : conn[c].ctx = sock[h].ctx
    BY <1>1, <2>1 DEF SocketsAgree
  <2>3. conn[c].ctx \in Contexts
    BY <1>1, <2>2, NetConnTyped DEF NetTypes
  <2> QED
    BY <2>2, <2>3 DEF SocketConnect, NetAssumption
<1>10. \A g \in Socks : /\ sock'[g].conn = sock[g].conn /\ sock'[g].client = sock[g].client
                        /\ sock'[g].held = sock[g].held /\ sock'[g].closed = sock[g].closed
                        /\ DataOf(sock'[g]) = DataOf(sock[g])
  BY <1>4, <1>6 DEF DataOf
<1>11. "reused" \notin netLost' => \A g \in Socks : InSeq(g, clients) => sock[g].ctx # context
  BY DEF SocketConnect, Reuses, InSeq
<1>12. netLost \subseteq netLost' /\ refs[context] = 0 /\ sock[h].client /\ sock[h].ctx = NoContext
  BY DEF SocketConnect
<1>13. context # NoContext
  BY DEF NetAssumption
<1> QED
  BY <1>4, <1>6, <1>7, <1>8, <1>9, <1>10, <1>11, <1>12, <1>13

LEMMA NetSocketConnect ==
  ASSUME NetAssumption, NetInv, NEW h \in Socks, NEW context \in Contexts, SocketConnect(h, context)
  PROVE  NetInv'
<1>1. NetTypes /\ NetInvariant /\ SocketsAgree /\ ServerCloses /\ ItemsAgree /\ DropsExplained
  BY DEF NetInv, NetInvariant
<1>2. /\ NetTypes' /\ context # NoContext /\ refs[context] = 0
      /\ sock[h].client /\ sock[h].ctx = NoContext /\ sock[h].conn = 0
      /\ DOMAIN sock' = DOMAIN sock
      /\ sock'[h].ctx = context /\ \A g \in Socks : g # h => sock'[g].ctx = sock[g].ctx
      /\ \A g \in Socks : /\ sock'[g].conn = sock[g].conn /\ sock'[g].client = sock[g].client
                          /\ sock'[g].held = sock[g].held /\ sock'[g].closed = sock[g].closed
                          /\ DataOf(sock'[g]) = DataOf(sock[g])
      /\ \A x \in Contexts : x # context => refs'[x] = refs[x]
      /\ "reused" \notin netLost' => \A g \in Socks : InSeq(g, clients) => sock[g].ctx # context
      /\ netLost \subseteq netLost'
  BY NetSocketConnectIs
<1>3. UNCHANGED <<server, conns, clients, conn, netRing, netMain>>
  BY DEF SocketConnect
<1>4. Socks' = Socks
  BY <1>2 DEF Socks
<1>5. /\ NetPending' = NetPending /\ \A a, b \in NetPending' : Before(a, b)' => Before(a, b)
      /\ \A kind, d : Waits(kind, d)' <=> Waits(kind, d)
      /\ \A d : HasItem(d)' <=> HasItem(d)
      /\ \A d, m : HasData(d, m)' <=> HasData(d, m)
  BY <1>3, NetSameRing, NetRingKept
<1>6. \A d \in DOMAIN conn : conn[d].drops \in Nat /\ conn[d].packets \in Nat /\ d # 0 /\ conn[d].ctx \in Contexts
  BY <1>1, NetConnTyped DEF NetTypes
<1>7. ConnsGrow
  BY <1>3, <1>6 DEF ConnsGrow
<1>8. \A a \in NetPending : ItemOk(a) /\ a.conn \in DOMAIN conn /\ a.conn # 0
  <2>1. \A a \in NetPending : ItemOk(a) /\ a.conn \in DOMAIN conn
    BY <1>1 DEF ItemsAgree, ItemOk
  <2> QED
    BY <1>6, <2>1
<1>10. SocketsAgree'
  <2>1. Distinct(conns)' /\ Distinct(clients)'
    BY <1>1, <1>3 DEF SocketsAgree, Distinct
  <2>2. ASSUME NEW g \in Socks'
        PROVE  /\ InSeq(g, conns') <=> ~sock'[g].client /\ sock'[g].held
               /\ InSeq(g, clients') => sock'[g].client
               /\ sock'[g].client => sock'[g].held
               /\ sock'[g].conn # 0 => /\ sock'[g].conn \in DOMAIN conn'
                                       /\ conn'[sock'[g].conn].ctx = sock'[g].ctx
                                       /\ conn'[sock'[g].conn].client = sock'[g].client
               /\ ~sock'[g].client => sock'[g].conn # 0
    BY <1>1, <1>2, <1>3, <1>4 DEF SocketsAgree
  <2>3. \A g, f \in Socks' : sock'[g].conn = sock'[f].conn /\ sock'[g].conn # 0 => g = f
    BY <1>1, <1>2, <1>4 DEF SocketsAgree
  <2>4. "reused" \notin netLost' => \A c \in DOMAIN conn' : conn'[c].client => \E g \in Socks' : sock'[g].conn = c
    BY <1>1, <1>2, <1>3, <1>4 DEF SocketsAgree
  <2>5. netMain'.at = "close" => netMain'.h \in Socks' /\ sock'[netMain'.h].held
    BY <1>1, <1>2, <1>3, <1>4 DEF SocketsAgree
  <2> QED
    BY <2>1, <2>2, <2>3, <2>4, <2>5 DEF SocketsAgree
<1>11. ServerCloses'
  BY <1>1, <1>2, <1>3, <1>5, NetClosesKept
<1>12. ItemsAgree'
  <2>2. ASSUME NEW a \in NetPending PROVE ItemOk(a)'
    <3>2. a.kind = "accept" => conn'[a.conn].drops = 0 /\ \A g \in Socks' : sock'[g].conn # a.conn
      BY <1>2, <1>3, <1>4, <1>8 DEF ItemOk
    <3> QED
      BY <1>1, <1>2, <1>4, <1>7, <1>8, <3>2, NetItemOkKept
  <2>3. \A a, b \in NetPending' : Before(a, b)' => PairOk(a, b)
    BY <1>1, <1>5 DEF ItemsAgree
  <2> QED
    BY <1>5, <2>2, <2>3 DEF ItemsAgree
<1>13. DropsExplained'
  BY <1>1, <1>2, <1>3, <1>7, NetDropsKept
<1>14. ASSUME Regular' PROVE ItemsRegular' /\ SocksRegular' /\ ConnsRegular' /\ DataRegular'
  <2>1. Regular
    BY <1>1, <1>2, <1>7, <1>14, NetRegularBefore DEF Regular, NoCloseLost
  <2>0. "reused" \notin netLost'
    BY <1>14 DEF Regular, NoCloseLost
  <2>2. ItemsRegular /\ SocksRegular /\ ConnsRegular /\ RegOrder /\ DataRegular
    BY <1>1, <2>1, NetConnsRegularIs DEF NetInvariant
  <2>3. \A d \in DOMAIN conn : conn[d].drops \in Nat /\ conn[d].drops <= 1
    BY <1>6, <2>1 DEF Regular, DroppedOnce
  <2>4. ASSUME NEW d \in DOMAIN conn, ~conn[d].client, conn[d].ctx = context
        PROVE  ~conn[d].open /\ conn[d].drops = 1
    <3>1. conn[d].open \/ conn[d].drops = 0 => refs[context] = (IF conn[d].open THEN 1 ELSE 0) + (1 - conn[d].drops)
      BY <2>2, <2>4 DEF ConnsRegular, RegRefs
    <3>2. conn[d].drops = 0 \/ conn[d].drops = 1
      BY <2>3
    <3> QED
      BY <1>2, <3>1, <3>2
  <2>10. \A g \in Socks : Listed(g)' <=> Listed(g)
    BY <1>2, <1>3 DEF Listed
  <2>6. ItemsRegular'
    <3>1. ASSUME NEW a \in NetPending PROVE RegItem(a)'
      <4>1. RegItem(a) /\ a \in NetPending'
        BY <1>5, <2>2 DEF ItemsRegular
      <4> QED
        BY <1>1, <1>2, <1>3, <1>4, <1>5, <1>7, <4>1, NetRegItemKept
    <3>3. ASSUME NEW a \in NetPending' , NEW b \in NetPending', Before(a, b)' PROVE RegPair(a, b)'
      BY <1>1, <1>5, <1>7, <2>2, <3>3, NetRegPairKept DEF ItemsRegular
    <3>4. server'.early # NoContext => \E a \in NetPending' : a.kind = "clear" /\ conn'[a.conn].ctx = server'.early
      BY <1>3, <1>5, <2>2 DEF ItemsRegular
    <3> QED
      BY <1>5, <3>1, <3>3, <3>4 DEF ItemsRegular
  <2>7. SocksRegular'
    <3>1. ASSUME NEW g \in Socks, sock[g].conn # 0 PROVE RegSock(g)'
      <4>1. PICK d : d = sock[g].conn
        OBVIOUS
      <4>2. RegSock(g)
        BY <2>2, <3>1 DEF SocksRegular
      <4>3. sock'[g].conn = d /\ sock'[g].client = sock[g].client /\ sock'[g].closed = sock[g].closed
        BY <1>2, <4>1
      <4> QED
        BY <1>3, <1>5, <2>10, <4>1, <4>2, <4>3, NetRegSockKept
    <3>2. RegMain'
      <4>1. CASE netMain.at # "close"
        BY <1>3, <4>1 DEF RegMain
      <4>2. CASE netMain.at = "close"
        <5>1. PICK g, d : g = netMain.h /\ d = sock[g].conn
          OBVIOUS
        <5>2. d # 0 /\ ~conn[d].open /\ ~HasItem(d) /\ Listed(g) /\ g \in Socks
          BY <1>1, <2>2, <4>2, <5>1 DEF RegMain, SocksRegular, SocketsAgree
        <5>4. ~HasItem(d)' /\ ~conn'[d].open /\ Listed(g)' /\ sock'[g].conn = d
          BY <1>2, <1>3, <1>5, <2>10, <5>1, <5>2
        <5> QED
          BY <1>3, <5>1, <5>2, <5>4 DEF RegMain
      <4> QED
        BY <4>1, <4>2
    <3>3. ASSUME NEW g \in Socks', NEW f \in Socks', InSeq(g, clients'), InSeq(f, clients'),
                 sock'[g].ctx = sock'[f].ctx, sock'[g].ctx # NoContext
          PROVE  g = f
      <4>1. CASE g # h /\ f # h
        BY <1>2, <1>3, <1>4, <2>2, <3>3, <4>1 DEF SocksRegular
      <4>2. CASE g = h \/ f = h
        BY <1>2, <1>3, <1>4, <2>0, <3>3, <4>2
      <4> QED
        BY <4>1, <4>2
    <3> QED
      BY <1>2, <1>4, <3>1, <3>2, <3>3 DEF SocksRegular
  <2>8. ConnsRegular'
    <3>1. ASSUME NEW d \in DOMAIN conn, ~conn[d].client PROVE RegRefs(d)'
      <4>0. RegRefs(d) /\ conn'[d] = conn[d]
        BY <1>3, <2>2, <3>1 DEF ConnsRegular
      <4>1. CASE conn[d].ctx # context
        <5>1. refs'[conn[d].ctx] = refs[conn[d].ctx]
          BY <1>2, <1>6, <4>1
        <5>2. \A g \in Socks' : InSeq(g, clients') /\ sock'[g].ctx = conn[d].ctx =>
                 g \in Socks /\ InSeq(g, clients) /\ sock[g].ctx = conn[d].ctx
          BY <1>2, <1>3, <1>4, <4>1
        <5> QED
          BY <4>0, <5>1, <5>2, NetRegRefsKept
      <4>2. CASE conn[d].ctx = context
        <5>1. ~(conn'[d].open \/ conn'[d].drops = 0)
          BY <2>4, <3>1, <4>0, <4>2
        <5> QED
          BY <5>1 DEF RegRefs
      <4> QED
        BY <4>1, <4>2
    <3>2. RegOrder'
      BY <1>2, <1>3, <1>4, <1>5, <1>7, <2>2, NetOrderKept
    <3>4. (\A d \in DOMAIN conn : ~conn[d].client => RegRefs(d))'
      BY <1>3, <3>1
    <3> QED
      BY <3>2, <3>4 DEF ConnsRegular, RegOrder
  <2>9. DataRegular'
    <3>1. ASSUME NEW g \in Socks PROVE RegData(g)'
      <4>1. PICK d : d = sock[g].conn
        OBVIOUS
      <4>2. RegData(g) /\ (d = 0 \/ d \in DOMAIN conn)
        BY <1>1, <2>2, <4>1 DEF SocketsAgree, DataRegular
      <4>4. Len(DataOf(sock[g])) \in Nat /\ (d # 0 => conn[d].packets \in Nat)
        BY <1>1, <1>6, <4>2, NetDataTyped DEF NetTypes, Socks
      <4>6. DataOf(sock'[g]) = DataOf(sock[g]) /\ sock'[g].conn = d
        BY <1>2, <4>1
      <4> QED
        BY <1>2, <1>3, <1>5, <2>10, <4>1, <4>2, <4>4, <4>6, NetRegDataKept
    <3>2. "data" \notin netLost' =>
            \A a \in NetPending' : a.kind = "accept" => \A m \in 1 .. conn'[a.conn].packets : HasData(a.conn, m)'
      BY <1>2, <1>3, <1>5, <2>2 DEF DataRegular
    <3> QED
      BY <1>4, <3>1, <3>2 DEF DataRegular
  <2> QED
    BY <2>6, <2>7, <2>8, <2>9
<1> QED
  BY <1>2, <1>10, <1>11, <1>12, <1>13, <1>14 DEF NetInv, NetInvariant

-----------------------------------------------------------------------------
(***************************************************************************)
(* The server is closed.                                                   *)
(***************************************************************************)
LEMMA NetServerClose ==
  ASSUME NetInv, ServerClose
  PROVE  NetInv'
<1>1. NetTypes /\ NetInvariant /\ ServerCloses
  BY DEF NetInv, NetInvariant
<1>2. UNCHANGED <<conns, clients, sock, conn, refs, netRing, netMain>>
  BY DEF ServerClose
<1>3. PICK closes : closes = IF conns = <<>> THEN server.closes + 1 ELSE server.closes
  OBVIOUS
<1>4. server' = [server EXCEPT !.listening = FALSE, !.closed = TRUE, !.closes = closes]
  BY <1>1, <1>3 DEF ServerClose, NetTypes
<1>5. server.closes \in Nat
  BY <1>1 DEF NetTypes
<1>6. closes \in Nat
  BY <1>3, <1>5
<1>7. /\ server' \in [listening : BOOLEAN, closed : BOOLEAN, early : Contexts \cup {NoContext}, closes : Nat,
                      collected : BOOLEAN]
      /\ server'.early = server.early /\ server'.closed /\ server'.closes = closes
  BY <1>1, <1>4, <1>6 DEF NetTypes
<1>8. NetTypes'
  BY <1>1, <1>2, <1>7 DEF NetTypes, Socks
<1>9. SameRing /\ SameSocks
  BY <1>2, NetSameRing, NetSameSocks
<1>10. \A kind \in {"data", "close", "clear", "reused"} : kind \in netLost' <=> kind \in netLost
  BY DEF ServerClose
<1>11. Quiet
  BY <1>2, <1>7, <1>9, <1>10 DEF Quiet
<1>12. ServerCloses'
  <2>1. SUFFICES ASSUME "amiss" \notin netLost'
                 PROVE  (\A a \in NetPending' : a.kind # "accept") /\ closes = IF conns = <<>> THEN 1 ELSE 0
    BY <1>2, <1>7 DEF ServerCloses
  <2>2. ~server.closed /\ (\A i \in DOMAIN netRing : netRing[i].kind # "accept") /\ "amiss" \notin netLost
    BY <2>1 DEF ServerClose
  <2>3. server.closes = 0
    BY <1>1, <2>2 DEF ServerCloses
  <2>4. \A a \in NetPending' : a.kind # "accept"
    BY <1>9, <2>2 DEF SameRing, NetPending
  <2> QED
    BY <1>3, <2>3, <2>4
<1> QED
  BY <1>1, <1>8, <1>11, <1>12, NetQuiet DEF NetInv

-----------------------------------------------------------------------------
(***************************************************************************)
(* The "close" event of a socket is emitted.                               *)
(***************************************************************************)
\* One socket changes.
LEMMA NetSockGoesOn ==
  ASSUME NetTypes, NEW h \in Socks, NEW s \in SockRecs, sock' = [sock EXCEPT ![h] = s], s.conn = sock[h].conn,
         s.ctx = sock[h].ctx, s.client = sock[h].client, s.held = sock[h].held,
         UNCHANGED <<conns, clients>>
  PROVE  /\ sock' \in Seq(SockRecs) /\ SameSockets /\ Socks' = Socks /\ sock'[h] = s
         /\ \A g \in Socks : g # h => sock'[g] = sock[g]
         /\ \A g \in Socks : Listed(g)' <=> Listed(g)
         /\ \A g \in Socks : sock'[g].conn = sock[g].conn /\ sock'[g].ctx = sock[g].ctx
                             /\ sock'[g].client = sock[g].client
<1>1. /\ sock' \in Seq(SockRecs) /\ DOMAIN sock' = DOMAIN sock /\ sock'[h] = s
      /\ \A g \in Socks : g # h => sock'[g] = sock[g]
  BY NetSockIs DEF NetTypes
<1>2. \A g \in Socks : sock'[g].conn = sock[g].conn /\ sock'[g].ctx = sock[g].ctx
                             /\ sock'[g].client = sock[g].client /\ sock'[g].held = sock[g].held
  BY <1>1
<1>3. SameSockets /\ Socks' = Socks
  BY <1>1, <1>2 DEF SameSockets, Socks
<1>4. \A g \in Socks : Listed(g)' <=> Listed(g)
  BY <1>2 DEF Listed
<1> QED
  BY <1>1, <1>2, <1>3, <1>4

LEMMA NetSameConns ==
  ASSUME NetTypes, UNCHANGED conn
  PROVE  /\ ConnsGrow /\ DOMAIN conn' = DOMAIN conn
         /\ \A d \in DOMAIN conn : conn[d].drops \in Nat /\ conn[d].packets \in Nat /\ d \in Nat /\ d # 0
                                   /\ conn[d].ctx \in Contexts
<1>1. \A d \in DOMAIN conn : conn[d].drops \in Nat /\ conn[d].packets \in Nat /\ d \in Nat /\ d # 0 /\ conn[d].ctx \in Contexts
  BY NetConnTyped DEF NetTypes
<1> QED
  BY <1>1 DEF ConnsGrow

LEMMA NetEmitCloseIs ==
  ASSUME NetAssumption, NetInv, EmitClose, NEW first, first = Head(netRing), NEW h, h = first.h
  PROVE  /\ NetTypes' /\ TakenOnly(first) /\ first.kind = "close" /\ first \in NetPending /\ netMain = NetIdle
         /\ h \in Socks /\ h # 0 /\ sock[h].held /\ SameSockets /\ Socks' = Socks
         /\ \A g \in Socks : Listed(g)' <=> Listed(g)
         /\ \A g \in Socks : sock'[g].conn = sock[g].conn /\ sock'[g].ctx = sock[g].ctx
                             /\ sock'[g].client = sock[g].client
         /\ \A g \in Socks : sock'[g].closed = sock[g].closed /\ DataOf(sock'[g]) = DataOf(sock[g])
         /\ netMain' = [at |-> "close", h |-> h]
<1>1. NetTypes /\ ItemsAgree
  BY DEF NetInv, NetInvariant
<1>2. netRing' \in Seq(NetItems) /\ first \in NetItems /\ first.kind = "close" /\ TakenOnly(first)
      /\ first \in NetPending /\ netMain = NetIdle
  BY <1>1, NetTakesOut DEF EmitClose
<1>3. h \in Socks /\ h # 0
  BY <1>1, <1>2 DEF ItemsAgree, ItemOk
<1>4. PICK s : s = [sock[h] EXCEPT !.closes = sock[h].closes + 1]
  OBVIOUS
<1>5. sock[h] \in SockRecs /\ sock[h].closes + 1 \in Nat /\ h \in Nat
  <2>1. sock[h] \in SockRecs /\ sock[h].closes \in Nat /\ h \in Nat
    BY <1>1, <1>3, NetSockTyped DEF NetTypes, Socks
  <2> QED
    BY <2>1
<1>6. /\ s \in SockRecs /\ s.conn = sock[h].conn /\ s.ctx = sock[h].ctx /\ s.client = sock[h].client
      /\ s.closed = sock[h].closed /\ s.held = sock[h].held /\ s.buf = sock[h].buf /\ s.given = sock[h].given
  BY ONLY <1>4, <1>5, NetSockCloses
<1>7. sock' = [sock EXCEPT ![h] = s] /\ UNCHANGED <<conns, clients>> /\ sock[h].held
      /\ netMain' = [at |-> "close", h |-> h]
  BY <1>4 DEF EmitClose
<1>8. /\ sock' \in Seq(SockRecs) /\ SameSockets /\ Socks' = Socks /\ sock'[h] = s
      /\ \A g \in Socks : g # h => sock'[g] = sock[g]
      /\ \A g \in Socks : Listed(g)' <=> Listed(g)
      /\ \A g \in Socks : sock'[g].conn = sock[g].conn /\ sock'[g].ctx = sock[g].ctx
                             /\ sock'[g].client = sock[g].client
  BY <1>1, <1>3, <1>6, <1>7, NetSockGoesOn
<1>9. \A g \in Socks : sock'[g].closed = sock[g].closed /\ DataOf(sock'[g]) = DataOf(sock[g])
  BY <1>6, <1>8 DEF DataOf
<1>10. NetTypes'
  BY <1>1, <1>2, <1>5, <1>7, <1>8 DEF EmitClose, NetTypes
<1> QED
  BY <1>2, <1>3, <1>7, <1>8, <1>9, <1>10

LEMMA NetEmitClose ==
  ASSUME NetAssumption, NetInv, EmitClose
  PROVE  NetInv'
<1>0. PICK first, h, c : first = Head(netRing) /\ h = first.h /\ c = first.conn
  OBVIOUS
<1>1. NetTypes /\ NetInvariant /\ SocketsAgree /\ ServerCloses /\ ItemsAgree /\ DropsExplained
  BY DEF NetInv, NetInvariant
<1>2. /\ NetTypes' /\ TakenOnly(first) /\ first.kind = "close" /\ first \in NetPending /\ netMain = NetIdle
      /\ h \in Socks /\ h # 0 /\ sock[h].held /\ SameSockets /\ Socks' = Socks
      /\ \A g \in Socks : Listed(g)' <=> Listed(g)
      /\ \A g \in Socks : sock'[g].conn = sock[g].conn /\ sock'[g].ctx = sock[g].ctx
                          /\ sock'[g].client = sock[g].client
      /\ \A g \in Socks : sock'[g].closed = sock[g].closed /\ DataOf(sock'[g]) = DataOf(sock[g])
      /\ netMain' = [at |-> "close", h |-> h]
  BY <1>0, NetEmitCloseIs
<1>3. UNCHANGED <<server, conns, clients, conn, refs, netLost>>
  BY DEF EmitClose
<1>4. /\ ConnsGrow /\ DOMAIN conn' = DOMAIN conn
      /\ \A d \in DOMAIN conn : conn[d].drops \in Nat /\ conn[d].packets \in Nat /\ d \in Nat /\ d # 0
                                   /\ conn[d].ctx \in Contexts
  BY <1>1, <1>3, NetSameConns
<1>5. /\ NetPending' \subseteq NetPending /\ NetPending \subseteq NetPending' \cup {first}
      /\ \A b \in NetPending' : Before(first, b)
      /\ \A a, b \in NetPending' : Before(a, b)' => Before(a, b)
  BY <1>2 DEF TakenOnly
<1>6. netMain # [at |-> "close", h |-> h] /\ netMain.at = "idle"
  BY <1>2 DEF NetIdle
<1>7. /\ \A kind, d : Waits(kind, d)' => Waits(kind, d)
      /\ \A kind, d : Waits(kind, d) => Waits(kind, d)' \/ (kind = "close" /\ d = c)
      /\ \A d : HasItem(d)' => HasItem(d)
      /\ \A d, m : HasData(d, m) => HasData(d, m)'
      /\ HasItem(c)
  BY <1>0, <1>2, NetTakenMeans
<1>8. \A a \in NetPending : ItemOk(a) /\ a.conn \in DOMAIN conn /\ a.conn # 0
  BY <1>1, <1>4 DEF ItemsAgree, ItemOk
<1>9. c \in DOMAIN conn /\ ~conn[c].open /\ \A b \in NetPending' : b.conn # c
  BY <1>0, <1>1, <1>2, <1>5, <1>8 DEF ItemOk, ItemsAgree, PairOk
<1>10. SocketsAgree'
  <2>1. netMain'.at = "close" => netMain'.h \in Socks /\ sock[netMain'.h].held
    BY <1>2
  <2> QED
    BY <1>1, <1>2, <1>3, <1>4, <2>1, NetSocketsKept
<1>11. ServerCloses'
  BY <1>1, <1>3, <1>5, NetClosesKept
<1>12. ItemsAgree'
  <2>2. ASSUME NEW a \in NetPending PROVE ItemOk(a)'
    <3>2. a.kind = "accept" => conn'[a.conn].drops = 0 /\ \A g \in Socks' : sock'[g].conn # a.conn
      BY <1>2, <1>3, <1>8 DEF ItemOk
    <3> QED
      BY <1>1, <1>2, <1>4, <1>8, <3>2, NetItemOkKept
  <2> QED
    BY <1>1, <1>2, <1>5, <2>2, NetItemsTaken
<1>13. DropsExplained'
  BY <1>1, <1>2, <1>3, <1>4, NetDropsKept
<1>14. ASSUME Regular' PROVE ItemsRegular' /\ SocksRegular' /\ ConnsRegular' /\ DataRegular'
  <2>1. Regular
    BY <1>1, <1>2, <1>3, <1>4, <1>14, NetRegularBefore
  <2>2. ItemsRegular /\ SocksRegular /\ ConnsRegular /\ RegOrder /\ DataRegular
    BY <1>1, <2>1, NetConnsRegularIs DEF NetInvariant
  <2>3. sock[h].conn = c
    BY <1>0, <1>2, <2>2 DEF ItemsRegular, RegItem
  <2>4. Listed(h)
    BY <1>2, <1>4, <1>7, <1>9, <2>2, <2>3 DEF SocksRegular, RegSock
  <2>5. ~HasItem(c)'
    BY <1>9 DEF HasItem
  <2>11. \A g \in Socks : sock[g].conn = c => g = h
    <3>1. c # 0 /\ h \in Socks
      BY <1>2, <1>4, <1>9
    <3> QED
      BY ONLY <1>1, <2>3, <3>1, NetOwns
  <2>6. ItemsRegular'
    <3>1. ASSUME NEW a \in NetPending' PROVE RegItem(a)'
      <4>1. RegItem(a) /\ a \in NetPending
        BY <1>5, <2>2 DEF ItemsRegular
      <4>2. Waits("clear", a.conn) => Waits("clear", a.conn)'
        BY <1>7
      <4> QED
        BY <1>1, <1>2, <1>3, <1>4, <4>1, <4>2, NetRegItemKept
    <3>3. ASSUME NEW a \in NetPending' , NEW b \in NetPending', Before(a, b)' PROVE RegPair(a, b)'
      BY <1>1, <1>4, <1>5, <2>2, <3>3, NetRegPairKept DEF ItemsRegular
    <3>4. server'.early # NoContext => \E a \in NetPending' : a.kind = "clear" /\ conn'[a.conn].ctx = server'.early
      BY <1>2, <1>3, <1>5, <2>2 DEF ItemsRegular
    <3> QED
      BY <3>1, <3>3, <3>4 DEF ItemsRegular
  <2>7. SocksRegular'
    <3>1. ASSUME NEW g \in Socks, sock[g].conn # 0 PROVE RegSock(g)'
      <4>1. PICK d : d = sock[g].conn
        OBVIOUS
      <4>2. RegSock(g)
        BY <2>2, <3>1 DEF SocksRegular
      <4>3. sock'[g].conn = d /\ sock'[g].client = sock[g].client /\ sock'[g].closed = sock[g].closed
        BY <1>2, <4>1
      <4>4. CASE d # c
        <5>1. (Waits("close", d)' <=> Waits("close", d)) /\ (Waits("clear", d)' <=> Waits("clear", d))
          BY <1>7, <4>4
        <5>2. HasItem(d)' => HasItem(d)
          BY <1>7
        <5>3. netMain # [at |-> "close", h |-> g]
          BY <1>6
        <5> QED
          BY <1>2, <1>3, <4>1, <4>2, <4>3, <5>1, <5>2, <5>3, NetRegSockKept
      <4>5. CASE d = c
        <5>1. g = h /\ Listed(g)'
          BY <1>2, <2>4, <2>11, <4>1, <4>5
        <5>2. Waits("clear", c)' <=> Waits("clear", c)
          BY <1>7
        <5>3. conn[c].drops = (IF Waits("clear", c) THEN 1 ELSE 0) /\ (sock[g].client \/ (sock[g].closed <=> Waits("clear", c)))
          BY <2>4, <4>1, <4>2, <4>5, <5>1 DEF RegSock
        <5>4. conn'[c].drops = IF Waits("clear", c)' THEN 1 ELSE 0
          BY <1>3, <5>2, <5>3
        <5>5. sock'[g].client \/ (sock'[g].closed <=> Waits("clear", c)')
          BY <4>3, <5>2, <5>3
        <5> QED
          BY <1>2, <4>3, <4>5, <5>1, <5>4, <5>5 DEF RegSock
      <4> QED
        BY <4>4, <4>5
    <3>2. RegMain'
      <4>1. ~HasItem(c)' /\ ~conn'[c].open /\ Listed(h)' /\ sock'[h].conn = c /\ c # 0
        BY <1>2, <1>3, <1>4, <1>9, <2>3, <2>4, <2>5
      <4>2. netMain'.h = h
        BY <1>2
      <4> QED
        BY <4>1, <4>2 DEF RegMain
    <3>3. \A g, h1 \in Socks' : InSeq(g, clients') /\ InSeq(h1, clients') /\ sock'[g].ctx = sock'[h1].ctx
                               /\ sock'[g].ctx # NoContext => g = h1
      BY <1>2, <1>3, <2>2, NetClientsKept
    <3> QED
      BY <1>2, <3>1, <3>2, <3>3 DEF SocksRegular
  <2>8. ConnsRegular'
    <3>1. ASSUME NEW d \in DOMAIN conn, ~conn[d].client PROVE RegRefs(d)'
      <4>0. RegRefs(d) /\ conn'[d] = conn[d]
        BY <1>3, <2>2, <3>1 DEF ConnsRegular
      <4> QED
        BY <1>2, <1>3, <4>0, NetRegRefsKept
    <3>2. RegOrder'
      BY <1>2, <1>3, <1>4, <1>7, <2>2, NetOrderKept
    <3>4. (\A d \in DOMAIN conn : ~conn[d].client => RegRefs(d))'
      BY <1>3, <3>1
    <3> QED
      BY <3>2, <3>4 DEF ConnsRegular, RegOrder
  <2>9. DataRegular'
    <3>1. ASSUME NEW g \in Socks PROVE RegData(g)'
      <4>1. PICK d : d = sock[g].conn
        OBVIOUS
      <4>2. RegData(g) /\ (d = 0 \/ d \in DOMAIN conn)
        BY <1>1, <2>2, <4>1 DEF SocketsAgree, DataRegular
      <4>4. Len(DataOf(sock[g])) \in Nat /\ (d # 0 => conn[d].packets \in Nat)
        BY <1>1, <1>4, <4>2, NetDataTyped DEF NetTypes, Socks
      <4>6. DataOf(sock'[g]) = DataOf(sock[g]) /\ sock'[g].conn = d
        BY <1>2, <4>1
      <4> QED
        BY <1>2, <1>3, <1>5, <1>7, <4>1, <4>2, <4>4, <4>6, NetRegDataKept
    <3>2. "data" \notin netLost' =>
            \A a \in NetPending' : a.kind = "accept" => \A m \in 1 .. conn'[a.conn].packets : HasData(a.conn, m)'
      BY <1>3, <1>5, <1>7, <2>2 DEF DataRegular
    <3> QED
      BY <1>2, <3>1, <3>2 DEF DataRegular
  <2> QED
    BY <2>6, <2>7, <2>8, <2>9
<1> QED
  BY <1>2, <1>10, <1>11, <1>12, <1>13, <1>14 DEF NetInv, NetInvariant

-----------------------------------------------------------------------------
(***************************************************************************)
(* A packet is received.                                                   *)
(***************************************************************************)
\* The socket that main finds for an item is that of the item's connection.
LEMMA NetFound ==
  ASSUME NetAssumption, NetInv, Regular, NEW first, TakenOnly(first), NEW c, c = first.conn,
         ~conn[c].client, NEW h, h = FindConnection(c)
  PROVE  /\ h # 0 => h \in Socks /\ sock[h].conn = c /\ Listed(h)
         /\ \A g \in Socks : sock[g].conn = c => h # 0
<1>1. NetTypes /\ SocketsAgree /\ ItemsAgree /\ ItemsRegular /\ SocksRegular /\ ConnsRegular
  BY DEF NetInv, NetInvariant
<1>2. first \in NetPending /\ c \in DOMAIN conn /\ HasItem(c)
  BY <1>1 DEF TakenOnly, ItemsAgree, ItemOk, HasItem
<1>3. \A d \in DOMAIN conn : d \in Nat \ {0} /\ conn[d].ctx \in Contexts
  BY <1>1, NetConnTyped DEF NetTypes
<1>4. \/ h = 0 /\ \A g \in Socks : InSeq(g, conns) => sock[g].ctx # conn[c].ctx
      \/ h \in Socks /\ InSeq(h, conns) /\ sock[h].ctx = conn[c].ctx
  BY <1>1, <1>2, NetFinds
<1>5. ASSUME NEW g \in Socks, sock[g].conn = c PROVE h # 0
  <2>1. c # 0
    BY <1>2, <1>3
  <2>2. sock[g].ctx = conn[c].ctx /\ ~sock[g].client /\ RegSock(g)
    BY <1>1, <1>5, <2>1 DEF SocketsAgree, SocksRegular
  <2>3. InSeq(g, conns)
    BY <1>2, <1>5, <2>2 DEF RegSock, Listed
  <2>4. h \in Socks => h # 0
    BY <1>1, NetSockTyped DEF NetTypes, Socks
  <2> QED
    BY <1>4, <2>2, <2>3, <2>4
<1>6. ASSUME h # 0 PROVE h \in Socks /\ sock[h].conn = c /\ Listed(h)
  <2>1. PICK d : d = sock[h].conn
    OBVIOUS
  <2>2. h \in Socks /\ InSeq(h, conns) /\ sock[h].ctx = conn[c].ctx
    BY <1>4, <1>6
  <2>3. ~sock[h].client /\ d # 0 /\ Listed(h)
    BY <1>1, <2>1, <2>2 DEF SocketsAgree, Listed
  <2>4. d \in DOMAIN conn /\ conn[d].ctx = conn[c].ctx /\ ~conn[d].client /\ RegSock(h)
    BY <1>1, <2>1, <2>2, <2>3 DEF SocketsAgree, SocksRegular
  <2>5. ~(d < c)
    <3>1. SUFFICES ASSUME d < c PROVE FALSE
      OBVIOUS
    <3>2. conn[d].drops = 1
      BY <1>1, <1>2, <2>4, <3>1 DEF ConnsRegular, SameContext
    <3>3. Waits("clear", d)
      BY <2>1, <2>3, <2>4, <3>2 DEF RegSock
    <3>4. PICK a \in NetPending : a.kind = "clear" /\ a.conn = d
      BY <3>3 DEF Waits
    <3>5. a # first
      BY <1>2, <1>3, <2>4, <3>1, <3>4
    <3>6. Before(first, a)
      BY <3>5 DEF TakenOnly
    <3>7. RegPair(first, a)
      BY <1>1, <1>2, <3>6 DEF ItemsRegular
    <3>8. c <= d
      BY <2>4, <3>4, <3>7 DEF RegPair, SameContext
    <3> QED
      BY <1>2, <1>3, <2>4, <3>1, <3>8
  <2>6. ~(c < d)
    BY <1>1, <1>2, <2>1, <2>2, <2>4 DEF ConnsRegular, SameContext
  <2>7. d = c
    BY <1>2, <1>3, <2>4, <2>5, <2>6
  <2> QED
    BY <2>1, <2>2, <2>3, <2>7
<1> QED
  BY <1>5, <1>6

\* And the socket of a packet is.
LEMMA NetPacketsSocket ==
  ASSUME NetAssumption, NetInv, NEW first, TakenOnly(first), first.kind = "data", NEW c, c = first.conn,
         NEW h, h = SocketNow(first)
  PROVE  /\ h # 0 => h \in Socks
         /\ Regular /\ h # 0 => sock[h].conn = c /\ Listed(h)
         /\ Regular => \A g \in Socks : sock[g].conn = c => h # 0
<1>1. NetTypes /\ SocketsAgree /\ ItemsAgree
  BY DEF NetInv, NetInvariant
<1>2. first \in NetPending /\ c \in DOMAIN conn /\ HasItem(c) /\ (first.h # 0 => first.h \in Socks)
  BY <1>1 DEF TakenOnly, ItemsAgree, ItemOk, HasItem
<1>3. c # 0
  BY <1>1, <1>2, NetConnTyped DEF NetTypes
<1>4. CASE first.h # 0
  <2>1. h = first.h
    BY <1>4 DEF SocketNow
  <2>2. ASSUME Regular PROVE sock[h].conn = c /\ Listed(h)
    <3>1. ItemsRegular /\ SocksRegular
      BY <2>2 DEF NetInv, NetInvariant
    <3>2. sock[h].conn = c
      BY <1>2, <1>4, <2>1, <3>1 DEF ItemsRegular, RegItem
    <3> QED
      BY <1>2, <1>3, <1>4, <2>1, <3>1, <3>2 DEF SocksRegular, RegSock
  <2> QED
    BY <1>2, <1>4, <2>1, <2>2
<1>5. CASE first.h = 0
  <2>1. h = FindConnection(c)
    BY <1>5 DEF SocketNow
  <2>2. h # 0 => h \in Socks
    BY <1>1, <1>2, <2>1, NetFinds
  <2>3. Regular => ~conn[c].client
    BY <1>2, <1>5 DEF NetInv, NetInvariant, ItemsRegular, RegItem
  <2> QED
    BY <2>1, <2>2, <2>3, NetFound
<1> QED
  BY <1>4, <1>5

LEMMA NetAppends ==
  ASSUME NEW S, NEW s \in Seq(S), NEW t \in Seq(S), NEW e \in S, NEW all, all = s \o t
  PROVE  /\ s \o Append(t, e) = Append(all, e) /\ (s \o Append(t, e)) \o <<>> = Append(all, e)
         /\ s \o Append(t, e) \in Seq(S) /\ Append(t, e) \in Seq(S)
<1>1. Append(t, e) \in Seq(S) /\ all \in Seq(S) /\ Append(all, e) \in Seq(S)
  OBVIOUS
<1>2. s \o Append(t, e) \in Seq(S)
  BY <1>1
<1>3. s \o Append(t, e) = Append(all, e)
  OBVIOUS
<1>4. (s \o Append(t, e)) \o <<>> = s \o Append(t, e)
  BY <1>2
<1> QED
  BY <1>1, <1>2, <1>3, <1>4

LEMMA NetReceivePacketIs ==
  ASSUME NetAssumption, NetInv, NEW emits \in BOOLEAN, ReceivePacket(emits), NEW first, first = Head(netRing),
         NEW h, h = SocketNow(first), NEW c, c = first.conn
  PROVE  /\ NetTypes' /\ TakenOnly(first) /\ first.kind = "data" /\ first \in NetPending /\ netMain.at = "copy"
         /\ h \in Socks /\ h # 0 /\ SameSockets /\ Socks' = Socks
         /\ \A g \in Socks : Listed(g)' <=> Listed(g)
         /\ \A g \in Socks : sock'[g].conn = sock[g].conn /\ sock'[g].ctx = sock[g].ctx
                             /\ sock'[g].client = sock[g].client
         /\ \A g \in Socks : sock'[g].closed = sock[g].closed
         /\ \A g \in Socks : g # h => DataOf(sock'[g]) = DataOf(sock[g])
         /\ DataOf(sock'[h]) = Append(DataOf(sock[h]), <<c, first.n>>)
         /\ <<c, first.n>> \in PacketIds
         /\ netMain'.at # "close"
<1>1. NetTypes /\ ItemsAgree
  BY DEF NetInv, NetInvariant
<1>2. netRing' \in Seq(NetItems) /\ first \in NetItems /\ first.kind = "data" /\ TakenOnly(first)
      /\ first \in NetPending /\ netMain.at = "copy"
  BY <1>1, NetCopies DEF ReceivePacket
<1>3. h \in Socks /\ h # 0
  BY <1>2, NetPacketsSocket DEF ReceivePacket
<1>4. PICK e, buf, given : /\ e = <<c, first.n>> /\ buf = sock[h].buf /\ given = sock[h].given
  OBVIOUS
<1>5. e \in PacketIds
  BY <1>2, <1>4 DEF NetItems, PacketIds
<1>6. sock[h] \in SockRecs /\ buf \in Seq(PacketIds) /\ given \in Seq(PacketIds) /\ sock[h].timeout \in BOOLEAN
  BY <1>1, <1>3, <1>4, NetSockTyped DEF NetTypes, Socks
<1>7. PICK all : all = given \o buf
  OBVIOUS
<1>8. /\ given \o Append(buf, e) = Append(all, e) /\ (given \o Append(buf, e)) \o <<>> = Append(all, e)
      /\ given \o Append(buf, e) \in Seq(PacketIds) /\ Append(buf, e) \in Seq(PacketIds)
  BY ONLY <1>5, <1>6, <1>7, NetAppends
<1>9. PICK newBuf, newGiven : /\ newBuf = IF emits THEN <<>> ELSE Append(buf, e)
                              /\ newGiven = IF emits THEN given \o Append(buf, e) ELSE given
  OBVIOUS
<1>10. newBuf \in Seq(PacketIds) /\ newGiven \in Seq(PacketIds) /\ newGiven \o newBuf = Append(all, e)
  <2>1. <<>> \in Seq(PacketIds)
    BY EmptySeq
  <2>2. CASE emits
    BY <1>8, <1>9, <2>1, <2>2
  <2>3. CASE ~emits
    BY <1>6, <1>8, <1>9, <2>3
  <2> QED
    BY <2>2, <2>3
<1>11. PICK s : s = [sock[h] EXCEPT !.timer = sock[h].timeout, !.buf = newBuf, !.given = newGiven]
  OBVIOUS
<1>12. /\ s \in SockRecs /\ s.conn = sock[h].conn /\ s.ctx = sock[h].ctx /\ s.client = sock[h].client
       /\ s.closed = sock[h].closed /\ s.held = sock[h].held /\ s.buf = newBuf /\ s.given = newGiven
  BY ONLY <1>6, <1>10, <1>11 DEF SockRecs
<1>13. sock' = [sock EXCEPT ![h] = s] /\ UNCHANGED <<conns, clients>> /\ netMain' = [at |-> "data", h |-> h]
  BY <1>4, <1>9, <1>11 DEF ReceivePacket, ReadAll
<1>14. /\ sock' \in Seq(SockRecs) /\ SameSockets /\ Socks' = Socks /\ sock'[h] = s
       /\ \A g \in Socks : g # h => sock'[g] = sock[g]
       /\ \A g \in Socks : Listed(g)' <=> Listed(g)
       /\ \A g \in Socks : sock'[g].conn = sock[g].conn /\ sock'[g].ctx = sock[g].ctx
                             /\ sock'[g].client = sock[g].client
  <2>1. NetTypes
    BY <1>1
  <2> QED
    BY ONLY <1>3, <1>12, <1>13, <2>1, NetSockGoesOn
<1>15. \A g \in Socks : sock'[g].closed = sock[g].closed /\ (g # h => DataOf(sock'[g]) = DataOf(sock[g]))
  <2>1. sock'[h].closed = sock[h].closed
    BY <1>12, <1>14
  <2> QED
    BY <1>14, <2>1, Zenon
<1>16. DataOf(sock'[h]) = Append(DataOf(sock[h]), <<c, first.n>>)
  BY <1>4, <1>7, <1>10, <1>12, <1>14 DEF DataOf
<1>17. h \in Nat
  BY <1>1, <1>3, NetSockTyped DEF NetTypes, Socks
<1>18. NetTypes'
  BY <1>1, <1>2, <1>13, <1>14, <1>17 DEF ReceivePacket, NetTypes
<1>19. netMain'.at # "close"
  BY <1>13
<1> QED
  BY <1>2, <1>3, <1>4, <1>5, <1>14, <1>15, <1>16, <1>18, <1>19

LEMMA NetReceivePacket ==
  ASSUME NetAssumption, NetInv, NEW emits \in BOOLEAN, ReceivePacket(emits)
  PROVE  NetInv'
<1>0. PICK first, h, c : first = Head(netRing) /\ h = SocketNow(first) /\ c = first.conn
  OBVIOUS
<1>1. NetTypes /\ NetInvariant /\ SocketsAgree /\ ServerCloses /\ ItemsAgree /\ DropsExplained
  BY DEF NetInv, NetInvariant
<1>2. /\ NetTypes' /\ TakenOnly(first) /\ first.kind = "data" /\ first \in NetPending /\ netMain.at = "copy"
      /\ h \in Socks /\ h # 0 /\ SameSockets /\ Socks' = Socks
      /\ \A g \in Socks : Listed(g)' <=> Listed(g)
      /\ \A g \in Socks : sock'[g].conn = sock[g].conn /\ sock'[g].ctx = sock[g].ctx
                          /\ sock'[g].client = sock[g].client
      /\ \A g \in Socks : sock'[g].closed = sock[g].closed
      /\ \A g \in Socks : g # h => DataOf(sock'[g]) = DataOf(sock[g])
      /\ DataOf(sock'[h]) = Append(DataOf(sock[h]), <<c, first.n>>)
      /\ <<c, first.n>> \in PacketIds
      /\ netMain'.at # "close"
  BY <1>0, NetReceivePacketIs
<1>3. UNCHANGED <<server, conns, clients, conn, refs, netLost>>
  BY DEF ReceivePacket
<1>4. /\ ConnsGrow /\ DOMAIN conn' = DOMAIN conn
      /\ \A d \in DOMAIN conn : conn[d].drops \in Nat /\ conn[d].packets \in Nat /\ d \in Nat /\ d # 0
                                   /\ conn[d].ctx \in Contexts
  BY <1>1, <1>3, NetSameConns
<1>5. /\ NetPending' \subseteq NetPending /\ NetPending \subseteq NetPending' \cup {first}
      /\ \A b \in NetPending' : Before(first, b)
      /\ \A a, b \in NetPending' : Before(a, b)' => Before(a, b)
  BY <1>2 DEF TakenOnly
<1>6. netMain.at = "copy"
  BY <1>2
<1>7. /\ \A kind, d : Waits(kind, d)' => Waits(kind, d)
      /\ \A kind, d : Waits(kind, d) => Waits(kind, d)' \/ (kind = "data" /\ d = c)
      /\ \A d : HasItem(d)' => HasItem(d)
      /\ \A d, m : HasData(d, m) => HasData(d, m)' \/ (d = c /\ m = first.n)
      /\ HasItem(c)
  BY <1>0, <1>2, NetTakenMeans
<1>8. \A a \in NetPending : ItemOk(a) /\ a.conn \in DOMAIN conn /\ a.conn # 0
  BY <1>1, <1>4 DEF ItemsAgree, ItemOk
<1>9. /\ c \in DOMAIN conn /\ first.n \in 1 .. conn[c].packets
      /\ \A b \in NetPending' : b.conn = c => b.kind # "accept" /\ (b.kind = "data" => first.n < b.n)
  BY <1>0, <1>1, <1>2, <1>5, <1>8 DEF ItemOk, ItemsAgree, PairOk
<1>10. SocketsAgree'
  BY <1>1, <1>2, <1>3, <1>4, NetSocketsKept
<1>11. ServerCloses'
  BY <1>1, <1>3, <1>5, NetClosesKept
<1>12. ItemsAgree'
  <2>2. ASSUME NEW a \in NetPending PROVE ItemOk(a)'
    <3>2. a.kind = "accept" => conn'[a.conn].drops = 0 /\ \A g \in Socks' : sock'[g].conn # a.conn
      BY <1>2, <1>3, <1>8 DEF ItemOk
    <3> QED
      BY <1>1, <1>2, <1>4, <1>8, <3>2, NetItemOkKept
  <2> QED
    BY <1>1, <1>2, <1>5, <2>2, NetItemsTaken
<1>13. DropsExplained'
  BY <1>1, <1>2, <1>3, <1>4, NetDropsKept
<1>14. ASSUME Regular' PROVE ItemsRegular' /\ SocksRegular' /\ ConnsRegular' /\ DataRegular'
  <2>1. Regular
    BY <1>1, <1>2, <1>3, <1>4, <1>14, NetRegularBefore
  <2>2. ItemsRegular /\ SocksRegular /\ ConnsRegular /\ RegOrder /\ DataRegular
    BY <1>1, <2>1, NetConnsRegularIs DEF NetInvariant
  <2>3. sock[h].conn = c /\ Listed(h)
    BY <1>0, <1>2, <2>1, NetPacketsSocket
  <2>4. \A g \in Socks : sock[g].conn = c => g = h
    <3>1. c # 0 /\ h \in Socks
      BY <1>2, <1>4, <1>9
    <3> QED
      BY ONLY <1>1, <2>3, <3>1, NetOwns
  <2>6. ItemsRegular'
    <3>1. ASSUME NEW a \in NetPending' PROVE RegItem(a)'
      <4>1. RegItem(a) /\ a \in NetPending
        BY <1>5, <2>2 DEF ItemsRegular
      <4>2. Waits("clear", a.conn) => Waits("clear", a.conn)'
        BY <1>7
      <4> QED
        BY <1>1, <1>2, <1>3, <1>4, <4>1, <4>2, NetRegItemKept
    <3>3. ASSUME NEW a \in NetPending' , NEW b \in NetPending', Before(a, b)' PROVE RegPair(a, b)'
      BY <1>1, <1>4, <1>5, <2>2, <3>3, NetRegPairKept DEF ItemsRegular
    <3>4. server'.early # NoContext => \E a \in NetPending' : a.kind = "clear" /\ conn'[a.conn].ctx = server'.early
      BY <1>2, <1>3, <1>5, <2>2 DEF ItemsRegular
    <3> QED
      BY <3>1, <3>3, <3>4 DEF ItemsRegular
  <2>7. SocksRegular'
    <3>1. ASSUME NEW g \in Socks, sock[g].conn # 0 PROVE RegSock(g)'
      <4>1. PICK d : d = sock[g].conn
        OBVIOUS
      <4>2. RegSock(g)
        BY <2>2, <3>1 DEF SocksRegular
      <4>3. sock'[g].conn = d /\ sock'[g].client = sock[g].client /\ sock'[g].closed = sock[g].closed
        BY <1>2, <4>1
      <4>4. (Waits("close", d)' <=> Waits("close", d)) /\ (Waits("clear", d)' <=> Waits("clear", d))
        BY <1>7
      <4>5. HasItem(d)' => HasItem(d)
        BY <1>7
      <4>6. netMain # [at |-> "close", h |-> g]
        BY <1>6
      <4> QED
        BY <1>2, <1>3, <4>1, <4>2, <4>3, <4>4, <4>5, <4>6, NetRegSockKept
    <3>2. RegMain'
      BY <1>2 DEF RegMain
    <3>3. \A g, h1 \in Socks' : InSeq(g, clients') /\ InSeq(h1, clients') /\ sock'[g].ctx = sock'[h1].ctx
                               /\ sock'[g].ctx # NoContext => g = h1
      BY <1>2, <1>3, <2>2, NetClientsKept
    <3> QED
      BY <1>2, <3>1, <3>2, <3>3 DEF SocksRegular
  <2>8. ConnsRegular'
    <3>1. ASSUME NEW d \in DOMAIN conn, ~conn[d].client PROVE RegRefs(d)'
      <4>0. RegRefs(d) /\ conn'[d] = conn[d]
        BY <1>3, <2>2, <3>1 DEF ConnsRegular
      <4> QED
        BY <1>2, <1>3, <4>0, NetRegRefsKept
    <3>2. RegOrder'
      BY <1>2, <1>3, <1>4, <1>7, <2>2, NetOrderKept
    <3>4. (\A d \in DOMAIN conn : ~conn[d].client => RegRefs(d))'
      BY <1>3, <3>1
    <3> QED
      BY <3>2, <3>4 DEF ConnsRegular, RegOrder
  <2>9. DataRegular'
    <3>1. ASSUME NEW g \in Socks, g # h PROVE RegData(g)'
      <4>1. PICK d : d = sock[g].conn
        OBVIOUS
      <4>2. RegData(g) /\ (d = 0 \/ d \in DOMAIN conn) /\ d # c
        BY <1>1, <2>2, <2>4, <3>1, <4>1 DEF SocketsAgree, DataRegular
      <4>4. Len(DataOf(sock[g])) \in Nat /\ (d # 0 => conn[d].packets \in Nat)
        BY <1>1, <1>4, <4>2, NetDataTyped DEF NetTypes, Socks
      <4>5. \A m \in Nat : HasData(d, m) => HasData(d, m)'
        BY <1>7, <4>2
      <4>6. DataOf(sock'[g]) = DataOf(sock[g]) /\ sock'[g].conn = d
        BY <1>2, <3>1, <4>1
      <4>7. \A a \in NetPending' : a.kind = "data" /\ a.conn = d => a \in NetPending
        BY <1>5
      <4>8. Listed(g)' => Listed(g)
        BY <1>2
      <4> QED
        BY <1>3, <4>1, <4>2, <4>4, <4>5, <4>6, <4>7, <4>8, NetRegDataKept
    <3>2. "data" \notin netLost' =>
            \A a \in NetPending' : a.kind = "accept" => \A m \in 1 .. conn'[a.conn].packets : HasData(a.conn, m)'
      BY <1>3, <1>5, <1>7, <1>9, <2>2 DEF DataRegular
    <3>3. RegData(h)'
      <4>1. PICK data, new, len, p, n, S : /\ data = DataOf(sock[h]) /\ len = Len(data) /\ p = conn[c].packets /\ n = first.n
                                           /\ new = DataOf(sock'[h]) /\ S = PacketIds
        OBVIOUS
      <4>2. data \in Seq(S) /\ <<c, n>> \in S /\ new = Append(data, <<c, n>>)
        BY <1>1, <1>2, <4>1, NetDataTyped DEF NetTypes, Socks
      <4>3. /\ Len(new) = len + 1 /\ len \in Nat /\ DOMAIN data = 1 .. len /\ DOMAIN new = 1 .. len + 1
            /\ (\A i \in 1 .. len : new[i] = data[i]) /\ new[len + 1] = <<c, n>>
        BY ONLY <4>1, <4>2, NetGrows
      <4>4. p \in Nat /\ n \in 1 .. p /\ c # 0 /\ conn'[c].packets = p /\ sock'[h].conn = c
        BY <1>2, <1>3, <1>4, <1>9, <2>3, <4>1
      <4>5. \A i \in 1 .. len :
              /\ data[i][1] = c /\ data[i][2] \in 1 .. p
              /\ \A j \in 1 .. i - 1 : data[j][2] < data[i][2]
              /\ \A a \in NetPending : a.kind = "data" /\ a.conn = c => data[i][2] < a.n
              /\ "data" \notin netLost => data[i][2] = i
        <5>1. RegData(h)
          BY <1>2, <2>2 DEF DataRegular
        <5>2. \A i \in DOMAIN data :
                /\ data[i][1] = c /\ data[i][2] \in 1 .. p
                /\ \A j \in 1 .. i - 1 : data[j][2] < data[i][2]
                /\ \A a \in NetPending : a.kind = "data" /\ a.conn = c => data[i][2] < a.n
                /\ "data" \notin netLost => data[i][2] = i
          BY <2>3, <4>1, <5>1 DEF RegData
        <5> QED
          BY <4>3, <5>2
      <4>6. "data" \notin netLost => \A m \in len + 1 .. p : HasData(c, m)
        <5>1. RegData(h)
          BY <1>2, <2>2 DEF DataRegular
        <5> QED
          BY <2>3, <4>1, <4>4, <5>1 DEF RegData
      <4>7. \A i \in 1 .. len : data[i][2] < n
        BY <1>0, <1>2, <4>1, <4>5
      <4>8. ASSUME "data" \notin netLost PROVE n = len + 1
        <5>1. n >= len + 1
          <6>1. CASE len = 0
            BY <4>4, <6>1
          <6>2. CASE len # 0
            <7>1. len \in 1 .. len /\ data[len][2] = len
              BY <4>3, <4>5, <4>8, <6>2
            <7> QED
              BY <4>3, <4>4, <4>7, <7>1
          <6> QED
            BY <6>1, <6>2
        <5>2. ~(n > len + 1)
          <6>1. SUFFICES ASSUME n > len + 1 PROVE FALSE
            OBVIOUS
          <6>2. HasData(c, len + 1)
            BY <4>3, <4>4, <4>6, <4>8, <6>1
          <6>3. PICK a \in NetPending : a.kind = "data" /\ a.conn = c /\ a.n = len + 1
            BY <6>2 DEF HasData
          <6>4. a # first
            BY <4>1, <4>3, <4>4, <6>1, <6>3
          <6>5. n < a.n
            BY <1>5, <1>9, <4>1, <6>3, <6>4
          <6> QED
            BY <4>3, <4>4, <6>1, <6>3, <6>5
        <5> QED
          BY <4>3, <4>4, <5>1, <5>2
      <4>9. ASSUME NEW i \in 1 .. len + 1
            PROVE  /\ new[i][1] = c /\ new[i][2] \in 1 .. p
                   /\ \A j \in 1 .. i - 1 : new[j][2] < new[i][2]
                   /\ \A a \in NetPending' : a.kind = "data" /\ a.conn = c => new[i][2] < a.n
                   /\ "data" \notin netLost => new[i][2] = i
        <5>1. CASE i \in 1 .. len
          <6>1. new[i] = data[i] /\ \A j \in 1 .. i - 1 : new[j] = data[j]
            BY <4>3, <5>1
          <6> QED
            BY <1>5, <4>5, <5>1, <6>1
        <5>2. CASE i = len + 1
          <6>1. new[i][1] = c /\ new[i][2] = n
            BY <4>3, <5>2
          <6>2. \A j \in 1 .. i - 1 : new[j][2] < n
            BY <4>3, <4>7, <5>2
          <6>3. \A a \in NetPending' : a.kind = "data" /\ a.conn = c => n < a.n
            BY <1>9, <4>1
          <6> QED
            BY <4>4, <4>8, <5>2, <6>1, <6>2, <6>3
        <5>3. i \in 1 .. len \/ i = len + 1
          BY <4>3, <4>9
        <5> QED
          BY <5>1, <5>2, <5>3
      <4>10. "data" \notin netLost => \A m \in Len(new) + 1 .. p : HasData(c, m)'
        BY <1>7, <4>1, <4>3, <4>4, <4>6, <4>8
      <4> QED
        BY <1>3, <4>1, <4>3, <4>4, <4>9, <4>10 DEF RegData
    <3> QED
      BY <1>2, <3>1, <3>2, <3>3 DEF DataRegular
  <2> QED
    BY <2>6, <2>7, <2>8, <2>9
<1> QED
  BY <1>2, <1>10, <1>11, <1>12, <1>13, <1>14 DEF NetInv, NetInvariant

\* A packet that has no socket.
LEMMA NetReceiveUnknown ==
  ASSUME NetAssumption, NetInv, ReceiveUnknown
  PROVE  NetInv'
<1>0. PICK first, h, c : first = Head(netRing) /\ h = SocketNow(first) /\ c = first.conn
  OBVIOUS
<1>1. NetTypes /\ NetInvariant /\ SocketsAgree /\ ServerCloses /\ ItemsAgree /\ DropsExplained
  BY DEF NetInv, NetInvariant
<1>2. /\ NetTypes' /\ TakenOnly(first) /\ first.kind = "data" /\ first \in NetPending /\ netMain.at = "copy"
      /\ SameSockets /\ Socks' = Socks
      /\ \A g \in Socks : Listed(g)' <=> Listed(g)
  <2>1. netRing' \in Seq(NetItems) /\ first \in NetItems /\ first.kind = "data" /\ TakenOnly(first)
        /\ first \in NetPending /\ netMain.at = "copy"
    BY <1>0, <1>1, NetCopies DEF ReceiveUnknown
  <2>2. UNCHANGED <<server, conns, clients, sock, conn, refs, netLost>> /\ netMain' = NetIdle
    BY DEF ReceiveUnknown
  <2>3. Socks' = Socks /\ SameSockets /\ NetTypes'
    BY <1>1, <2>1, <2>2 DEF NetTypes, SameSockets, Socks, NetIdle
  <2>4. \A g \in Socks : Listed(g)' <=> Listed(g)
    BY <2>2 DEF Listed
  <2> QED
    BY <2>1, <2>3, <2>4
<1>3. UNCHANGED <<server, conns, clients, sock, conn, refs, netLost>> /\ netMain'.at = "idle" /\ h = 0
  BY <1>0 DEF ReceiveUnknown, NetIdle
<1>4. /\ ConnsGrow /\ DOMAIN conn' = DOMAIN conn
      /\ \A d \in DOMAIN conn : conn[d].drops \in Nat /\ conn[d].packets \in Nat /\ d \in Nat /\ d # 0
                                   /\ conn[d].ctx \in Contexts
  BY <1>1, <1>3, NetSameConns
<1>5. /\ NetPending' \subseteq NetPending /\ NetPending \subseteq NetPending' \cup {first}
      /\ \A b \in NetPending' : Before(first, b)
      /\ \A a, b \in NetPending' : Before(a, b)' => Before(a, b)
  BY <1>2 DEF TakenOnly
<1>6. netMain.at = "copy"
  BY <1>2
<1>7. /\ \A kind, d : Waits(kind, d)' => Waits(kind, d)
      /\ \A kind, d : Waits(kind, d) => Waits(kind, d)' \/ (kind = "data" /\ d = c)
      /\ \A d : HasItem(d)' => HasItem(d)
      /\ \A d, m : HasData(d, m) => HasData(d, m)' \/ (d = c /\ m = first.n)
      /\ HasItem(c)
  BY <1>0, <1>2, NetTakenMeans
<1>8. \A a \in NetPending : ItemOk(a) /\ a.conn \in DOMAIN conn /\ a.conn # 0
  BY <1>1, <1>4 DEF ItemsAgree, ItemOk
<1>9. /\ c \in DOMAIN conn /\ first.n \in 1 .. conn[c].packets
      /\ \A b \in NetPending' : b.conn = c => b.kind # "accept" /\ (b.kind = "data" => first.n < b.n)
  BY <1>0, <1>1, <1>2, <1>5, <1>8 DEF ItemOk, ItemsAgree, PairOk
<1>10. SocketsAgree'
  <2>1. netMain'.at = "close" => netMain'.h \in Socks /\ sock[netMain'.h].held
    BY <1>1, <1>3 DEF SocketsAgree
  <2> QED
    BY <1>1, <1>2, <1>3, <1>4, <2>1, NetSocketsKept
<1>11. ServerCloses'
  BY <1>1, <1>3, <1>5, NetClosesKept
<1>12. ItemsAgree'
  <2>2. ASSUME NEW a \in NetPending PROVE ItemOk(a)'
    <3>2. a.kind = "accept" => conn'[a.conn].drops = 0 /\ \A g \in Socks' : sock'[g].conn # a.conn
      BY <1>2, <1>3, <1>8 DEF ItemOk
    <3> QED
      BY <1>1, <1>2, <1>4, <1>8, <3>2, NetItemOkKept
  <2> QED
    BY <1>1, <1>2, <1>5, <2>2, NetItemsTaken
<1>13. DropsExplained'
  BY <1>1, <1>2, <1>3, <1>4, NetDropsKept
<1>14. ASSUME Regular' PROVE ItemsRegular' /\ SocksRegular' /\ ConnsRegular' /\ DataRegular'
  <2>1. Regular
    BY <1>1, <1>2, <1>3, <1>4, <1>14, NetRegularBefore
  <2>2. ItemsRegular /\ SocksRegular /\ ConnsRegular /\ RegOrder /\ DataRegular
    BY <1>1, <2>1, NetConnsRegularIs DEF NetInvariant
  <2>4. \A g \in Socks : sock[g].conn # c
    BY <1>0, <1>2, <1>3, <2>1, NetPacketsSocket
  <2>6. ItemsRegular'
    <3>1. ASSUME NEW a \in NetPending' PROVE RegItem(a)'
      <4>1. RegItem(a) /\ a \in NetPending
        BY <1>5, <2>2 DEF ItemsRegular
      <4>2. Waits("clear", a.conn) => Waits("clear", a.conn)'
        BY <1>7
      <4> QED
        BY <1>1, <1>2, <1>3, <1>4, <4>1, <4>2, NetRegItemKept
    <3>3. ASSUME NEW a \in NetPending' , NEW b \in NetPending', Before(a, b)' PROVE RegPair(a, b)'
      BY <1>1, <1>4, <1>5, <2>2, <3>3, NetRegPairKept DEF ItemsRegular
    <3>4. server'.early # NoContext => \E a \in NetPending' : a.kind = "clear" /\ conn'[a.conn].ctx = server'.early
      BY <1>2, <1>3, <1>5, <2>2 DEF ItemsRegular
    <3> QED
      BY <3>1, <3>3, <3>4 DEF ItemsRegular
  <2>7. SocksRegular'
    <3>1. ASSUME NEW g \in Socks, sock[g].conn # 0 PROVE RegSock(g)'
      <4>1. PICK d : d = sock[g].conn
        OBVIOUS
      <4>2. RegSock(g)
        BY <2>2, <3>1 DEF SocksRegular
      <4>3. sock'[g].conn = d /\ sock'[g].client = sock[g].client /\ sock'[g].closed = sock[g].closed
        BY <1>3, <4>1
      <4>4. (Waits("close", d)' <=> Waits("close", d)) /\ (Waits("clear", d)' <=> Waits("clear", d))
        BY <1>7
      <4>5. HasItem(d)' => HasItem(d)
        BY <1>7
      <4>6. netMain # [at |-> "close", h |-> g]
        BY <1>6
      <4> QED
        BY <1>2, <1>3, <4>1, <4>2, <4>3, <4>4, <4>5, <4>6, NetRegSockKept
    <3>2. RegMain'
      BY <1>3, <1>6 DEF RegMain
    <3>3. \A g, h1 \in Socks' : InSeq(g, clients') /\ InSeq(h1, clients') /\ sock'[g].ctx = sock'[h1].ctx
                               /\ sock'[g].ctx # NoContext => g = h1
      BY <1>2, <1>3, <2>2, NetClientsKept
    <3> QED
      BY <1>2, <1>3, <3>1, <3>2, <3>3 DEF SocksRegular
  <2>8. ConnsRegular'
    <3>1. ASSUME NEW d \in DOMAIN conn, ~conn[d].client PROVE RegRefs(d)'
      <4>0. RegRefs(d) /\ conn'[d] = conn[d]
        BY <1>3, <2>2, <3>1 DEF ConnsRegular
      <4> QED
        BY <1>2, <1>3, <4>0, NetRegRefsKept
    <3>2. RegOrder'
      BY <1>2, <1>3, <1>4, <1>7, <2>2, NetOrderKept
    <3>4. (\A d \in DOMAIN conn : ~conn[d].client => RegRefs(d))'
      BY <1>3, <3>1
    <3> QED
      BY <3>2, <3>4 DEF ConnsRegular, RegOrder
  <2>9. DataRegular'
    <3>1. ASSUME NEW g \in Socks PROVE RegData(g)'
      <4>1. PICK d : d = sock[g].conn
        OBVIOUS
      <4>2. RegData(g) /\ (d = 0 \/ d \in DOMAIN conn) /\ d # c
        BY <1>1, <2>2, <2>4, <3>1, <4>1 DEF SocketsAgree, DataRegular
      <4>4. Len(DataOf(sock[g])) \in Nat /\ (d # 0 => conn[d].packets \in Nat)
        BY <1>1, <1>4, <4>2, NetDataTyped DEF NetTypes, Socks
      <4>5. \A m \in Nat : HasData(d, m) => HasData(d, m)'
        BY <1>7, <4>2
      <4>6. DataOf(sock'[g]) = DataOf(sock[g]) /\ sock'[g].conn = d
        BY <1>3, <4>1
      <4>7. \A a \in NetPending' : a.kind = "data" /\ a.conn = d => a \in NetPending
        BY <1>5
      <4>8. Listed(g)' => Listed(g)
        BY <1>2
      <4> QED
        BY <1>3, <4>1, <4>2, <4>4, <4>5, <4>6, <4>7, <4>8, NetRegDataKept
    <3>2. "data" \notin netLost' =>
            \A a \in NetPending' : a.kind = "accept" => \A m \in 1 .. conn'[a.conn].packets : HasData(a.conn, m)'
      BY <1>3, <1>5, <1>7, <1>9, <2>2 DEF DataRegular
    <3> QED
      BY <1>2, <3>1, <3>2 DEF DataRegular
  <2> QED
    BY <2>6, <2>7, <2>8, <2>9
<1> QED
  BY <1>2, <1>10, <1>11, <1>12, <1>13, <1>14 DEF NetInv, NetInvariant

-----------------------------------------------------------------------------
(***************************************************************************)
(* A context that was closed early is forgotten.                           *)
(***************************************************************************)
LEMMA NetClearClosedIs ==
  ASSUME NetAssumption, NetInv, ClearClosed, NEW first, first = Head(netRing)
  PROVE  /\ netRing' \in Seq(NetItems) /\ TakenOnly(first) /\ first.kind = "clear" /\ first \in NetPending
         /\ netMain = NetIdle
         /\ server' \in [listening : BOOLEAN, closed : BOOLEAN, early : Contexts \cup {NoContext}, closes : Nat,
                         collected : BOOLEAN]
         /\ server'.early = NoContext /\ server'.closed = server.closed /\ server'.closes = server.closes
<1>1. NetTypes
  BY DEF NetInv
<1>2. netRing' \in Seq(NetItems) /\ first.kind = "clear" /\ TakenOnly(first) /\ first \in NetPending /\ netMain = NetIdle
  BY <1>1, NetTakesOut DEF ClearClosed
<1>3. server' = [server EXCEPT !.early = NoContext]
  BY DEF ClearClosed, Forget
<1> QED
  BY <1>1, <1>2, <1>3 DEF NetTypes

\* There is no socket.
LEMMA NetClearMisses ==
  ASSUME NetAssumption, NetInv, ClearClosed, FindConnection(Head(netRing).conn) = 0
  PROVE  NetInv'
<1>0. PICK first, h, c : first = Head(netRing) /\ c = first.conn /\ h = FindConnection(c)
  OBVIOUS
<1>1. NetTypes /\ NetInvariant /\ SocketsAgree /\ ServerCloses /\ ItemsAgree /\ DropsExplained
  BY DEF NetInv, NetInvariant
<1>2. /\ NetTypes' /\ TakenOnly(first) /\ first.kind = "clear" /\ first \in NetPending /\ netMain = NetIdle
      /\ SameSockets /\ Socks' = Socks
      /\ \A g \in Socks : Listed(g)' <=> Listed(g)
      /\ server'.early = NoContext /\ server'.closed = server.closed /\ server'.closes = server.closes
  <2>1. netRing' \in Seq(NetItems) /\ TakenOnly(first) /\ first.kind = "clear" /\ first \in NetPending /\ netMain = NetIdle
        /\ server' \in [listening : BOOLEAN, closed : BOOLEAN, early : Contexts \cup {NoContext}, closes : Nat,
                        collected : BOOLEAN]
        /\ server'.early = NoContext /\ server'.closed = server.closed /\ server'.closes = server.closes
    BY <1>0, NetClearClosedIs
  <2>2. UNCHANGED <<conns, clients, sock, conn, refs, netMain, netLost>>
    BY <1>0 DEF ClearClosed
  <2>3. Socks' = Socks /\ SameSockets /\ NetTypes'
    BY <1>1, <2>1, <2>2 DEF NetTypes, SameSockets, Socks
  <2>4. \A g \in Socks : Listed(g)' <=> Listed(g)
    BY <2>2 DEF Listed
  <2> QED
    BY <2>1, <2>3, <2>4
<1>3. UNCHANGED <<conns, clients, sock, conn, refs, netMain, netLost>> /\ h = 0
  BY <1>0 DEF ClearClosed
<1>4. /\ ConnsGrow /\ DOMAIN conn' = DOMAIN conn
      /\ \A d \in DOMAIN conn : conn[d].drops \in Nat /\ conn[d].packets \in Nat /\ d \in Nat /\ d # 0
                                   /\ conn[d].ctx \in Contexts
  BY <1>1, <1>3, NetSameConns
<1>5. /\ NetPending' \subseteq NetPending /\ NetPending \subseteq NetPending' \cup {first}
      /\ \A b \in NetPending' : Before(first, b)
      /\ \A a, b \in NetPending' : Before(a, b)' => Before(a, b)
  BY <1>2 DEF TakenOnly
<1>6. netMain.at = "idle"
  BY <1>2 DEF NetIdle
<1>7. /\ \A kind, d : Waits(kind, d)' => Waits(kind, d)
      /\ \A kind, d : Waits(kind, d) => Waits(kind, d)' \/ (kind = "clear" /\ d = c)
      /\ \A d : HasItem(d)' => HasItem(d)
      /\ \A d, m : HasData(d, m) => HasData(d, m)'
      /\ HasItem(c)
  BY <1>0, <1>2, NetTakenMeans
<1>8. \A a \in NetPending : ItemOk(a) /\ a.conn \in DOMAIN conn /\ a.conn # 0
  BY <1>1, <1>4 DEF ItemsAgree, ItemOk
<1>9. c \in DOMAIN conn /\ ~conn[c].client /\ \A b \in NetPending' : b.conn = c => b.kind # "accept"
  BY <1>0, <1>1, <1>2, <1>5, <1>8 DEF ItemOk, ItemsAgree, PairOk
<1>10. SocketsAgree'
  <2>1. netMain'.at = "close" => netMain'.h \in Socks /\ sock[netMain'.h].held
    BY <1>1, <1>3 DEF SocketsAgree
  <2> QED
    BY <1>1, <1>2, <1>3, <1>4, <2>1, NetSocketsKept
<1>11. ServerCloses'
  BY <1>1, <1>2, <1>3, <1>5, NetClosesKept
<1>12. ItemsAgree'
  <2>2. ASSUME NEW a \in NetPending PROVE ItemOk(a)'
    <3>2. a.kind = "accept" => conn'[a.conn].drops = 0 /\ \A g \in Socks' : sock'[g].conn # a.conn
      BY <1>2, <1>3, <1>8 DEF ItemOk
    <3> QED
      BY <1>1, <1>2, <1>4, <1>8, <3>2, NetItemOkKept
  <2> QED
    BY <1>1, <1>2, <1>5, <2>2, NetItemsTaken
<1>13. DropsExplained'
  BY <1>1, <1>2, <1>3, <1>4, NetDropsKept
<1>14. ASSUME Regular' PROVE ItemsRegular' /\ SocksRegular' /\ ConnsRegular' /\ DataRegular'
  <2>1. Regular
    BY <1>1, <1>2, <1>3, <1>4, <1>14, NetRegularBefore
  <2>2. ItemsRegular /\ SocksRegular /\ ConnsRegular /\ RegOrder /\ DataRegular
    BY <1>1, <2>1, NetConnsRegularIs DEF NetInvariant
  <2>4. \A g \in Socks : sock[g].conn # c
    BY <1>0, <1>2, <1>3, <1>9, <2>1, NetFound
  <2>5. \A a \in NetPending' : a.kind # "clear"
    BY <1>2, <1>5, <2>2 DEF ItemsRegular, RegPair
  <2>6. ItemsRegular'
    <3>1. ASSUME NEW a \in NetPending' PROVE RegItem(a)'
      <4>1. RegItem(a) /\ a \in NetPending /\ a.kind # "clear"
        BY <1>5, <2>2, <2>5 DEF ItemsRegular
      <4>2. a.kind = "accept" /\ Waits("clear", a.conn) => Waits("clear", a.conn)'
        BY <1>7, <1>9
      <4> QED
        BY <1>1, <1>2, <1>3, <1>4, <4>1, <4>2, NetRegItemKept
    <3>3. ASSUME NEW a \in NetPending' , NEW b \in NetPending', Before(a, b)' PROVE RegPair(a, b)'
      BY <1>1, <1>4, <1>5, <2>2, <3>3, NetRegPairKept DEF ItemsRegular
    <3> QED
      BY <1>2, <3>1, <3>3 DEF ItemsRegular
  <2>7. SocksRegular'
    <3>1. ASSUME NEW g \in Socks, sock[g].conn # 0 PROVE RegSock(g)'
      <4>1. PICK d : d = sock[g].conn
        OBVIOUS
      <4>2. RegSock(g)
        BY <2>2, <3>1 DEF SocksRegular
      <4>3. sock'[g].conn = d /\ sock'[g].client = sock[g].client /\ sock'[g].closed = sock[g].closed
        BY <1>3, <4>1
      <4>4. (Waits("close", d)' <=> Waits("close", d)) /\ (Waits("clear", d)' <=> Waits("clear", d))
        BY <1>7, <2>4, <4>1
      <4>5. HasItem(d)' => HasItem(d)
        BY <1>7
      <4>6. netMain # [at |-> "close", h |-> g]
        BY <1>6
      <4> QED
        BY <1>2, <1>3, <4>1, <4>2, <4>3, <4>4, <4>5, <4>6, NetRegSockKept
    <3>2. RegMain'
      BY <1>3, <1>6 DEF RegMain
    <3>3. \A g, h1 \in Socks' : InSeq(g, clients') /\ InSeq(h1, clients') /\ sock'[g].ctx = sock'[h1].ctx
                               /\ sock'[g].ctx # NoContext => g = h1
      BY <1>2, <1>3, <2>2, NetClientsKept
    <3> QED
      BY <1>2, <1>3, <3>1, <3>2, <3>3 DEF SocksRegular
  <2>8. ConnsRegular'
    <3>1. ASSUME NEW d \in DOMAIN conn, ~conn[d].client PROVE RegRefs(d)'
      <4>0. RegRefs(d) /\ conn'[d] = conn[d]
        BY <1>3, <2>2, <3>1 DEF ConnsRegular
      <4> QED
        BY <1>2, <1>3, <4>0, NetRegRefsKept
    <3>2. RegOrder'
      BY <1>2, <1>3, <1>4, <1>7, <2>2, NetOrderKept
    <3>4. (\A d \in DOMAIN conn : ~conn[d].client => RegRefs(d))'
      BY <1>3, <3>1
    <3> QED
      BY <3>2, <3>4 DEF ConnsRegular, RegOrder
  <2>9. DataRegular'
    <3>1. ASSUME NEW g \in Socks PROVE RegData(g)'
      <4>1. PICK d : d = sock[g].conn
        OBVIOUS
      <4>2. RegData(g) /\ (d = 0 \/ d \in DOMAIN conn) /\ d # c
        BY <1>1, <2>2, <2>4, <3>1, <4>1 DEF SocketsAgree, DataRegular
      <4>4. Len(DataOf(sock[g])) \in Nat /\ (d # 0 => conn[d].packets \in Nat)
        BY <1>1, <1>4, <4>2, NetDataTyped DEF NetTypes, Socks
      <4>5. \A m \in Nat : HasData(d, m) => HasData(d, m)'
        BY <1>7, <4>2
      <4>6. DataOf(sock'[g]) = DataOf(sock[g]) /\ sock'[g].conn = d
        BY <1>3, <4>1
      <4>7. \A a \in NetPending' : a.kind = "data" /\ a.conn = d => a \in NetPending
        BY <1>5
      <4>8. Listed(g)' => Listed(g)
        BY <1>2
      <4> QED
        BY <1>3, <4>1, <4>2, <4>4, <4>5, <4>6, <4>7, <4>8, NetRegDataKept
    <3>2. "data" \notin netLost' =>
            \A a \in NetPending' : a.kind = "accept" => \A m \in 1 .. conn'[a.conn].packets : HasData(a.conn, m)'
      BY <1>3, <1>5, <1>7, <1>9, <2>2 DEF DataRegular
    <3> QED
      BY <1>2, <3>1, <3>2 DEF DataRegular
  <2> QED
    BY <2>6, <2>7, <2>8, <2>9
<1> QED
  BY <1>2, <1>10, <1>11, <1>12, <1>13, <1>14 DEF NetInv, NetInvariant

\* A context is dropped for its connection.
LEMMA NetDrops ==
  ASSUME NetTypes, NEW context, NEW d \in DOMAIN conn, Drop(context, d)
  PROVE  /\ refs' \in [Contexts -> Nat] /\ conn' \in Seq(ConnRecs) /\ DOMAIN conn' = DOMAIN conn
         /\ \A x \in Contexts : x # context => refs'[x] = refs[x]
         /\ context \in Contexts /\ refs[context] > 0 => refs'[context] = refs[context] - 1
         /\ conn'[d].drops = conn[d].drops + 1 /\ conn[d].drops \in Nat
         /\ conn'[d].open = conn[d].open /\ conn'[d].packets = conn[d].packets /\ conn'[d].early = conn[d].early
         /\ \A e \in DOMAIN conn : e # d => conn'[e] = conn[e]
         /\ ConnsGrow
<1>1. refs' \in [Contexts -> Nat] /\ (\A x \in Contexts : x # context => refs'[x] = refs[x])
      /\ (context \in Contexts /\ refs[context] > 0 => refs'[context] = refs[context] - 1)
  <2>1. refs \in [Contexts -> Nat] /\ refs' = Unref(context)
    BY DEF Drop, NetTypes
  <2> QED
    BY <2>1, NetUnref
<1>2. conn[d] \in ConnRecs /\ conn[d].drops \in Nat /\ conn[d].packets \in Nat /\ d # 0
  BY NetConnTyped DEF NetTypes
<1>3. PICK s : s = [conn[d] EXCEPT !.drops = conn[d].drops + 1]
  OBVIOUS
<1>4. s \in ConnRecs /\ s.ctx = conn[d].ctx /\ s.client = conn[d].client /\ s.open = conn[d].open
      /\ s.packets = conn[d].packets /\ s.early = conn[d].early /\ s.drops = conn[d].drops + 1
  BY ONLY <1>2, <1>3, NetConnDrop
<1>5. conn' = [conn EXCEPT ![d] = s]
  BY <1>2, <1>3 DEF Drop
<1>6. /\ conn' \in Seq(ConnRecs) /\ DOMAIN conn' = DOMAIN conn /\ conn'[d] = s
      /\ \A e \in DOMAIN conn : e # d => conn'[e] = conn[e]
      /\ ConnsGrow
  <2>1. conn[d].drops <= s.drops /\ conn[d].packets <= s.packets
    BY <1>2, <1>4
  <2> QED
    BY <1>4, <1>5, <2>1, NetConnGoesOn DEF NetTypes
<1> QED
  BY <1>1, <1>2, <1>4, <1>6

\* The socket closes, and its context is dropped: for the second time, if it is the
\* connection's own, as accept_connection dropped it before.
LEMMA NetClearCloses ==
  ASSUME NetAssumption, NetInv, ClearClosed, FindConnection(Head(netRing).conn) # 0
  PROVE  NetInv'
<1>0. PICK first, h, c, d : first = Head(netRing) /\ c = first.conn /\ h = FindConnection(c) /\ d = sock[h].conn
  OBVIOUS
<1>1. NetTypes /\ NetInvariant /\ SocketsAgree /\ ServerCloses /\ ItemsAgree /\ DropsExplained
  BY DEF NetInv, NetInvariant
<1>2. /\ netRing' \in Seq(NetItems) /\ TakenOnly(first) /\ first.kind = "clear" /\ first \in NetPending
      /\ server' \in [listening : BOOLEAN, closed : BOOLEAN, early : Contexts \cup {NoContext}, closes : Nat,
                      collected : BOOLEAN]
      /\ server'.closed = server.closed /\ server'.closes = server.closes
  BY <1>0, NetClearClosedIs
<1>3. /\ UNCHANGED <<conns, clients, netLost>> /\ h # 0
      /\ Drop(sock[h].ctx, d) /\ netMain' = [at |-> "close", h |-> h]
      /\ sock' = [sock EXCEPT ![h] = [sock[h] EXCEPT !.closed = TRUE, !.closes = sock[h].closes + 1]]
  BY <1>0 DEF ClearClosed
<1>4. c \in DOMAIN conn /\ ~conn[c].client
  BY <1>0, <1>1, <1>2 DEF ItemsAgree, ItemOk
<1>5. h \in Socks /\ InSeq(h, conns)
  BY <1>0, <1>1, <1>3, <1>4, NetFinds
<1>6. d \in DOMAIN conn /\ ~sock[h].client /\ sock[h].held
  BY <1>0, <1>1, <1>5 DEF SocketsAgree
<1>7. /\ refs' \in [Contexts -> Nat] /\ conn' \in Seq(ConnRecs) /\ DOMAIN conn' = DOMAIN conn
      /\ conn'[d].drops = conn[d].drops + 1 /\ conn[d].drops \in Nat
      /\ \A e \in DOMAIN conn : e # d => conn'[e] = conn[e]
      /\ ConnsGrow
  BY <1>1, <1>3, <1>6, NetDrops
<1>8. sock' \in Seq(SockRecs) /\ SameSockets /\ Socks' = Socks /\ h \in Nat
  <2>1. PICK s : s = [sock[h] EXCEPT !.closed = TRUE, !.closes = sock[h].closes + 1]
    OBVIOUS
  <2>2. sock[h] \in SockRecs /\ sock[h].closes \in Nat /\ h \in Nat
    BY <1>1, <1>5, NetSockTyped DEF NetTypes, Socks
  <2>3. sock[h].closes + 1 \in Nat
    BY <2>2
  <2>4. s \in SockRecs /\ s.conn = sock[h].conn /\ s.ctx = sock[h].ctx /\ s.client = sock[h].client /\ s.held = sock[h].held
    BY ONLY <2>1, <2>2, <2>3 DEF SockRecs
  <2>5. sock' = [sock EXCEPT ![h] = s] /\ UNCHANGED <<conns, clients>>
    BY <1>3, <2>1
  <2> QED
    BY <1>1, <1>5, <2>2, <2>4, <2>5, NetSockGoesOn
<1>9. NetTypes'
  BY <1>1, <1>2, <1>3, <1>7, <1>8 DEF NetTypes
<1>10. \A a \in NetPending' : a \in NetPending
  BY <1>2 DEF TakenOnly
<1>11. SocketsAgree'
  <2>1. netMain'.at = "close" => netMain'.h \in Socks /\ sock[netMain'.h].held
    BY <1>3, <1>5, <1>6
  <2> QED
    BY <1>1, <1>3, <1>7, <1>8, <2>1, NetSocketsKept
<1>12. ServerCloses'
  BY <1>1, <1>2, <1>3, <1>10, NetClosesKept
<1>13. ItemsAgree'
  <2>2. ASSUME NEW a \in NetPending' PROVE ItemOk(a)'
    <3>1. a \in NetPending /\ ItemOk(a) /\ a.conn \in DOMAIN conn
      BY <1>1, <1>10 DEF ItemsAgree, ItemOk
    <3>2. a.kind = "accept" => conn'[a.conn].drops = 0 /\ \A g \in Socks' : sock'[g].conn # a.conn
      BY <1>0, <1>5, <1>7, <1>8, <3>1 DEF ItemOk, SameSockets
    <3> QED
      BY <1>1, <1>7, <1>8, <1>9, <3>1, <3>2, NetItemOkKept
  <2> QED
    BY <1>1, <1>2, <2>2, NetItemsTaken
<1>14. ASSUME Regular PROVE conn[d].early /\ conn[d].drops = 1
  <2>1. ItemsRegular /\ SocksRegular
    BY <1>14 DEF NetInv, NetInvariant
  <2>2. d = c /\ Listed(h)
    BY <1>0, <1>2, <1>3, <1>4, <1>14, NetFound
  <2>3. conn[c].early
    BY <1>0, <1>2, <2>1 DEF ItemsRegular, RegItem
  <2>4. RegSock(h) /\ Waits("clear", c)
    <3>1. d # 0
      BY <1>1, <1>6, NetConnTyped DEF NetTypes
    <3> QED
      BY <1>0, <1>2, <1>5, <2>1, <3>1 DEF SocksRegular, Waits
  <2> QED
    BY <1>0, <2>2, <2>3, <2>4 DEF RegSock
<1>15. DropsExplained'
  BY <1>1, <1>3, <1>6, <1>7, <1>9, <1>14, NetDropsMore
<1>16. ~Regular'
  <2>1. Regular' => Regular
    BY <1>1, <1>3, <1>7, <1>9, NetRegularBefore
  <2>2. Regular' => conn'[d].drops <= 1
    BY <1>6, <1>7 DEF Regular, DroppedOnce
  <2> QED
    BY <1>7, <1>14, <2>1, <2>2
<1> QED
  BY <1>9, <1>11, <1>12, <1>13, <1>15, <1>16 DEF NetInv, NetInvariant

-----------------------------------------------------------------------------
(***************************************************************************)
(* A connection is accepted, or not.                                       *)
(***************************************************************************)
\* What is known of the connection whose turn it is.
LEMMA NetAcceptedFirst ==
  ASSUME NetAssumption, NetInv, Take("accept"), NEW first, first = Head(netRing), NEW c, c = first.conn
  PROVE  /\ netRing' \in Seq(NetItems) /\ TakenOnly(first) /\ first.kind = "accept" /\ first \in NetPending
         /\ netMain.at = "idle" /\ c \in DOMAIN conn /\ c # 0 /\ c \in Nat /\ ~conn[c].client /\ conn[c].drops = 0
         /\ conn[c].ctx \in Contexts /\ conn[c].ctx # NoContext
         /\ \A g \in Socks : sock[g].conn # c
         /\ \A b \in NetPending' : b.kind = "accept" => b.conn # c
         /\ Regular => /\ \A d \in DOMAIN conn : d # c /\ SameContext(c, d) => d < c /\ ~(conn[d].open \/ conn[d].drops = 0)
                       /\ conn[c].open => refs[conn[c].ctx] = 2
                       /\ ~conn[c].open => Waits("clear", c)
                       /\ "data" \notin netLost => \A m \in 1 .. conn[c].packets : HasData(c, m)
<1>1. NetTypes /\ ItemsAgree
  BY DEF NetInv, NetInvariant
<1>2. netRing' \in Seq(NetItems) /\ first.kind = "accept" /\ TakenOnly(first) /\ first \in NetPending /\ netMain.at = "idle"
  BY <1>1, NetTakesOut DEF NetIdle
<1>3. c \in DOMAIN conn /\ ~conn[c].client /\ conn[c].drops = 0 /\ \A g \in Socks : sock[g].conn # c
  BY <1>1, <1>2 DEF ItemsAgree, ItemOk
<1>4. \A d \in DOMAIN conn : d # 0 /\ d \in Nat /\ conn[d].ctx \in Contexts /\ conn[d].ctx # NoContext
  BY <1>1, NetConnsTyped
<1>5. \A b \in NetPending' : b.kind = "accept" => b.conn # c
  BY <1>1, <1>2 DEF ItemsAgree, PairOk, TakenOnly
<1>6. ASSUME Regular
      PROVE  /\ \A d \in DOMAIN conn : d # c /\ SameContext(c, d) => d < c /\ ~(conn[d].open \/ conn[d].drops = 0)
             /\ conn[c].open => refs[conn[c].ctx] = 2
             /\ ~conn[c].open => Waits("clear", c)
             /\ "data" \notin netLost => \A m \in 1 .. conn[c].packets : HasData(c, m)
  <2>1. ItemsRegular /\ ConnsRegular /\ DataRegular
    BY <1>6 DEF NetInv, NetInvariant
  <2>2. ASSUME NEW d \in DOMAIN conn, d # c, SameContext(c, d) PROVE d < c /\ ~(conn[d].open \/ conn[d].drops = 0)
    <3>1. SameContext(d, c)
      BY <2>2 DEF SameContext
    <3>2. ~(c < d)
      BY <1>3, <2>1, <2>2 DEF ConnsRegular
    <3>3. d < c
      BY <1>3, <1>4, <2>2, <3>2
    <3> QED
      BY <1>3, <2>1, <3>1, <3>3 DEF ConnsRegular
  <2>3. conn[c].open => refs[conn[c].ctx] = 2
    BY <1>3, <2>1 DEF ConnsRegular, RegRefs
  <2>4. ~conn[c].open => Waits("clear", c)
    BY <1>2, <2>1 DEF ItemsRegular, RegItem
  <2>5. "data" \notin netLost => \A m \in 1 .. conn[c].packets : HasData(c, m)
    BY <1>2, <2>1 DEF DataRegular
  <2> QED
    BY <2>2, <2>3, <2>4, <2>5
<1> QED
  BY <1>2, <1>3, <1>4, <1>5, <1>6

\* No socket can be made.
LEMMA NetAcceptFails ==
  ASSUME NetAssumption, NetInv, AcceptConnectionFails
  PROVE  NetInv'
<1>0. PICK first, c, context : first = Head(netRing) /\ c = first.conn /\ context = conn[c].ctx
  OBVIOUS
<1>1. NetTypes /\ NetInvariant /\ SocketsAgree /\ ServerCloses /\ ItemsAgree /\ DropsExplained
  BY DEF NetInv, NetInvariant
<1>2. /\ netRing' \in Seq(NetItems) /\ TakenOnly(first) /\ first.kind = "accept" /\ first \in NetPending
      /\ netMain.at = "idle" /\ c \in DOMAIN conn /\ c # 0 /\ c \in Nat /\ ~conn[c].client /\ conn[c].drops = 0
      /\ context \in Contexts /\ context # NoContext
      /\ \A g \in Socks : sock[g].conn # c
      /\ \A b \in NetPending' : b.kind = "accept" => b.conn # c
      /\ Regular => /\ \A d \in DOMAIN conn : d # c /\ SameContext(c, d) => d < c /\ ~(conn[d].open \/ conn[d].drops = 0)
                    /\ conn[c].open => refs[context] = 2
  <2>1. Take("accept")
    BY DEF AcceptConnectionFails
  <2> QED
    BY <1>0, <2>1, NetAcceptedFirst
<1>3. /\ UNCHANGED <<server, conns, clients, sock, netMain, netLost>> /\ Drop(context, c)
  BY <1>0 DEF AcceptConnectionFails, ContextOf
<1>4. /\ refs' \in [Contexts -> Nat] /\ conn' \in Seq(ConnRecs) /\ DOMAIN conn' = DOMAIN conn
      /\ \A x \in Contexts : x # context => refs'[x] = refs[x]
      /\ refs[context] > 0 => refs'[context] = refs[context] - 1
      /\ conn'[c].drops = 1
      /\ conn'[c].open = conn[c].open /\ conn'[c].packets = conn[c].packets /\ conn'[c].early = conn[c].early
      /\ \A e \in DOMAIN conn : e # c => conn'[e] = conn[e]
      /\ ConnsGrow
  BY <1>1, <1>2, <1>3, NetDrops
<1>5. /\ NetPending' \subseteq NetPending /\ NetPending \subseteq NetPending' \cup {first}
      /\ \A b \in NetPending' : Before(first, b)
      /\ \A a, b \in NetPending' : Before(a, b)' => Before(a, b)
  BY <1>2 DEF TakenOnly
<1>6. NetTypes' /\ Socks' = Socks /\ SameSockets
  BY <1>1, <1>2, <1>3, <1>4 DEF NetTypes, Socks, SameSockets
<1>7. /\ \A kind, d : Waits(kind, d)' => Waits(kind, d)
      /\ \A kind, d : Waits(kind, d) => Waits(kind, d)' \/ kind = "accept"
      /\ \A d : HasItem(d)' => HasItem(d)
      /\ \A d, m : HasData(d, m) => HasData(d, m)'
  BY <1>2, NetTakenMeans
<1>8. \A d \in DOMAIN conn : /\ conn[d].drops \in Nat /\ conn[d].packets \in Nat /\ d \in Nat /\ d # 0
                             /\ conn[d].ctx \in Contexts
                             /\ conn'[d].packets = conn[d].packets /\ conn'[d].open = conn[d].open
                             /\ conn'[d].ctx = conn[d].ctx /\ conn'[d].client = conn[d].client
  <2>1. \A d \in DOMAIN conn : /\ conn[d].drops \in Nat /\ conn[d].packets \in Nat /\ d \in Nat /\ d # 0
                               /\ conn[d].ctx \in Contexts
    BY <1>1, NetConnTyped DEF NetTypes
  <2>2. \A d \in DOMAIN conn : conn'[d].packets = conn[d].packets /\ conn'[d].open = conn[d].open
    BY <1>4
  <2> QED
    BY <1>4, <2>1, <2>2 DEF ConnsGrow
<1>9. \A a \in NetPending : ItemOk(a) /\ a.conn \in DOMAIN conn /\ a.conn # 0
  BY <1>1, <1>8 DEF ItemsAgree, ItemOk
<1>10. SocketsAgree'
  <2>1. netMain'.at = "close" => netMain'.h \in Socks /\ sock[netMain'.h].held
    BY <1>1, <1>3 DEF SocketsAgree
  <2> QED
    BY <1>1, <1>3, <1>4, <1>6, <2>1, NetSocketsKept
<1>11. ServerCloses'
  BY <1>1, <1>3, <1>5, NetClosesKept
<1>12. ItemsAgree'
  <2>2. ASSUME NEW a \in NetPending' PROVE ItemOk(a)'
    <3>1. a \in NetPending /\ ItemOk(a) /\ a.conn \in DOMAIN conn
      BY <1>5, <1>9
    <3>2. a.kind = "accept" => conn'[a.conn].drops = 0 /\ \A g \in Socks' : sock'[g].conn # a.conn
      BY <1>2, <1>3, <1>4, <1>6, <3>1 DEF ItemOk
    <3> QED
      BY <1>1, <1>4, <1>6, <3>1, <3>2, NetItemOkKept
  <2> QED
    BY <1>1, <1>2, <2>2, NetItemsTaken
<1>13. DropsExplained'
  <2>1. conn'[c].drops = conn[c].drops + 1
    BY <1>2, <1>4
  <2>2. \A d \in DOMAIN conn : d # c => conn'[d].drops = conn[d].drops
    BY <1>4
  <2>3. netLost \subseteq netLost'
    BY <1>3
  <2> QED
    BY <1>1, <1>2, <1>4, <1>6, <2>1, <2>2, <2>3, NetDropsMore
<1>14. ASSUME Regular' PROVE ItemsRegular' /\ SocksRegular' /\ ConnsRegular' /\ DataRegular'
  <2>1. Regular
    BY <1>1, <1>3, <1>4, <1>6, <1>14, NetRegularBefore
  <2>2. ItemsRegular /\ SocksRegular /\ ConnsRegular /\ RegOrder /\ DataRegular
    BY <1>1, <2>1, NetConnsRegularIs DEF NetInvariant
  <2>10. \A g \in Socks : Listed(g)' <=> Listed(g)
    BY <1>3 DEF Listed
  <2>6. ItemsRegular'
    <3>1. ASSUME NEW a \in NetPending' PROVE RegItem(a)'
      <4>1. RegItem(a) /\ a \in NetPending /\ a.conn \in DOMAIN conn
        BY <1>5, <1>9, <2>2 DEF ItemsRegular
      <4>2. Waits("clear", a.conn) => Waits("clear", a.conn)'
        BY <1>7
      <4>3. a.kind = "accept" /\ conn[a.conn].open => conn'[a.conn].open
        BY <1>8, <4>1
      <4> QED
        BY <1>1, <1>3, <1>4, <1>6, <4>1, <4>2, <4>3, NetRegItemKept
    <3>3. ASSUME NEW a \in NetPending' , NEW b \in NetPending', Before(a, b)' PROVE RegPair(a, b)'
      BY <1>1, <1>4, <1>5, <2>2, <3>3, NetRegPairKept DEF ItemsRegular
    <3>4. server'.early # NoContext => \E a \in NetPending' : a.kind = "clear" /\ conn'[a.conn].ctx = server'.early
      <4>1. SUFFICES ASSUME server.early # NoContext
                     PROVE  \E a \in NetPending' : a.kind = "clear" /\ conn'[a.conn].ctx = server.early
        BY <1>3
      <4>2. PICK a \in NetPending : a.kind = "clear" /\ conn[a.conn].ctx = server.early
        BY <2>2, <4>1 DEF ItemsRegular
      <4>3. a \in NetPending' /\ conn'[a.conn].ctx = conn[a.conn].ctx
        BY <1>2, <1>5, <1>8, <1>9, <4>2
      <4> QED
        BY <4>2, <4>3
    <3> QED
      BY <3>1, <3>3, <3>4 DEF ItemsRegular
  <2>7. SocksRegular'
    <3>1. ASSUME NEW g \in Socks, sock[g].conn # 0 PROVE RegSock(g)'
      <4>1. PICK d : d = sock[g].conn
        OBVIOUS
      <4>2. RegSock(g) /\ d # c /\ d \in DOMAIN conn
        BY <1>1, <1>2, <2>2, <3>1, <4>1 DEF SocksRegular, SocketsAgree
      <4>3. sock'[g].conn = d /\ sock'[g].client = sock[g].client /\ sock'[g].closed = sock[g].closed
        BY <1>3, <4>1
      <4>4. (Waits("close", d)' <=> Waits("close", d)) /\ (Waits("clear", d)' <=> Waits("clear", d))
        BY <1>7
      <4>5. HasItem(d)' => HasItem(d)
        BY <1>7
      <4>6. netMain # [at |-> "close", h |-> g]
        BY <1>2
      <4>7. conn'[d].open = conn[d].open /\ conn'[d].drops = conn[d].drops
        BY <1>4, <4>2
      <4> QED
        BY <2>10, <4>1, <4>2, <4>3, <4>4, <4>5, <4>6, <4>7, NetRegSockKept
    <3>2. RegMain'
      BY <1>2, <1>3 DEF RegMain
    <3>3. \A g, h1 \in Socks' : InSeq(g, clients') /\ InSeq(h1, clients') /\ sock'[g].ctx = sock'[h1].ctx
                               /\ sock'[g].ctx # NoContext => g = h1
      BY <1>3, <1>6, <2>2, NetClientsKept
    <3> QED
      BY <1>3, <1>6, <3>1, <3>2, <3>3 DEF SocksRegular
  <2>8. ConnsRegular'
    <3>1. ASSUME NEW d \in DOMAIN conn, ~conn[d].client PROVE RegRefs(d)'
      <4>0. RegRefs(d)
        BY <2>2, <3>1 DEF ConnsRegular
      <4>1. CASE conn[d].ctx # context
        <5>1. conn'[d] = conn[d] /\ refs'[conn[d].ctx] = refs[conn[d].ctx]
          BY <1>0, <1>4, <1>8, <4>1
        <5> QED
          BY <1>3, <1>6, <4>0, <5>1, NetRegRefsKept
      <4>2. CASE conn[d].ctx = context /\ d # c
        <5>1. ~(conn[d].open \/ conn[d].drops = 0)
          BY <1>0, <1>2, <2>1, <3>1, <4>2 DEF SameContext
        <5>2. conn'[d] = conn[d]
          BY <1>4, <4>2
        <5> QED
          BY <5>1, <5>2 DEF RegRefs
      <4>3. CASE d = c
        <5>1. CASE conn[c].open
          <6>1. refs'[context] = 1 /\ conn'[c].ctx = context
            BY <1>0, <1>2, <1>4, <1>8, <2>1, <5>1
          <6>2. \A g \in Socks' : InSeq(g, clients') => sock'[g].ctx # context
            <7>1. sock' = sock /\ clients' = clients /\ Socks' = Socks
              BY <1>3, <1>6
            <7>2. \A g \in Socks : InSeq(g, clients) => sock[g].ctx # conn[c].ctx
              BY <4>0, <4>3, <5>1 DEF RegRefs
            <7>3. \A g \in Socks' : InSeq(g, clients) => sock[g].ctx # context
              BY ONLY <1>0, <7>1, <7>2
            <7> QED
              BY ONLY <7>1, <7>3
          <6> QED
            BY <1>4, <4>3, <5>1, <6>1, <6>2 DEF RegRefs
        <5>2. CASE ~conn[c].open
          BY <1>4, <4>3, <5>2 DEF RegRefs
        <5> QED
          BY <5>1, <5>2
      <4> QED
        BY <1>0, <4>1, <4>2, <4>3
    <3>2. RegOrder'
      <4>1. \A d, e \in DOMAIN conn : d < e /\ SameContext(d, e) => conn'[d].drops = conn[d].drops
        <5>1. \A e \in DOMAIN conn : c < e => ~SameContext(c, e)
          BY <1>2, <1>8, <2>1
        <5> QED
          BY <1>4, <5>1
      <4> QED
        BY <1>3, <1>4, <1>6, <1>7, <2>2, <4>1, NetOrderKept
    <3>4. (\A d \in DOMAIN conn : ~conn[d].client => RegRefs(d))'
      BY <1>4, <1>8, <3>1
    <3> QED
      BY <3>2, <3>4 DEF ConnsRegular, RegOrder
  <2>9. DataRegular'
    <3>1. ASSUME NEW g \in Socks PROVE RegData(g)'
      <4>1. PICK d : d = sock[g].conn
        OBVIOUS
      <4>2. RegData(g) /\ (d = 0 \/ d \in DOMAIN conn)
        BY <1>1, <2>2, <4>1 DEF SocketsAgree, DataRegular
      <4>4. Len(DataOf(sock[g])) \in Nat /\ (d # 0 => conn[d].packets \in Nat /\ conn'[d].packets = conn[d].packets)
        BY <1>1, <1>8, <4>2, NetDataTyped DEF NetTypes, Socks
      <4>6. DataOf(sock'[g]) = DataOf(sock[g]) /\ sock'[g].conn = d
        BY <1>3, <4>1
      <4> QED
        BY <1>3, <1>5, <1>7, <2>10, <4>1, <4>2, <4>4, <4>6, NetRegDataKept
    <3>2. "data" \notin netLost' =>
            \A a \in NetPending' : a.kind = "accept" => \A m \in 1 .. conn'[a.conn].packets : HasData(a.conn, m)'
      BY <1>3, <1>5, <1>7, <1>8, <1>9, <2>2 DEF DataRegular
    <3> QED
      BY <1>6, <3>1, <3>2 DEF DataRegular
  <2> QED
    BY <2>6, <2>7, <2>8, <2>9
<1> QED
  BY <1>6, <1>10, <1>11, <1>12, <1>13, <1>14 DEF NetInv, NetInvariant

\* A socket is made.
LEMMA NetAcceptIs ==
  ASSUME NetAssumption, NetInv, AcceptConnection, NEW first, first = Head(netRing), NEW c, c = first.conn,
         NEW n, n = Len(sock) + 1, NEW context, context = conn[c].ctx, NEW early, early = (server.early = context)
  PROVE  /\ NetTypes' /\ n \in Nat \ {0} /\ n \notin Socks /\ n \in Socks'
         /\ \A g \in Socks : g \in Socks' /\ sock'[g] = sock[g]
         /\ \A g \in Socks' : g \in Socks \/ g = n
         /\ sock'[n].conn = c /\ sock'[n].ctx = context /\ ~sock'[n].client /\ sock'[n].held
         /\ sock'[n].closed = early
         /\ DataOf(sock'[n]) = <<>>
         /\ Distinct(conns)' /\ conns' # <<>>
         /\ \A g \in Socks' : InSeq(g, conns') <=> (g \in Socks /\ InSeq(g, conns)) \/ g = n
         /\ ~InSeq(n, clients)
         /\ DOMAIN conn' = DOMAIN conn /\ ConnsGrow
         /\ \A d \in DOMAIN conn : d # c => conn'[d] = conn[d]
         /\ conn'[c].open = conn[c].open /\ conn'[c].packets = conn[c].packets
         /\ early => conn'[c].drops = 1
         /\ \A x \in Contexts : x # context => refs'[x] = refs[x]
         /\ ~early => UNCHANGED <<refs, conn>>
<1>1. NetTypes /\ SocketsAgree
  BY DEF NetInv, NetInvariant
<1>2. /\ netRing' \in Seq(NetItems)
      /\ c \in DOMAIN conn /\ c # 0 /\ c \in Nat /\ conn[c].drops = 0 /\ context \in Contexts
  <2>1. Take("accept")
    BY DEF AcceptConnection
  <2> QED
    BY <2>1, NetAcceptedFirst
<1>3. early \in BOOLEAN
  OBVIOUS
<1>4. PICK s : s = [NewSocket(c, context, FALSE) EXCEPT !.closed = early]
  OBVIOUS
<1>5. /\ s \in SockRecs /\ s.conn = c /\ s.ctx = context /\ ~s.client /\ s.closed = early
      /\ s.held /\ s.buf = <<>> /\ s.given = <<>>
  <2>1. context \in Contexts \cup {NoContext} /\ FALSE \in BOOLEAN
    BY <1>2
  <2>2. PICK client : client = FALSE
    OBVIOUS
  <2>3. client \in BOOLEAN /\ s = [NewSocket(c, context, client) EXCEPT !.closed = early]
    BY <1>4, <2>2
  <2>4. /\ s \in SockRecs /\ s.conn = c /\ s.ctx = context /\ s.client = client /\ s.closed = early
        /\ s.held /\ s.buf = <<>> /\ s.given = <<>>
    <3>1. <<>> \in Seq(PacketIds)
      BY EmptySeq
    <3> QED
      BY ONLY <1>2, <1>3, <2>1, <2>3, <3>1 DEF NewSocket, SockRecs
  <2> QED
    BY <2>2, <2>4
<1>6. sock' = Append(sock, s) /\ conns' = <<n>> \o conns /\ clients' = clients
  BY <1>4 DEF AcceptConnection, ContextOf
<1>7. /\ sock' \in Seq(SockRecs) /\ n \in Nat \ {0} /\ n \notin Socks /\ n \in Socks' /\ sock'[n] = s
      /\ \A g \in Socks : g \in Socks' /\ sock'[g] = sock[g]
      /\ \A g \in Socks' : g \in Socks \/ g = n
      /\ Socks \subseteq Socks'
      /\ \A list : list \in Seq(Socks) => list \in Seq(Socks') /\ ~InSeq(n, list)
  BY <1>1, <1>5, <1>6, NetSockMade
<1>8. clients \in Seq(Socks') /\ conns \in Seq(Socks') /\ ~InSeq(n, clients) /\ ~InSeq(n, conns)
  BY <1>1, <1>7 DEF NetTypes
<1>9. conns' \in Seq(Socks') /\ Distinct(conns)' /\ conns' # <<>>
      /\ \A g \in Socks' : InSeq(g, conns') <=> InSeq(g, conns) \/ g = n
  <2>1. PICK S, new : S = Socks' /\ new = conns'
    OBVIOUS
  <2>2. Distinct(conns) /\ conns \in Seq(S) /\ n \in S /\ new = <<n>> \o conns /\ ~InSeq(n, conns)
    BY <1>1, <1>6, <1>7, <1>8, <2>1 DEF SocketsAgree
  <2>3. new \in Seq(S) /\ Distinct(new) /\ new # <<>> /\ \A g \in S : InSeq(g, new) <=> InSeq(g, conns) \/ g = n
    BY ONLY <2>2, NetPrepends
  <2>4. Distinct(conns)'
    BY <2>1, <2>3 DEF Distinct
  <2> QED
    BY <2>1, <2>3, <2>4
<1>10. DataOf(sock'[n]) = <<>>
  <2>1. <<>> \o <<>> = <<>>
    OBVIOUS
  <2> QED
    BY <1>5, <1>7, <2>1 DEF DataOf
<1>11. /\ conn' \in Seq(ConnRecs) /\ refs' \in [Contexts -> Nat]
       /\ DOMAIN conn' = DOMAIN conn /\ ConnsGrow
       /\ \A d \in DOMAIN conn : d # c => conn'[d] = conn[d]
       /\ conn'[c].open = conn[c].open /\ conn'[c].packets = conn[c].packets
       /\ early => conn'[c].drops = 1
       /\ \A x \in Contexts : x # context => refs'[x] = refs[x]
       /\ ~early => UNCHANGED <<refs, conn>>
  <2>1. CASE early
    <3>1. Drop(context, c)
      BY <2>1 DEF AcceptConnection, ContextOf
    <3>2. /\ refs' \in [Contexts -> Nat] /\ conn' \in Seq(ConnRecs) /\ DOMAIN conn' = DOMAIN conn
          /\ \A x \in Contexts : x # context => refs'[x] = refs[x]
          /\ conn'[c].drops = conn[c].drops + 1
          /\ conn'[c].open = conn[c].open /\ conn'[c].packets = conn[c].packets
          /\ \A e \in DOMAIN conn : e # c => conn'[e] = conn[e]
          /\ ConnsGrow
      BY ONLY <1>1, <1>2, <3>1, NetDrops
    <3>3. conn'[c].drops = 1
      BY <1>2, <3>2
    <3> QED
      BY <2>1, <3>2, <3>3
  <2>2. CASE ~early
    <3>1. UNCHANGED <<refs, conn>>
      BY <2>2 DEF AcceptConnection, ContextOf
    <3>2. ConnsGrow
      BY <1>1, <3>1, NetSameConns
    <3> QED
      BY <1>1, <2>2, <3>1, <3>2 DEF NetTypes
  <2> QED
    BY <2>1, <2>2
<1>12. NetTypes'
  <2>1. server' = server /\ netMain' = [at |-> "connection", h |-> n]
    BY DEF AcceptConnection
  <2> QED
    BY <1>1, <1>2, <1>6, <1>7, <1>8, <1>9, <1>11, <2>1 DEF NetTypes
<1> QED
  BY <1>5, <1>7, <1>8, <1>9, <1>10, <1>11, <1>12

\* Its context was remembered as closed if and only if it is on its way to be forgotten.
LEMMA NetAcceptEarly ==
  ASSUME NetAssumption, NetInv, Regular, Take("accept"), NEW first, first = Head(netRing), NEW c, c = first.conn
  PROVE  (server.early = conn[c].ctx <=> Waits("clear", c)) /\ (conn[c].open <=> ~Waits("clear", c))
<1>1. NetTypes /\ ItemsAgree /\ ItemsRegular
  BY DEF NetInv, NetInvariant
<1>2. /\ TakenOnly(first) /\ first.kind = "accept" /\ first \in NetPending
      /\ c \in DOMAIN conn /\ c # 0 /\ c \in Nat /\ ~conn[c].client
      /\ conn[c].ctx \in Contexts /\ conn[c].ctx # NoContext
      /\ \A d \in DOMAIN conn : d # c /\ SameContext(c, d) => d < c
      /\ ~conn[c].open => Waits("clear", c)
  BY NetAcceptedFirst
<1>3. Waits("clear", c) => server.early = conn[c].ctx /\ ~conn[c].open
  BY <1>1 DEF Waits, ItemsRegular, RegItem, ItemsAgree, ItemOk
<1>4. ASSUME server.early = conn[c].ctx PROVE Waits("clear", c)
  <2>1. PICK b \in NetPending : b.kind = "clear" /\ conn[b.conn].ctx = server.early
    BY <1>1, <1>2, <1>4 DEF ItemsRegular
  <2>2. b # first /\ b.conn \in DOMAIN conn /\ ~conn[b.conn].client
    BY <1>1, <1>2, <2>1 DEF ItemsAgree, ItemOk
  <2>3. Before(first, b)
    BY <1>2, <2>2 DEF TakenOnly
  <2>4. SameContext(c, b.conn)
    BY <1>2, <1>4, <2>1, <2>2 DEF SameContext
  <2>5. c <= b.conn
    BY <1>1, <1>2, <2>3, <2>4 DEF ItemsRegular, RegPair
  <2>6. b.conn \in Nat
    BY <1>1, <2>2, NetConnTyped DEF NetTypes
  <2>7. b.conn = c
    BY <1>2, <2>2, <2>4, <2>5, <2>6
  <2> QED
    BY <2>1, <2>7 DEF Waits
<1> QED
  BY <1>2, <1>3, <1>4

LEMMA NetAccepts ==
  ASSUME NetAssumption, NetInv, AcceptConnection
  PROVE  NetInv'
<1>0. PICK first, c, n, context, early :
         first = Head(netRing) /\ c = first.conn /\ n = Len(sock) + 1 /\ context = conn[c].ctx
         /\ early = (server.early = context)
  OBVIOUS
<1>1. NetTypes /\ NetInvariant /\ SocketsAgree /\ ServerCloses /\ ItemsAgree /\ DropsExplained /\ Take("accept")
  BY DEF NetInv, NetInvariant, AcceptConnection
<1>2. /\ NetTypes' /\ n \in Nat \ {0} /\ n \notin Socks /\ n \in Socks'
      /\ \A g \in Socks : g \in Socks' /\ sock'[g] = sock[g]
      /\ \A g \in Socks' : g \in Socks \/ g = n
      /\ sock'[n].conn = c /\ sock'[n].ctx = context /\ ~sock'[n].client /\ sock'[n].held
      /\ sock'[n].closed = early
      /\ DataOf(sock'[n]) = <<>>
      /\ Distinct(conns)' /\ conns' # <<>>
      /\ \A g \in Socks' : InSeq(g, conns') <=> (g \in Socks /\ InSeq(g, conns)) \/ g = n
      /\ ~InSeq(n, clients)
      /\ DOMAIN conn' = DOMAIN conn /\ ConnsGrow
      /\ \A d \in DOMAIN conn : d # c => conn'[d] = conn[d]
      /\ conn'[c].open = conn[c].open /\ conn'[c].packets = conn[c].packets
      /\ early => conn'[c].drops = 1
      /\ \A x \in Contexts : x # context => refs'[x] = refs[x]
      /\ ~early => UNCHANGED <<refs, conn>>
  BY ONLY <1>0, NetAssumption, NetInv, AcceptConnection, NetAcceptIs
<1>3. UNCHANGED <<server, clients, netLost>> /\ netMain' = [at |-> "connection", h |-> n]
  BY <1>0 DEF AcceptConnection
<1>4. /\ TakenOnly(first) /\ first.kind = "accept" /\ first \in NetPending
      /\ netMain.at = "idle" /\ c \in DOMAIN conn /\ c # 0 /\ c \in Nat /\ ~conn[c].client /\ conn[c].drops = 0
      /\ context \in Contexts /\ context # NoContext
      /\ \A g \in Socks : sock[g].conn # c
      /\ \A b \in NetPending' : b.kind = "accept" => b.conn # c
      /\ Regular => /\ \A d \in DOMAIN conn : d # c /\ SameContext(c, d) => d < c /\ ~(conn[d].open \/ conn[d].drops = 0)
                    /\ "data" \notin netLost => \A m \in 1 .. conn[c].packets : HasData(c, m)
  BY <1>0, <1>1, NetAcceptedFirst
<1>5. /\ NetPending' \subseteq NetPending /\ NetPending \subseteq NetPending' \cup {first}
      /\ \A b \in NetPending' : Before(first, b)
      /\ \A a, b \in NetPending' : Before(a, b)' => Before(a, b)
  BY <1>4 DEF TakenOnly
<1>6. Socks \subseteq Socks' /\ \A g \in Socks : sock'[g].conn = sock[g].conn
  BY <1>2
<1>7. /\ \A kind, d : Waits(kind, d)' => Waits(kind, d)
      /\ \A kind, d : Waits(kind, d) => Waits(kind, d)' \/ kind = "accept"
      /\ \A d : HasItem(d)' => HasItem(d)
      /\ \A d, m : HasData(d, m) => HasData(d, m)'
  BY <1>4, NetTakenMeans
<1>8. \A d \in DOMAIN conn : /\ conn[d].drops \in Nat /\ conn[d].packets \in Nat /\ d \in Nat /\ d # 0
                             /\ conn[d].ctx \in Contexts
                             /\ conn'[d].packets = conn[d].packets /\ conn'[d].open = conn[d].open
                             /\ conn'[d].ctx = conn[d].ctx /\ conn'[d].client = conn[d].client
  <2>1. \A d \in DOMAIN conn : /\ conn[d].drops \in Nat /\ conn[d].packets \in Nat /\ d \in Nat /\ d # 0
                               /\ conn[d].ctx \in Contexts
    BY <1>1, NetConnTyped DEF NetTypes
  <2>2. \A d \in DOMAIN conn : conn'[d].packets = conn[d].packets /\ conn'[d].open = conn[d].open
    BY <1>2
  <2> QED
    BY <1>2, <2>1, <2>2 DEF ConnsGrow
<1>9. \A a \in NetPending : ItemOk(a) /\ a.conn \in DOMAIN conn /\ a.conn # 0
  BY <1>1, <1>8 DEF ItemsAgree, ItemOk
<1>10. SocketsAgree'
  <2>1. Distinct(conns)' /\ Distinct(clients)'
    BY <1>1, <1>2, <1>3 DEF SocketsAgree, Distinct
  <2>2. ASSUME NEW g \in Socks'
        PROVE  /\ InSeq(g, conns') <=> ~sock'[g].client /\ sock'[g].held
               /\ InSeq(g, clients') => sock'[g].client
               /\ sock'[g].client => sock'[g].held
               /\ sock'[g].conn # 0 => /\ sock'[g].conn \in DOMAIN conn'
                                       /\ conn'[sock'[g].conn].ctx = sock'[g].ctx
                                       /\ conn'[sock'[g].conn].client = sock'[g].client
               /\ ~sock'[g].client => sock'[g].conn # 0
    <3>1. CASE g = n
      <4>1. conn'[c].ctx = context /\ ~conn'[c].client
        BY <1>0, <1>4, <1>8
      <4>2. sock'[g].client = FALSE /\ conn'[c].client = FALSE
        <5>1. sock'[g].client \in BOOLEAN /\ conn'[c].client \in BOOLEAN
          BY <1>2, <1>4, NetSockTyped, NetConnTyped DEF NetTypes, Socks
        <5> QED
          BY <1>2, <3>1, <4>1, <5>1
      <4> QED
        BY <1>2, <1>3, <1>4, <3>1, <4>1, <4>2
    <3>2. CASE g # n
      <4>1. g \in Socks /\ sock'[g] = sock[g] /\ (InSeq(g, conns') <=> InSeq(g, conns))
        BY <1>2, <3>2
      <4>2. sock[g].conn # 0 => /\ sock[g].conn \in DOMAIN conn
                                /\ conn'[sock[g].conn].ctx = sock[g].ctx
                                /\ conn'[sock[g].conn].client = sock[g].client
        BY <1>1, <1>8, <4>1 DEF SocketsAgree
      <4> QED
        BY <1>1, <1>2, <1>3, <4>1, <4>2 DEF SocketsAgree
    <3> QED
      BY <3>1, <3>2
  <2>3. \A g, f \in Socks' : sock'[g].conn = sock'[f].conn /\ sock'[g].conn # 0 => g = f
    BY <1>1, <1>2, <1>4 DEF SocketsAgree
  <2>4. ASSUME "reused" \notin netLost', NEW d \in DOMAIN conn', conn'[d].client
        PROVE  \E g \in Socks' : sock'[g].conn = d
    <3>1. PICK g \in Socks : sock[g].conn = d
      BY <1>1, <1>2, <1>3, <1>8, <2>4 DEF SocketsAgree
    <3>2. g \in Socks' /\ sock'[g].conn = d
      BY <1>2, <3>1
    <3> QED
      BY <3>2
  <2>5. netMain'.at = "close" => netMain'.h \in Socks' /\ sock'[netMain'.h].held
    BY <1>3
  <2> QED
    BY <2>1, <2>2, <2>3, <2>4, <2>5 DEF SocketsAgree
<1>11. ServerCloses'
  <2>1. "amiss" \notin netLost => ~server.closed /\ server.closes = 0
    BY <1>1, <1>4 DEF ServerCloses
  <2> QED
    BY <1>3, <2>1 DEF ServerCloses
<1>12. ItemsAgree'
  <2>2. ASSUME NEW a \in NetPending' PROVE ItemOk(a)'
    <3>1. a \in NetPending /\ ItemOk(a) /\ a.conn \in DOMAIN conn
      BY <1>5, <1>9
    <3>2. ASSUME a.kind = "accept" PROVE conn'[a.conn].drops = 0 /\ \A g \in Socks' : sock'[g].conn # a.conn
      <4>1. a.conn # c
        BY <1>4, <3>2
      <4> QED
        BY <1>2, <3>1, <3>2, <4>1 DEF ItemOk
    <3> QED
      BY <1>1, <1>2, <1>6, <3>1, <3>2, NetItemOkKept
  <2> QED
    BY <1>1, <1>4, <2>2, NetItemsTaken
<1>13. DropsExplained'
  <2>0. netLost \subseteq netLost'
    BY <1>3
  <2>1. CASE early
    <3>1. conn'[c].drops = conn[c].drops + 1
      BY <1>2, <1>4, <2>1
    <3>2. \A d \in DOMAIN conn : d # c => conn'[d].drops = conn[d].drops
      BY <1>2
    <3> QED
      BY <1>1, <1>2, <1>4, <2>0, <3>1, <3>2, NetDropsMore
  <2>2. CASE ~early
    BY <1>1, <1>2, <2>0, <2>2, NetDropsKept
  <2> QED
    BY <2>1, <2>2
<1>14. ASSUME Regular' PROVE ItemsRegular' /\ SocksRegular' /\ ConnsRegular' /\ DataRegular'
  <2>1. Regular
    BY <1>1, <1>2, <1>3, <1>14, NetRegularBefore
  <2>2. ItemsRegular /\ SocksRegular /\ ConnsRegular /\ RegOrder /\ DataRegular
    BY <1>1, <2>1, NetConnsRegularIs DEF NetInvariant
  <2>3. /\ early <=> Waits("clear", c)
        /\ conn[c].open <=> ~Waits("clear", c)
        /\ Waits("clear", c)' <=> Waits("clear", c)
    <3>1. (server.early = context <=> Waits("clear", c)) /\ (conn[c].open <=> ~Waits("clear", c))
      BY <1>0, <1>1, <2>1, NetAcceptEarly
    <3> QED
      BY <1>0, <1>7, <3>1
  <2>10. \A g \in Socks : Listed(g)' <=> Listed(g)
    BY <1>2, <1>3 DEF Listed
  <2>11. Listed(n)'
    BY <1>2 DEF Listed
  <2>6. ItemsRegular'
    <3>1. ASSUME NEW a \in NetPending' PROVE RegItem(a)'
      <4>1. RegItem(a) /\ a \in NetPending /\ a.conn \in DOMAIN conn
        BY <1>5, <1>9, <2>2 DEF ItemsRegular
      <4>2. Waits("clear", a.conn) => Waits("clear", a.conn)'
        BY <1>7
      <4>3. a.kind = "accept" /\ conn[a.conn].open => conn'[a.conn].open
        BY <1>8, <4>1
      <4> QED
        BY <1>1, <1>2, <1>3, <1>6, <4>1, <4>2, <4>3, NetRegItemKept
    <3>3. ASSUME NEW a \in NetPending' , NEW b \in NetPending', Before(a, b)' PROVE RegPair(a, b)'
      BY <1>1, <1>2, <1>5, <2>2, <3>3, NetRegPairKept DEF ItemsRegular
    <3>4. server'.early # NoContext => \E a \in NetPending' : a.kind = "clear" /\ conn'[a.conn].ctx = server'.early
      <4>1. SUFFICES ASSUME server.early # NoContext
                     PROVE  \E a \in NetPending' : a.kind = "clear" /\ conn'[a.conn].ctx = server.early
        BY <1>3
      <4>2. PICK a \in NetPending : a.kind = "clear" /\ conn[a.conn].ctx = server.early
        BY <2>2, <4>1 DEF ItemsRegular
      <4>3. a \in NetPending' /\ conn'[a.conn].ctx = conn[a.conn].ctx
        BY <1>4, <1>5, <1>8, <1>9, <4>2
      <4> QED
        BY <4>2, <4>3
    <3> QED
      BY <3>1, <3>3, <3>4 DEF ItemsRegular
  <2>7. SocksRegular'
    <3>1. ASSUME NEW g \in Socks, sock[g].conn # 0 PROVE RegSock(g)'
      <4>1. PICK d : d = sock[g].conn
        OBVIOUS
      <4>2. RegSock(g) /\ d # c /\ d \in DOMAIN conn
        BY <1>1, <1>4, <2>2, <3>1, <4>1 DEF SocksRegular, SocketsAgree
      <4>3. sock'[g].conn = d /\ sock'[g].client = sock[g].client /\ sock'[g].closed = sock[g].closed
        BY <1>2, <4>1
      <4>4. (Waits("close", d)' <=> Waits("close", d)) /\ (Waits("clear", d)' <=> Waits("clear", d))
        BY <1>7
      <4>5. HasItem(d)' => HasItem(d)
        BY <1>7
      <4>6. netMain # [at |-> "close", h |-> g]
        BY <1>4
      <4>7. conn'[d].open = conn[d].open /\ conn'[d].drops = conn[d].drops
        BY <1>2, <4>2
      <4> QED
        BY <2>10, <4>1, <4>2, <4>3, <4>4, <4>5, <4>6, <4>7, NetRegSockKept
    <3>4. RegSock(n)'
      <4>1. conn'[c].open \/ Waits("clear", c)'
        BY <1>2, <2>3
      <4>2. conn'[c].drops = IF Waits("clear", c)' THEN 1 ELSE 0
        BY <1>2, <1>4, <2>3
      <4>3. sock'[n].closed <=> Waits("clear", c)'
        BY <1>2, <2>3
      <4> QED
        BY <1>2, <2>11, <4>1, <4>2, <4>3 DEF RegSock
    <3>2. RegMain'
      BY <1>3 DEF RegMain
    <3>3. \A g, h1 \in Socks' : InSeq(g, clients') /\ InSeq(h1, clients') /\ sock'[g].ctx = sock'[h1].ctx
                               /\ sock'[g].ctx # NoContext => g = h1
      BY <1>2, <1>3, <2>2, NetClientsKept
    <3> QED
      BY <1>2, <3>1, <3>2, <3>3, <3>4 DEF SocksRegular
  <2>8. ConnsRegular'
    <3>0. \A g \in Socks' : InSeq(g, clients') => g \in Socks /\ InSeq(g, clients) /\ sock'[g].ctx = sock[g].ctx
      BY <1>2, <1>3
    <3>1. ASSUME NEW d \in DOMAIN conn, ~conn[d].client PROVE RegRefs(d)'
      <4>0. RegRefs(d)
        BY <2>2, <3>1 DEF ConnsRegular
      <4>1. CASE conn[d].ctx # context
        <5>1. conn'[d] = conn[d] /\ refs'[conn[d].ctx] = refs[conn[d].ctx]
          BY <1>0, <1>2, <1>8, <4>1
        <5> QED
          BY <3>0, <4>0, <5>1, NetRegRefsKept
      <4>2. CASE conn[d].ctx = context /\ d # c
        <5>1. ~(conn[d].open \/ conn[d].drops = 0)
          BY <1>0, <1>4, <2>1, <3>1, <4>2 DEF SameContext
        <5>2. conn'[d] = conn[d]
          BY <1>2, <4>2
        <5> QED
          BY <5>1, <5>2 DEF RegRefs
      <4>3. CASE d = c
        <5>1. CASE ~early
          BY <1>2, <3>0, <4>0, <5>1, NetRegRefsKept
        <5>2. CASE early
          BY <1>2, <2>3, <4>3, <5>2 DEF RegRefs
        <5> QED
          BY <5>1, <5>2
      <4> QED
        BY <1>0, <4>1, <4>2, <4>3
    <3>2. ASSUME NEW d \in DOMAIN conn', NEW e \in DOMAIN conn', d < e, SameContext(d, e)'
          PROVE  ~conn'[d].open /\ conn'[d].drops = 1 /\ (HasItem(d)' => \A g \in Socks' : sock'[g].conn # e)
      <4>1. d \in DOMAIN conn /\ e \in DOMAIN conn /\ SameContext(d, e)
        BY <1>2, <1>8, <3>2 DEF SameContext
      <4>2. /\ ~conn[d].open /\ conn[d].drops = 1
            /\ HasItem(d) => \A g \in Socks : sock[g].conn # e
        BY <2>2, <3>2, <4>1 DEF RegOrder
      <4>3. d # c /\ conn'[d] = conn[d]
        BY <1>2, <1>4, <4>1, <4>2
      <4>4. ASSUME HasItem(d)' PROVE e # c
        <5>1. PICK b \in NetPending' : b.conn = d
          BY <4>4 DEF HasItem
        <5>2. RegPair(first, b)
          BY <1>4, <1>5, <2>2, <5>1 DEF ItemsRegular
        <5>3. SameContext(c, d) => c <= d
          BY <1>0, <5>1, <5>2 DEF RegPair
        <5>4. e = c => SameContext(c, d)
          BY <4>1 DEF SameContext
        <5> QED
          BY <1>8, <3>2, <4>1, <5>3, <5>4
      <4> QED
        BY <1>2, <1>7, <4>2, <4>3, <4>4
    <3>4. (\A d \in DOMAIN conn : ~conn[d].client => RegRefs(d))'
      BY <1>2, <1>8, <3>1
    <3> QED
      BY <3>2, <3>4 DEF ConnsRegular
  <2>9. DataRegular'
    <3>1. ASSUME NEW g \in Socks PROVE RegData(g)'
      <4>1. PICK d : d = sock[g].conn
        OBVIOUS
      <4>2. RegData(g) /\ (d = 0 \/ d \in DOMAIN conn)
        BY <1>1, <2>2, <4>1 DEF SocketsAgree, DataRegular
      <4>4. Len(DataOf(sock[g])) \in Nat /\ (d # 0 => conn[d].packets \in Nat /\ conn'[d].packets = conn[d].packets)
        BY <1>1, <1>8, <4>2, NetDataTyped DEF NetTypes, Socks
      <4>6. DataOf(sock'[g]) = DataOf(sock[g]) /\ sock'[g].conn = d
        BY <1>2, <4>1
      <4> QED
        BY <1>3, <1>5, <1>7, <2>10, <4>1, <4>2, <4>4, <4>6, NetRegDataKept
    <3>3. RegData(n)'
      <4>1. DOMAIN <<>> = {} /\ Len(<<>>) = 0
        OBVIOUS
      <4>2. "data" \notin netLost => \A m \in 1 .. conn'[c].packets : HasData(c, m)'
        BY <1>2, <1>4, <1>7, <2>1
      <4>3. "data" \notin netLost' => \A m \in Len(DataOf(sock'[n])) + 1 .. conn'[c].packets : HasData(c, m)'
        BY <1>2, <1>3, <4>1, <4>2
      <4> QED
        BY <1>2, <1>4, <4>1, <4>3 DEF RegData
    <3>2. "data" \notin netLost' =>
            \A a \in NetPending' : a.kind = "accept" => \A m \in 1 .. conn'[a.conn].packets : HasData(a.conn, m)'
      BY <1>3, <1>5, <1>7, <1>8, <1>9, <2>2 DEF DataRegular
    <3> QED
      BY <1>2, <3>1, <3>2, <3>3 DEF DataRegular
  <2> QED
    BY <2>6, <2>7, <2>8, <2>9
<1> QED
  BY <1>2, <1>10, <1>11, <1>12, <1>13, <1>14 DEF NetInv, NetInvariant

-----------------------------------------------------------------------------
(***************************************************************************)
(* A socket is released.                                                   *)
(***************************************************************************)
\* In a regular state its peer has closed, and its context was not dropped before.
LEMMA NetReleased ==
  ASSUME NetInv, Regular, netMain.at = "close", NEW h, h = netMain.h, NEW c, c = sock[h].conn
  PROVE  /\ c \in DOMAIN conn /\ c # 0 /\ conn[c].drops = 0 /\ ~conn[c].open /\ ~HasItem(c) /\ Listed(h)
         /\ ~sock[h].client => ~sock[h].closed
<1>1. SocketsAgree /\ SocksRegular
  BY DEF NetInv, NetInvariant
<1>2. h \in Socks /\ c # 0 /\ ~conn[c].open /\ ~HasItem(c) /\ Listed(h)
  BY <1>1 DEF SocketsAgree, SocksRegular, RegMain
<1>3. c \in DOMAIN conn /\ RegSock(h) /\ ~Waits("clear", c)
  BY <1>1, <1>2 DEF SocketsAgree, SocksRegular, Waits, HasItem
<1> QED
  BY <1>2, <1>3 DEF RegSock

LEMMA NetReleaseCloseIs ==
  ASSUME NetAssumption, NetInv, ReleaseClose, NEW h, h = netMain.h, NEW c, c = sock[h].conn,
         NEW context, context = sock[h].ctx
  PROVE  /\ NetTypes' /\ h \in Socks /\ c \in DOMAIN conn /\ conn[c].ctx = context /\ ~conn[c].client
         /\ Socks' = Socks
         /\ \A g \in Socks : /\ sock'[g].conn = sock[g].conn /\ sock'[g].ctx = sock[g].ctx
                             /\ sock'[g].client = sock[g].client /\ sock'[g].closed = sock[g].closed
                             /\ DataOf(sock'[g]) = DataOf(sock[g])
         /\ ~sock'[h].held /\ \A g \in Socks : g # h => sock'[g].held = sock[g].held
         /\ Distinct(conns)' /\ \A g \in Socks : InSeq(g, conns') <=> InSeq(g, conns) /\ g # h
         /\ conns # <<>>
         /\ server'.early = server.early /\ server'.closed = server.closed
         /\ server'.closes = IF server.closed /\ conns' = <<>> THEN server.closes + 1 ELSE server.closes
         /\ DOMAIN conn' = DOMAIN conn /\ ConnsGrow
         /\ \A d \in DOMAIN conn : d # c => conn'[d] = conn[d]
         /\ conn'[c].open = conn[c].open /\ conn'[c].packets = conn[c].packets
         /\ ~sock[h].closed => conn'[c].drops = conn[c].drops + 1
         /\ \A x \in Contexts : x # context => refs'[x] = refs[x]
         /\ sock[h].closed => UNCHANGED <<refs, conn>>
<1>1. NetTypes /\ SocketsAgree
  BY DEF NetInv, NetInvariant
<1>2. h \in Socks /\ sock[h].held /\ ~sock[h].client
  BY <1>1 DEF SocketsAgree, ReleaseClose
<1>3. c \in DOMAIN conn /\ conn[c].ctx = context /\ ~conn[c].client /\ InSeq(h, conns)
  <2>1. conn[c].client = sock[h].client /\ c \in DOMAIN conn /\ conn[c].ctx = context /\ InSeq(h, conns)
    BY <1>1, <1>2 DEF SocketsAgree
  <2> QED
    BY <1>2, <2>1
<1>4. sock[h] \in SockRecs
  BY <1>1, <1>2, NetSockTyped DEF NetTypes, Socks
<1>5. PICK s : s = [sock[h] EXCEPT !.held = FALSE]
  OBVIOUS
<1>6. /\ s \in SockRecs /\ s.conn = sock[h].conn /\ s.ctx = sock[h].ctx /\ s.client = sock[h].client /\ s.closed = sock[h].closed
      /\ ~s.held /\ s.buf = sock[h].buf /\ s.given = sock[h].given
  BY ONLY <1>4, <1>5, NetSockFreed
<1>7. sock' = [sock EXCEPT ![h] = s] /\ conns' = RemoveFirst(conns, h) /\ clients' = clients
      /\ server' = (IF server.closed /\ conns' = <<>> THEN [server EXCEPT !.closes = @ + 1] ELSE server)
  BY <1>5 DEF ReleaseClose, RemoveConnection
<1>8. /\ sock' \in Seq(SockRecs) /\ DOMAIN sock' = DOMAIN sock /\ sock'[h] = s
      /\ \A g \in Socks : g # h => sock'[g] = sock[g]
  BY <1>1, <1>2, <1>6, <1>7, NetSockIs DEF NetTypes
<1>9. Socks' = Socks
  BY <1>8 DEF Socks
<1>10. conns' \in Seq(Socks) /\ Distinct(conns)' /\ \A g : InSeq(g, conns') <=> InSeq(g, conns) /\ g # h
  <2>1. PICK new : new = conns'
    OBVIOUS
  <2>2. Distinct(conns) /\ conns \in Seq(Socks) /\ new = RemoveFirst(conns, h)
    BY <1>1, <1>7, <2>1 DEF SocketsAgree, NetTypes
  <2>3. new \in Seq(Socks) /\ Distinct(new) /\ \A g : InSeq(g, new) <=> InSeq(g, conns) /\ g # h
    BY ONLY <2>2, NetRemoves
  <2>4. Distinct(conns)'
    BY <2>1, <2>3 DEF Distinct
  <2> QED
    BY <2>1, <2>3, <2>4
<1>11. conns # <<>>
  BY <1>3 DEF InSeq
<1>12. /\ server' \in [listening : BOOLEAN, closed : BOOLEAN, early : Contexts \cup {NoContext}, closes : Nat,
                       collected : BOOLEAN]
       /\ server'.early = server.early /\ server'.closed = server.closed
       /\ server'.closes = IF server.closed /\ conns' = <<>> THEN server.closes + 1 ELSE server.closes
  <2>1. server \in [listening : BOOLEAN, closed : BOOLEAN, early : Contexts \cup {NoContext}, closes : Nat,
                    collected : BOOLEAN]
    BY <1>1 DEF NetTypes
  <2>2. CASE server.closed /\ conns' = <<>>
    <3>1. server' = [server EXCEPT !.closes = server.closes + 1] /\ server.closes \in Nat
      BY <1>7, <2>1, <2>2
    <3>2. PICK n : n = server.closes + 1
      OBVIOUS
    <3>3. n \in Nat /\ server' = [server EXCEPT !.closes = n]
      BY <3>1, <3>2
    <3>4. /\ server' \in [listening : BOOLEAN, closed : BOOLEAN, early : Contexts \cup {NoContext}, closes : Nat,
                           collected : BOOLEAN]
          /\ server'.early = server.early /\ server'.closed = server.closed /\ server'.closes = n
      BY ONLY <2>1, <3>3
    <3> QED
      BY <2>2, <3>2, <3>4
  <2>3. CASE ~(server.closed /\ conns' = <<>>)
    BY <1>7, <2>1, <2>3
  <2> QED
    BY <2>2, <2>3
<1>13. /\ conn' \in Seq(ConnRecs) /\ refs' \in [Contexts -> Nat]
       /\ DOMAIN conn' = DOMAIN conn /\ ConnsGrow
       /\ \A d \in DOMAIN conn : d # c => conn'[d] = conn[d]
       /\ conn'[c].open = conn[c].open /\ conn'[c].packets = conn[c].packets
       /\ ~sock[h].closed => conn'[c].drops = conn[c].drops + 1
       /\ \A x \in Contexts : x # context => refs'[x] = refs[x]
       /\ sock[h].closed => UNCHANGED <<refs, conn>>
  <2>1. CASE ~sock[h].closed
    <3>1. Drop(context, c)
      BY <2>1 DEF ReleaseClose, DropUnlessClosed
    <3>2. /\ refs' \in [Contexts -> Nat] /\ conn' \in Seq(ConnRecs) /\ DOMAIN conn' = DOMAIN conn
          /\ \A x \in Contexts : x # context => refs'[x] = refs[x]
          /\ conn'[c].drops = conn[c].drops + 1
          /\ conn'[c].open = conn[c].open /\ conn'[c].packets = conn[c].packets
          /\ \A e \in DOMAIN conn : e # c => conn'[e] = conn[e]
          /\ ConnsGrow
      BY ONLY <1>1, <1>3, <3>1, NetDrops
    <3> QED
      BY <2>1, <3>2
  <2>2. CASE sock[h].closed
    <3>1. UNCHANGED <<refs, conn>>
      BY <2>2 DEF ReleaseClose, DropUnlessClosed
    <3>2. ConnsGrow
      BY <1>1, <3>1, NetSameConns
    <3> QED
      BY <1>1, <2>2, <3>1, <3>2 DEF NetTypes
  <2> QED
    BY <2>1, <2>2
<1>14. NetTypes'
  <2>1. netMain' = NetIdle /\ netRing' = netRing
    BY DEF ReleaseClose
  <2> QED
    BY <1>1, <1>7, <1>8, <1>9, <1>10, <1>12, <1>13, <2>1 DEF NetTypes, NetIdle
<1>15. \A g \in Socks : /\ sock'[g].conn = sock[g].conn /\ sock'[g].ctx = sock[g].ctx
                        /\ sock'[g].client = sock[g].client /\ sock'[g].closed = sock[g].closed
                        /\ DataOf(sock'[g]) = DataOf(sock[g])
  BY <1>6, <1>8 DEF DataOf
<1>16. ~sock'[h].held /\ \A g \in Socks : g # h => sock'[g].held = sock[g].held
  BY <1>6, <1>8
<1> QED
  BY <1>2, <1>3, <1>9, <1>10, <1>11, <1>12, <1>13, <1>14, <1>15, <1>16

LEMMA NetReleaseClose ==
  ASSUME NetAssumption, NetInv, ReleaseClose
  PROVE  NetInv'
<1>0. PICK h, c, context : h = netMain.h /\ c = sock[h].conn /\ context = sock[h].ctx
  OBVIOUS
<1>1. NetTypes /\ NetInvariant /\ SocketsAgree /\ ServerCloses /\ ItemsAgree /\ DropsExplained
  BY DEF NetInv, NetInvariant
<1>2. /\ NetTypes' /\ h \in Socks /\ c \in DOMAIN conn /\ conn[c].ctx = context /\ ~conn[c].client
      /\ Socks' = Socks
      /\ \A g \in Socks : /\ sock'[g].conn = sock[g].conn /\ sock'[g].ctx = sock[g].ctx
                          /\ sock'[g].client = sock[g].client /\ sock'[g].closed = sock[g].closed
                          /\ DataOf(sock'[g]) = DataOf(sock[g])
      /\ ~sock'[h].held /\ \A g \in Socks : g # h => sock'[g].held = sock[g].held
      /\ Distinct(conns)' /\ \A g \in Socks : InSeq(g, conns') <=> InSeq(g, conns) /\ g # h
      /\ conns # <<>>
      /\ server'.early = server.early /\ server'.closed = server.closed
      /\ server'.closes = IF server.closed /\ conns' = <<>> THEN server.closes + 1 ELSE server.closes
      /\ DOMAIN conn' = DOMAIN conn /\ ConnsGrow
      /\ \A d \in DOMAIN conn : d # c => conn'[d] = conn[d]
      /\ conn'[c].open = conn[c].open /\ conn'[c].packets = conn[c].packets
      /\ ~sock[h].closed => conn'[c].drops = conn[c].drops + 1
      /\ \A x \in Contexts : x # context => refs'[x] = refs[x]
      /\ sock[h].closed => UNCHANGED <<refs, conn>>
  BY ONLY <1>0, NetAssumption, NetInv, ReleaseClose, NetReleaseCloseIs
<1>3. UNCHANGED <<clients, netRing, netLost>> /\ netMain' = NetIdle /\ netMain.at = "close" /\ ~sock[h].client
  BY <1>0 DEF ReleaseClose
<1>4. netMain'.at = "idle"
  BY <1>3 DEF NetIdle
<1>5. /\ NetPending' = NetPending /\ \A a, b \in NetPending' : Before(a, b)' => Before(a, b)
      /\ \A kind, d : Waits(kind, d)' <=> Waits(kind, d)
      /\ \A d : HasItem(d)' <=> HasItem(d)
      /\ \A d, m : HasData(d, m)' <=> HasData(d, m)
  BY <1>3, NetSameRing, NetRingKept
<1>6. \A g \in Socks : g # h => (Listed(g)' <=> Listed(g))
  BY <1>2, <1>3 DEF Listed
<1>7. ~Listed(h)'
  BY <1>2, <1>3 DEF Listed
<1>8. \A d \in DOMAIN conn : /\ conn[d].drops \in Nat /\ conn[d].packets \in Nat /\ d \in Nat /\ d # 0
                             /\ conn[d].ctx \in Contexts
                             /\ conn'[d].packets = conn[d].packets /\ conn'[d].open = conn[d].open
                             /\ conn'[d].ctx = conn[d].ctx /\ conn'[d].client = conn[d].client
  <2>1. \A d \in DOMAIN conn : /\ conn[d].drops \in Nat /\ conn[d].packets \in Nat /\ d \in Nat /\ d # 0
                               /\ conn[d].ctx \in Contexts
    BY <1>1, NetConnTyped DEF NetTypes
  <2>2. \A d \in DOMAIN conn : conn'[d].packets = conn[d].packets /\ conn'[d].open = conn[d].open
    BY <1>2
  <2> QED
    BY <1>2, <2>1, <2>2 DEF ConnsGrow
<1>9. \A a \in NetPending : ItemOk(a) /\ a.conn \in DOMAIN conn /\ a.conn # 0
  BY <1>1, <1>8 DEF ItemsAgree, ItemOk
<1>10. SocketsAgree'
  <2>1. Distinct(conns)' /\ Distinct(clients)'
    BY <1>1, <1>2, <1>3 DEF SocketsAgree, Distinct
  <2>2. ASSUME NEW g \in Socks'
        PROVE  /\ InSeq(g, conns') <=> ~sock'[g].client /\ sock'[g].held
               /\ InSeq(g, clients') => sock'[g].client
               /\ sock'[g].client => sock'[g].held
               /\ sock'[g].conn # 0 => /\ sock'[g].conn \in DOMAIN conn'
                                       /\ conn'[sock'[g].conn].ctx = sock'[g].ctx
                                       /\ conn'[sock'[g].conn].client = sock'[g].client
               /\ ~sock'[g].client => sock'[g].conn # 0
    <3>1. g \in Socks
      BY <1>2
    <3>2. sock[g].conn # 0 => /\ sock[g].conn \in DOMAIN conn
                              /\ conn'[sock[g].conn].ctx = sock[g].ctx
                              /\ conn'[sock[g].conn].client = sock[g].client
      BY <1>1, <1>8, <3>1 DEF SocketsAgree
    <3>3. /\ InSeq(g, conns') <=> ~sock'[g].client /\ sock'[g].held
          /\ sock'[g].client => sock'[g].held
      <4>1. CASE g = h
        BY <1>2, <1>3, <4>1
      <4>2. CASE g # h
        BY <1>1, <1>2, <3>1, <4>2 DEF SocketsAgree
      <4> QED
        BY <4>1, <4>2
    <3> QED
      BY <1>1, <1>2, <1>3, <3>1, <3>2, <3>3 DEF SocketsAgree
  <2>3. \A g, f \in Socks' : sock'[g].conn = sock'[f].conn /\ sock'[g].conn # 0 => g = f
    BY <1>1, <1>2 DEF SocketsAgree
  <2>4. ASSUME "reused" \notin netLost', NEW d \in DOMAIN conn', conn'[d].client
        PROVE  \E g \in Socks' : sock'[g].conn = d
    <3>1. PICK g \in Socks : sock[g].conn = d
      BY <1>1, <1>2, <1>3, <1>8, <2>4 DEF SocketsAgree
    <3>2. g \in Socks' /\ sock'[g].conn = d
      BY <1>2, <3>1
    <3> QED
      BY <3>2
  <2>5. netMain'.at = "close" => netMain'.h \in Socks' /\ sock'[netMain'.h].held
    BY <1>4
  <2> QED
    BY <2>1, <2>2, <2>3, <2>4, <2>5 DEF SocketsAgree
<1>11. ServerCloses'
  BY <1>1, <1>2, <1>3, <1>5 DEF ServerCloses
<1>12. ItemsAgree'
  <2>2. ASSUME NEW a \in NetPending PROVE ItemOk(a)'
    <3>2. ASSUME a.kind = "accept" PROVE conn'[a.conn].drops = 0 /\ \A g \in Socks' : sock'[g].conn # a.conn
      <4>1. a.conn # c /\ conn[a.conn].drops = 0 /\ \A g \in Socks : sock[g].conn # a.conn
        BY <1>0, <1>2, <1>9, <3>2 DEF ItemOk
      <4> QED
        BY <1>2, <1>9, <4>1
    <3> QED
      BY <1>1, <1>2, <1>9, <3>2, NetItemOkKept
  <2>3. \A a, b \in NetPending' : Before(a, b)' => PairOk(a, b)
    BY <1>1, <1>5 DEF ItemsAgree
  <2> QED
    BY <1>5, <2>2, <2>3 DEF ItemsAgree
<1>13. DropsExplained'
  <2>0. netLost \subseteq netLost'
    BY <1>3
  <2>1. CASE ~sock[h].closed
    <3>1. Regular => conn[c].drops = 0
      BY <1>0, <1>3, NetReleased
    <3>2. \A d \in DOMAIN conn : d # c => conn'[d].drops = conn[d].drops
      BY <1>2
    <3>3. conn'[c].drops = conn[c].drops + 1
      BY <1>2, <2>1
    <3> QED
      BY <1>1, <1>2, <2>0, <3>1, <3>2, <3>3, NetDropsMore
  <2>2. CASE sock[h].closed
    BY <1>1, <1>2, <2>0, <2>2, NetDropsKept
  <2> QED
    BY <2>1, <2>2
<1>14. ASSUME Regular' PROVE ItemsRegular' /\ SocksRegular' /\ ConnsRegular' /\ DataRegular'
  <2>1. Regular
    BY <1>1, <1>2, <1>3, <1>14, NetRegularBefore
  <2>2. ItemsRegular /\ SocksRegular /\ ConnsRegular /\ RegOrder /\ DataRegular
    BY <1>1, <2>1, NetConnsRegularIs DEF NetInvariant
  <2>3. /\ conn[c].drops = 0 /\ conn'[c].drops = 1 /\ ~conn[c].open /\ ~HasItem(c) /\ ~sock[h].closed
    BY <1>0, <1>2, <1>3, <2>1, NetReleased
  <2>6. ItemsRegular'
    <3>1. ASSUME NEW a \in NetPending PROVE RegItem(a)'
      <4>1. RegItem(a) /\ a \in NetPending'
        BY <1>5, <2>2 DEF ItemsRegular
      <4>2. a.kind = "accept" /\ conn[a.conn].open => conn'[a.conn].open
        BY <1>8, <1>9
      <4> QED
        BY <1>1, <1>2, <1>5, <4>1, <4>2, NetRegItemKept
    <3>3. ASSUME NEW a \in NetPending' , NEW b \in NetPending', Before(a, b)' PROVE RegPair(a, b)'
      BY <1>1, <1>2, <1>5, <2>2, <3>3, NetRegPairKept DEF ItemsRegular
    <3>4. server'.early # NoContext => \E a \in NetPending' : a.kind = "clear" /\ conn'[a.conn].ctx = server'.early
      <4>1. SUFFICES ASSUME server.early # NoContext
                     PROVE  \E a \in NetPending' : a.kind = "clear" /\ conn'[a.conn].ctx = server.early
        BY <1>2
      <4>2. PICK a \in NetPending : a.kind = "clear" /\ conn[a.conn].ctx = server.early
        BY <2>2, <4>1 DEF ItemsRegular
      <4>3. a \in NetPending' /\ conn'[a.conn].ctx = conn[a.conn].ctx
        BY <1>5, <1>8, <1>9, <4>2
      <4> QED
        BY <4>2, <4>3
    <3> QED
      BY <1>5, <3>1, <3>3, <3>4 DEF ItemsRegular
  <2>7. SocksRegular'
    <3>1. ASSUME NEW g \in Socks, sock[g].conn # 0 PROVE RegSock(g)'
      <4>1. PICK d : d = sock[g].conn
        OBVIOUS
      <4>2. RegSock(g) /\ d \in DOMAIN conn
        BY <1>1, <2>2, <3>1, <4>1 DEF SocksRegular, SocketsAgree
      <4>3. sock'[g].conn = d /\ sock'[g].client = sock[g].client /\ sock'[g].closed = sock[g].closed
        BY <1>2, <4>1
      <4>4. CASE g # h
        <5>1. d # c
          BY <1>0, <1>1, <1>2, <3>1, <4>1, <4>4 DEF SocketsAgree
        <5>2. netMain # [at |-> "close", h |-> g]
          BY <1>0, <4>4
        <5>3. conn'[d].open = conn[d].open /\ conn'[d].drops = conn[d].drops
          BY <1>2, <4>2, <5>1
        <5> QED
          BY <1>5, <1>6, <4>1, <4>2, <4>3, <4>4, <5>2, <5>3, NetRegSockKept
      <4>5. CASE g = h
        BY <1>0, <1>2, <1>5, <1>7, <2>3, <4>5 DEF RegSock
      <4> QED
        BY <4>4, <4>5
    <3>2. RegMain'
      BY <1>4 DEF RegMain
    <3>3. \A g, h1 \in Socks' : InSeq(g, clients') /\ InSeq(h1, clients') /\ sock'[g].ctx = sock'[h1].ctx
                               /\ sock'[g].ctx # NoContext => g = h1
      BY <1>2, <1>3, <2>2, NetClientsKept
    <3> QED
      BY <1>2, <3>1, <3>2, <3>3 DEF SocksRegular
  <2>8. ConnsRegular'
    <3>1. ASSUME NEW d \in DOMAIN conn, ~conn[d].client PROVE RegRefs(d)'
      <4>0. RegRefs(d)
        BY <2>2, <3>1 DEF ConnsRegular
      <4>1. CASE conn[d].ctx # context
        <5>1. conn'[d] = conn[d] /\ refs'[conn[d].ctx] = refs[conn[d].ctx]
          BY <1>2, <1>8, <4>1
        <5> QED
          BY <1>2, <1>3, <4>0, <5>1, NetRegRefsKept
      <4>2. CASE conn[d].ctx = context /\ d # c
        <5>1. ~(conn[d].open \/ conn[d].drops = 0)
          <6>1. SameContext(c, d) /\ SameContext(d, c)
            BY <1>2, <3>1, <4>2 DEF SameContext
          <6>2. ~(c < d)
            BY <1>2, <2>2, <2>3, <6>1 DEF RegOrder
          <6>3. d < c
            BY <1>2, <1>8, <4>2, <6>2
          <6> QED
            BY <1>2, <2>2, <6>1, <6>3 DEF RegOrder
        <5>2. conn'[d] = conn[d]
          BY <1>2, <4>2
        <5> QED
          BY <5>1, <5>2 DEF RegRefs
      <4>3. CASE d = c
        BY <1>2, <2>3, <4>3 DEF RegRefs
      <4> QED
        BY <4>1, <4>2, <4>3
    <3>2. RegOrder'
      <4>1. \A d, e \in DOMAIN conn : d < e /\ SameContext(d, e) => conn'[d].drops = conn[d].drops
        <5>1. \A e \in DOMAIN conn : c < e => ~SameContext(c, e)
          BY <1>2, <2>2, <2>3 DEF RegOrder
        <5> QED
          BY <1>2, <5>1
      <4> QED
        BY <1>2, <1>5, <2>2, <4>1, NetOrderKept
    <3>4. (\A d \in DOMAIN conn : ~conn[d].client => RegRefs(d))'
      BY <1>2, <1>8, <3>1
    <3> QED
      BY <3>2, <3>4 DEF ConnsRegular, RegOrder
  <2>9. DataRegular'
    <3>1. ASSUME NEW g \in Socks PROVE RegData(g)'
      <4>1. PICK d : d = sock[g].conn
        OBVIOUS
      <4>2. RegData(g) /\ (d = 0 \/ d \in DOMAIN conn)
        BY <1>1, <2>2, <4>1 DEF SocketsAgree, DataRegular
      <4>4. Len(DataOf(sock[g])) \in Nat /\ (d # 0 => conn[d].packets \in Nat /\ conn'[d].packets = conn[d].packets)
        BY <1>1, <1>8, <4>2, NetDataTyped DEF NetTypes, Socks
      <4>5. Listed(g)' => Listed(g)
        BY <1>6, <1>7
      <4>6. DataOf(sock'[g]) = DataOf(sock[g]) /\ sock'[g].conn = d
        BY <1>2, <4>1
      <4> QED
        BY <1>3, <1>5, <4>1, <4>2, <4>4, <4>5, <4>6, NetRegDataKept
    <3>2. "data" \notin netLost' =>
            \A a \in NetPending' : a.kind = "accept" => \A m \in 1 .. conn'[a.conn].packets : HasData(a.conn, m)'
      BY <1>3, <1>5, <1>8, <1>9, <2>2 DEF DataRegular
    <3> QED
      BY <1>2, <3>1, <3>2 DEF DataRegular
  <2> QED
    BY <2>6, <2>7, <2>8, <2>9
<1> QED
  BY <1>2, <1>10, <1>11, <1>12, <1>13, <1>14 DEF NetInv, NetInvariant

LEMMA NetReleaseClientIs ==
  ASSUME NetAssumption, NetInv, ReleaseCloseClient, NEW h, h = netMain.h, NEW c, c = sock[h].conn,
         NEW context, context = sock[h].ctx
  PROVE  /\ NetTypes' /\ h \in Socks
         /\ c # 0 => c \in DOMAIN conn /\ conn[c].ctx = context /\ conn[c].client
         /\ Distinct(clients)' /\ \A g \in Socks : InSeq(g, clients') <=> InSeq(g, clients) /\ g # h
         /\ DOMAIN conn' = DOMAIN conn /\ ConnsGrow
         /\ \A d \in DOMAIN conn : d # c => conn'[d] = conn[d]
         /\ c # 0 => /\ conn'[c].open = conn[c].open /\ conn'[c].packets = conn[c].packets
                     /\ conn'[c].drops = conn[c].drops + 1
         /\ \A x \in Contexts : x # context => refs'[x] = refs[x]
<1>1. NetTypes /\ SocketsAgree
  BY DEF NetInv, NetInvariant
<1>2. h \in Socks /\ sock[h].client
  BY <1>1 DEF SocketsAgree, ReleaseCloseClient
<1>3. c # 0 => c \in DOMAIN conn /\ conn[c].ctx = context /\ conn[c].client
  BY <1>1, <1>2 DEF SocketsAgree
<1>4. clients' \in Seq(Socks) /\ Distinct(clients)' /\ \A g : InSeq(g, clients') <=> InSeq(g, clients) /\ g # h
  <2>1. PICK new : new = clients'
    OBVIOUS
  <2>2. Distinct(clients) /\ clients \in Seq(Socks) /\ new = RemoveFirst(clients, h)
    BY <1>1, <2>1 DEF SocketsAgree, NetTypes, ReleaseCloseClient
  <2>3. new \in Seq(Socks) /\ Distinct(new) /\ \A g : InSeq(g, new) <=> InSeq(g, clients) /\ g # h
    BY ONLY <2>2, NetRemoves
  <2>4. Distinct(clients)'
    BY <2>1, <2>3 DEF Distinct
  <2> QED
    BY <2>1, <2>3, <2>4
<1>5. Drop(context, c)
  BY DEF ReleaseCloseClient
<1>6. /\ conn' \in Seq(ConnRecs) /\ refs' \in [Contexts -> Nat]
      /\ DOMAIN conn' = DOMAIN conn /\ ConnsGrow
      /\ \A d \in DOMAIN conn : d # c => conn'[d] = conn[d]
      /\ c # 0 => /\ conn'[c].open = conn[c].open /\ conn'[c].packets = conn[c].packets
                  /\ conn'[c].drops = conn[c].drops + 1
      /\ \A x \in Contexts : x # context => refs'[x] = refs[x]
  <2>1. CASE c # 0
    <3>1. c \in DOMAIN conn
      BY <1>3, <2>1
    <3>2. /\ refs' \in [Contexts -> Nat] /\ conn' \in Seq(ConnRecs) /\ DOMAIN conn' = DOMAIN conn
          /\ \A x \in Contexts : x # context => refs'[x] = refs[x]
          /\ conn'[c].drops = conn[c].drops + 1
          /\ conn'[c].open = conn[c].open /\ conn'[c].packets = conn[c].packets
          /\ \A e \in DOMAIN conn : e # c => conn'[e] = conn[e]
          /\ ConnsGrow
      BY ONLY <1>1, <1>5, <3>1, NetDrops
    <3> QED
      BY <2>1, <3>2
  <2>2. CASE c = 0
    <3>1. conn' = conn /\ refs' = Unref(context) /\ refs \in [Contexts -> Nat]
      BY <1>1, <1>5, <2>2 DEF Drop, NetTypes
    <3>2. ConnsGrow
      BY <1>1, <3>1, NetSameConns
    <3>3. refs' \in [Contexts -> Nat] /\ \A x \in Contexts : x # context => refs'[x] = refs[x]
      BY <3>1, NetUnref
    <3> QED
      BY <1>1, <2>2, <3>1, <3>2, <3>3 DEF NetTypes
  <2> QED
    BY <2>1, <2>2
<1>7. NetTypes'
  <2>1. UNCHANGED <<server, conns, sock, netRing>> /\ netMain' = NetIdle
    BY DEF ReleaseCloseClient
  <2> QED
    BY <1>1, <1>4, <1>6, <2>1 DEF NetTypes, NetIdle, Socks
<1> QED
  BY <1>2, <1>3, <1>4, <1>6, <1>7

LEMMA NetReleaseClient ==
  ASSUME NetAssumption, NetInv, ReleaseCloseClient
  PROVE  NetInv'
<1>0. PICK h, c, context : h = netMain.h /\ c = sock[h].conn /\ context = sock[h].ctx
  OBVIOUS
<1>1. NetTypes /\ NetInvariant /\ SocketsAgree /\ ServerCloses /\ ItemsAgree /\ DropsExplained
  BY DEF NetInv, NetInvariant
<1>2. /\ NetTypes' /\ h \in Socks
      /\ c # 0 => c \in DOMAIN conn /\ conn[c].ctx = context /\ conn[c].client
      /\ Distinct(clients)' /\ \A g \in Socks : InSeq(g, clients') <=> InSeq(g, clients) /\ g # h
      /\ DOMAIN conn' = DOMAIN conn /\ ConnsGrow
      /\ \A d \in DOMAIN conn : d # c => conn'[d] = conn[d]
      /\ c # 0 => /\ conn'[c].open = conn[c].open /\ conn'[c].packets = conn[c].packets
                  /\ conn'[c].drops = conn[c].drops + 1
      /\ \A x \in Contexts : x # context => refs'[x] = refs[x]
  BY ONLY <1>0, NetAssumption, NetInv, ReleaseCloseClient, NetReleaseClientIs
<1>3. UNCHANGED <<server, conns, sock, netRing, netLost>> /\ netMain' = NetIdle /\ netMain.at = "close" /\ sock[h].client
  BY <1>0 DEF ReleaseCloseClient
<1>4. netMain'.at = "idle" /\ Socks' = Socks
  BY <1>3 DEF NetIdle, Socks
<1>5. /\ NetPending' = NetPending /\ \A a, b \in NetPending' : Before(a, b)' => Before(a, b)
      /\ \A kind, d : Waits(kind, d)' <=> Waits(kind, d)
      /\ \A d : HasItem(d)' <=> HasItem(d)
      /\ \A d, m : HasData(d, m)' <=> HasData(d, m)
  BY <1>3, NetSameRing, NetRingKept
<1>6. \A g \in Socks : g # h => (Listed(g)' <=> Listed(g))
  BY <1>2, <1>3 DEF Listed
<1>7. ~Listed(h)'
  BY <1>2, <1>3 DEF Listed
<1>8. \A d \in DOMAIN conn : /\ conn[d].drops \in Nat /\ conn[d].packets \in Nat /\ d \in Nat /\ d # 0
                             /\ conn[d].ctx \in Contexts
                             /\ conn'[d].packets = conn[d].packets /\ conn'[d].open = conn[d].open
                             /\ conn'[d].ctx = conn[d].ctx /\ conn'[d].client = conn[d].client
  <2>1. \A d \in DOMAIN conn : /\ conn[d].drops \in Nat /\ conn[d].packets \in Nat /\ d \in Nat /\ d # 0
                               /\ conn[d].ctx \in Contexts
    BY <1>1, NetConnTyped DEF NetTypes
  <2>2. \A d \in DOMAIN conn : conn'[d].packets = conn[d].packets /\ conn'[d].open = conn[d].open
    BY <1>2, <2>1
  <2> QED
    BY <1>2, <2>1, <2>2 DEF ConnsGrow
<1>9. \A a \in NetPending : ItemOk(a) /\ a.conn \in DOMAIN conn /\ a.conn # 0
  BY <1>1, <1>8 DEF ItemsAgree, ItemOk
<1>10. SocketsAgree'
  <2>1. Distinct(conns)' /\ Distinct(clients)'
    BY <1>1, <1>2, <1>3 DEF SocketsAgree, Distinct
  <2>2. ASSUME NEW g \in Socks'
        PROVE  /\ InSeq(g, conns') <=> ~sock'[g].client /\ sock'[g].held
               /\ InSeq(g, clients') => sock'[g].client
               /\ sock'[g].client => sock'[g].held
               /\ sock'[g].conn # 0 => /\ sock'[g].conn \in DOMAIN conn'
                                       /\ conn'[sock'[g].conn].ctx = sock'[g].ctx
                                       /\ conn'[sock'[g].conn].client = sock'[g].client
               /\ ~sock'[g].client => sock'[g].conn # 0
    <3>2. sock[g].conn # 0 => /\ sock[g].conn \in DOMAIN conn
                              /\ conn'[sock[g].conn].ctx = sock[g].ctx
                              /\ conn'[sock[g].conn].client = sock[g].client
      BY <1>1, <1>4, <1>8 DEF SocketsAgree
    <3> QED
      BY <1>1, <1>2, <1>3, <1>4, <3>2 DEF SocketsAgree
  <2>3. \A g, f \in Socks' : sock'[g].conn = sock'[f].conn /\ sock'[g].conn # 0 => g = f
    BY <1>1, <1>3, <1>4 DEF SocketsAgree
  <2>4. ASSUME "reused" \notin netLost', NEW d \in DOMAIN conn', conn'[d].client
        PROVE  \E g \in Socks' : sock'[g].conn = d
    <3>1. PICK g \in Socks : sock[g].conn = d
      BY <1>1, <1>2, <1>3, <1>8, <2>4 DEF SocketsAgree
    <3>2. g \in Socks' /\ sock'[g].conn = d
      BY <1>3, <1>4, <3>1
    <3> QED
      BY <3>2
  <2>5. netMain'.at = "close" => netMain'.h \in Socks' /\ sock'[netMain'.h].held
    BY <1>4
  <2> QED
    BY <2>1, <2>2, <2>3, <2>4, <2>5 DEF SocketsAgree
<1>11. ServerCloses'
  BY <1>1, <1>3, <1>5, NetClosesKept
<1>12. ItemsAgree'
  <2>2. ASSUME NEW a \in NetPending PROVE ItemOk(a)'
    <3>2. ASSUME a.kind = "accept" PROVE conn'[a.conn].drops = 0 /\ \A g \in Socks' : sock'[g].conn # a.conn
      <4>1. a.conn # c /\ conn[a.conn].drops = 0 /\ \A g \in Socks : sock[g].conn # a.conn
        BY <1>0, <1>2, <1>9, <3>2 DEF ItemOk
      <4> QED
        BY <1>2, <1>3, <1>4, <1>9, <4>1
    <3> QED
      BY <1>1, <1>2, <1>4, <1>9, <3>2, NetItemOkKept
  <2>3. \A a, b \in NetPending' : Before(a, b)' => PairOk(a, b)
    BY <1>1, <1>5 DEF ItemsAgree
  <2> QED
    BY <1>5, <2>2, <2>3 DEF ItemsAgree
<1>13. DropsExplained'
  <2>0. netLost \subseteq netLost'
    BY <1>3
  <2>1. CASE c # 0
    <3>1. Regular => conn[c].drops = 0
      BY <1>0, <1>3, NetReleased
    <3>2. \A d \in DOMAIN conn : d # c => conn'[d].drops = conn[d].drops
      BY <1>2
    <3>3. conn'[c].drops = conn[c].drops + 1 /\ c \in DOMAIN conn
      BY <1>2, <2>1
    <3> QED
      BY <1>1, <1>2, <2>0, <3>1, <3>2, <3>3, NetDropsMore
  <2>2. CASE c = 0
    <3>1. \A d \in DOMAIN conn : conn'[d].drops = conn[d].drops
      BY <1>2, <1>8, <2>2
    <3> QED
      BY <1>1, <1>2, <2>0, <3>1, NetDropsKept
  <2> QED
    BY <2>1, <2>2
<1>14. ASSUME Regular' PROVE ItemsRegular' /\ SocksRegular' /\ ConnsRegular' /\ DataRegular'
  <2>1. Regular
    BY <1>1, <1>2, <1>3, <1>14, NetRegularBefore
  <2>2. ItemsRegular /\ SocksRegular /\ ConnsRegular /\ RegOrder /\ DataRegular
    BY <1>1, <2>1, NetConnsRegularIs DEF NetInvariant
  <2>3. /\ c \in DOMAIN conn /\ conn[c].drops = 0 /\ ~conn[c].open /\ ~HasItem(c) /\ Listed(h)
    BY <1>0, <1>3, <2>1, NetReleased
  <2>4. conn[c].client /\ conn[c].ctx = context /\ InSeq(h, clients)
    BY <1>2, <1>3, <1>8, <2>3 DEF Listed
  <2>6. ItemsRegular'
    <3>1. ASSUME NEW a \in NetPending PROVE RegItem(a)'
      <4>1. RegItem(a) /\ a \in NetPending'
        BY <1>5, <2>2 DEF ItemsRegular
      <4>2. a.kind = "accept" /\ conn[a.conn].open => conn'[a.conn].open
        BY <1>8, <1>9
      <4> QED
        BY <1>1, <1>2, <1>3, <1>4, <1>5, <4>1, <4>2, NetRegItemKept
    <3>3. ASSUME NEW a \in NetPending' , NEW b \in NetPending', Before(a, b)' PROVE RegPair(a, b)'
      BY <1>1, <1>2, <1>5, <2>2, <3>3, NetRegPairKept DEF ItemsRegular
    <3>4. server'.early # NoContext => \E a \in NetPending' : a.kind = "clear" /\ conn'[a.conn].ctx = server'.early
      <4>1. SUFFICES ASSUME server.early # NoContext
                     PROVE  \E a \in NetPending' : a.kind = "clear" /\ conn'[a.conn].ctx = server.early
        BY <1>3
      <4>2. PICK a \in NetPending : a.kind = "clear" /\ conn[a.conn].ctx = server.early
        BY <2>2, <4>1 DEF ItemsRegular
      <4>3. a \in NetPending' /\ conn'[a.conn].ctx = conn[a.conn].ctx
        BY <1>5, <1>8, <1>9, <4>2
      <4> QED
        BY <4>2, <4>3
    <3> QED
      BY <1>5, <3>1, <3>3, <3>4 DEF ItemsRegular
  <2>7. SocksRegular'
    <3>1. ASSUME NEW g \in Socks, sock[g].conn # 0 PROVE RegSock(g)'
      <4>1. PICK d : d = sock[g].conn
        OBVIOUS
      <4>2. RegSock(g) /\ d \in DOMAIN conn
        BY <1>1, <2>2, <3>1, <4>1 DEF SocksRegular, SocketsAgree
      <4>3. sock'[g].conn = d /\ sock'[g].client = sock[g].client /\ sock'[g].closed = sock[g].closed
        BY <1>3, <4>1
      <4>4. CASE g # h
        <5>1. d # c
          BY <1>0, <1>1, <1>2, <3>1, <4>1, <4>4 DEF SocketsAgree
        <5>2. netMain # [at |-> "close", h |-> g]
          BY <1>0, <4>4
        <5>3. conn'[d].open = conn[d].open /\ conn'[d].drops = conn[d].drops
          BY <1>2, <4>2, <5>1
        <5> QED
          BY <1>5, <1>6, <4>1, <4>2, <4>3, <4>4, <5>2, <5>3, NetRegSockKept
      <4>5. CASE g = h
        <5>1. ~conn'[c].open /\ ~HasItem(c)' /\ sock'[h].conn = c
          BY <1>0, <1>3, <1>5, <1>8, <2>3
        <5> QED
          BY <1>7, <4>5, <5>1 DEF RegSock
      <4> QED
        BY <4>4, <4>5
    <3>2. RegMain'
      BY <1>4 DEF RegMain
    <3>3. \A g, h1 \in Socks' : InSeq(g, clients') /\ InSeq(h1, clients') /\ sock'[g].ctx = sock'[h1].ctx
                               /\ sock'[g].ctx # NoContext => g = h1
      BY <1>2, <1>3, <1>4, <2>2, NetClientsKept
    <3> QED
      BY <1>3, <1>4, <3>1, <3>2, <3>3 DEF SocksRegular
  <2>8. ConnsRegular'
    <3>1. ASSUME NEW d \in DOMAIN conn, ~conn[d].client PROVE RegRefs(d)'
      <4>0. RegRefs(d) /\ conn'[d] = conn[d]
        BY <1>2, <2>2, <2>4, <3>1 DEF ConnsRegular
      <4>1. CASE conn[d].ctx # context
        <5>1. refs'[conn[d].ctx] = refs[conn[d].ctx]
          BY <1>2, <1>8, <4>1
        <5> QED
          BY <1>2, <1>3, <1>4, <4>0, <5>1, NetRegRefsKept
      <4>2. CASE conn[d].ctx = context
        <5>1. ~(conn[d].open \/ conn[d].drops = 0)
          BY <1>0, <1>2, <2>4, <4>0, <4>2 DEF RegRefs
        <5> QED
          BY <4>0, <5>1 DEF RegRefs
      <4> QED
        BY <4>1, <4>2
    <3>2. RegOrder'
      <4>1. \A d, e \in DOMAIN conn : d < e /\ SameContext(d, e) => conn'[d].drops = conn[d].drops
        BY <1>2, <2>4 DEF SameContext
      <4> QED
        BY <1>2, <1>3, <1>4, <1>5, <2>2, <4>1, NetOrderKept
    <3>4. (\A d \in DOMAIN conn : ~conn[d].client => RegRefs(d))'
      BY <1>2, <1>8, <3>1
    <3> QED
      BY <3>2, <3>4 DEF ConnsRegular, RegOrder
  <2>9. DataRegular'
    <3>1. ASSUME NEW g \in Socks PROVE RegData(g)'
      <4>1. PICK d : d = sock[g].conn
        OBVIOUS
      <4>2. RegData(g) /\ (d = 0 \/ d \in DOMAIN conn)
        BY <1>1, <2>2, <4>1 DEF SocketsAgree, DataRegular
      <4>4. Len(DataOf(sock[g])) \in Nat /\ (d # 0 => conn[d].packets \in Nat /\ conn'[d].packets = conn[d].packets)
        BY <1>1, <1>8, <4>2, NetDataTyped DEF NetTypes, Socks
      <4>5. Listed(g)' => Listed(g)
        BY <1>6, <1>7
      <4>6. DataOf(sock'[g]) = DataOf(sock[g]) /\ sock'[g].conn = d
        BY <1>3, <4>1
      <4> QED
        BY <1>3, <1>5, <4>1, <4>2, <4>4, <4>5, <4>6, NetRegDataKept
    <3>2. "data" \notin netLost' =>
            \A a \in NetPending' : a.kind = "accept" => \A m \in 1 .. conn'[a.conn].packets : HasData(a.conn, m)'
      BY <1>3, <1>5, <1>8, <1>9, <2>2 DEF DataRegular
    <3> QED
      BY <1>4, <3>1, <3>2 DEF DataRegular
  <2> QED
    BY <2>6, <2>7, <2>8, <2>9
<1> QED
  BY <1>2, <1>10, <1>11, <1>12, <1>13, <1>14 DEF NetInv, NetInvariant

-----------------------------------------------------------------------------
(***************************************************************************)
(* A client's socket that has a context is connected again, or loses it.   *)
(***************************************************************************)
Forsakes(h, context) ==
  /\ sock[h].client
  /\ sock' = [sock EXCEPT ![h] = [sock[h] EXCEPT !.ctx = context, !.conn = 0]]
  /\ "reused" \in netLost' /\ netLost' = netLost \cup {"reused"}
  /\ UNCHANGED <<server, conns, clients, netMain>>

LEMMA NetForsakenSock ==
  ASSUME NEW s \in SockRecs, NEW context \in Contexts \cup {NoContext}, NEW t,
         t = [s EXCEPT !.ctx = context, !.conn = 0]
  PROVE  /\ t \in SockRecs /\ t.conn = 0 /\ t.client = s.client /\ t.held = s.held
         /\ t.closing = s.closing /\ t.closed = s.closed
  BY DEF SockRecs

LEMMA NetForsaken ==
  ASSUME NetInv, NEW h \in Socks, NEW context \in Contexts \cup {NoContext}, Forsakes(h, context), SameRing,
         netRing' \in Seq(NetItems), refs' \in [Contexts -> Nat], conn' \in Seq(ConnRecs), ConnsGrow,
         DOMAIN conn' = DOMAIN conn, \A c \in DOMAIN conn : conn[c].client \/ conn'[c] = conn[c]
  PROVE  NetInv'
<1>1. NetTypes /\ SocketsAgree /\ ServerCloses /\ ItemsAgree
  BY DEF NetInv, NetInvariant
<1>2. PICK s : s = [sock[h] EXCEPT !.ctx = context, !.conn = 0]
  OBVIOUS
<1>3. sock[h] \in SockRecs
  BY <1>1, NetSockTyped DEF NetTypes, Socks
<1>4. s \in SockRecs /\ s.conn = 0 /\ s.client = sock[h].client /\ s.held = sock[h].held
  BY ONLY <1>2, <1>3, context \in Contexts \cup {NoContext}, NetForsakenSock
<1>5. sock \in Seq(SockRecs) /\ sock' = [sock EXCEPT ![h] = s]
  BY <1>1, <1>2 DEF Forsakes, NetTypes
<1>6. /\ sock' \in Seq(SockRecs) /\ DOMAIN sock' = DOMAIN sock /\ sock'[h] = s
      /\ \A g \in Socks : g # h => sock'[g] = sock[g]
  BY ONLY <1>4, <1>5, h \in Socks, NetSockIs
<1>7. Socks' = Socks /\ UNCHANGED <<server, conns, clients, netMain>> /\ "reused" \in netLost' /\ netLost \subseteq netLost'
  BY <1>6 DEF Socks, Forsakes
<1>8. \A g \in Socks : /\ sock'[g].client = sock[g].client /\ sock'[g].held = sock[g].held
                       /\ sock'[g].conn = 0 \/ (g # h /\ sock'[g] = sock[g])
  BY <1>4, <1>6
<1>9. NetTypes'
  BY <1>1, <1>6, <1>7 DEF NetTypes
<1>10. SocketsAgree'
  <2>1. \A g \in Socks : (InSeq(g, conns) <=> ~sock[g].client /\ sock[g].held) /\ (InSeq(g, clients) => sock[g].client)
                         /\ (sock[g].client => sock[g].held) /\ (~sock[g].client => sock[g].conn # 0)
    BY <1>1 DEF SocketsAgree
  <2>2. ASSUME NEW g \in Socks, sock'[g].conn # 0
        PROVE  /\ sock'[g].conn \in DOMAIN conn' /\ conn'[sock'[g].conn].ctx = sock'[g].ctx
               /\ conn'[sock'[g].conn].client = sock'[g].client
               /\ \A f \in Socks : sock'[g].conn = sock'[f].conn => g = f
    <3>1. g # h /\ sock'[g] = sock[g]
      BY <1>8, <2>2
    <3>2. /\ sock[g].conn \in DOMAIN conn /\ conn[sock[g].conn].ctx = sock[g].ctx
          /\ conn[sock[g].conn].client = sock[g].client
          /\ \A f \in Socks : sock[g].conn = sock[f].conn => g = f
      BY <1>1, <2>2, <3>1 DEF SocketsAgree
    <3>3. \A f \in Socks : sock'[g].conn = sock'[f].conn => g = f
      BY <1>8, <2>2, <3>1, <3>2
    <3> QED
      BY <3>1, <3>2, <3>3 DEF ConnsGrow
  <2>3. \A g \in Socks : ~sock'[g].client => sock'[g].conn # 0
    BY <1>8, <2>1, <1>6 DEF Forsakes
  <2>4. netMain'.at = "close" => netMain'.h \in Socks' /\ sock'[netMain'.h].held
    BY <1>1, <1>7, <1>8 DEF SocketsAgree
  <2>5. Distinct(conns)' /\ Distinct(clients)'
    BY <1>1, <1>7 DEF SocketsAgree, Distinct
  <2>6. \A g \in Socks' : (InSeq(g, conns') <=> ~sock'[g].client /\ sock'[g].held) /\ (InSeq(g, clients') => sock'[g].client)
                          /\ (sock'[g].client => sock'[g].held)
    BY <1>7, <1>8, <2>1
  <2> QED
    BY <1>7, <2>2, <2>3, <2>4, <2>5, <2>6 DEF SocketsAgree
<1>11. NetPending' = NetPending /\ \A a, b \in NetPending' : Before(a, b)' => Before(a, b)
  BY DEF SameRing
<1>12. ServerCloses'
  BY <1>1, <1>7, <1>11, NetClosesKept
<1>13. ItemsAgree'
  <2>1. ASSUME NEW a \in NetPending PROVE ItemOk(a)'
    <3>1. ItemOk(a)
      BY <1>1 DEF ItemsAgree
    <3>2. ASSUME a.kind = "accept" PROVE conn'[a.conn].drops = 0 /\ \A g \in Socks' : sock'[g].conn # a.conn
      <4>1. a.conn \in DOMAIN conn /\ ~conn[a.conn].client /\ conn[a.conn].drops = 0 /\ \A g \in Socks : sock[g].conn # a.conn
        BY <3>1, <3>2 DEF ItemOk
      <4>2. a.conn # 0
        BY <1>1, <4>1, LenProperties DEF NetTypes
      <4> QED
        BY <1>7, <1>8, <4>1, <4>2
    <3> QED
      BY <1>1, <1>7, <1>9, <3>1, <3>2, NetItemOkKept
  <2> QED
    BY <1>1, <1>11, <2>1 DEF ItemsAgree, PairOk
<1>14. ~NoCloseLost'
  BY <1>7 DEF NoCloseLost
<1>15. DropsExplained' /\ ~Regular'
  BY <1>14 DEF DropsExplained, Regular
<1> QED
  BY <1>9, <1>10, <1>12, <1>13, <1>15 DEF NetInv, NetInvariant

LEMMA NetConnectAgain ==
  ASSUME NetInv, NEW h \in Socks, SocketConnectAgain(h)
  PROVE  NetInv'
<1>1. NetTypes /\ SocketsAgree
  BY DEF NetInv, NetInvariant
<1>2. sock[h].client /\ sock[h] \in SockRecs /\ sock[h].ctx \in Contexts \cup {NoContext}
  <2>1. InSeq(h, clients)
    BY DEF SocketConnectAgain
  <2> QED
    BY <1>1, <2>1, NetSockTyped DEF SocketsAgree, NetTypes, Socks
<1>3. PICK s, context : s = [sock[h] EXCEPT !.conn = 0] /\ context = sock[h].ctx
  OBVIOUS
<1>4. s = [sock[h] EXCEPT !.ctx = context, !.conn = 0]
  BY <1>2, <1>3 DEF SockRecs
<1>5. sock' = [sock EXCEPT ![h] = s]
  BY <1>3 DEF SocketConnectAgain
<1>6. Forsakes(h, context)
  BY <1>2, <1>4, <1>5 DEF Forsakes, SocketConnectAgain
<1>7. UNCHANGED <<conn, refs, netRing>>
  BY DEF SocketConnectAgain
<1>8. SameRing /\ ConnsGrow /\ DOMAIN conn' = DOMAIN conn
  BY <1>1, <1>7, NetSameRing, NetSameConns
<1> QED
  BY <1>1, <1>2, <1>3, <1>6, <1>7, <1>8, NetForsaken DEF NetTypes

LEMMA NetConnectFails ==
  ASSUME NetInv, NEW h \in Socks, SocketConnectFails(h)
  PROVE  NetInv'
<1>1. NetTypes /\ NetInvariant /\ SocketsAgree /\ ServerCloses
  BY DEF NetInv, NetInvariant
<1>2. netRing' \in Seq(NetItems) /\ SameRing
  <2>1. h \in Nat /\ netRing \in Seq(NetItems) /\ Queue(Event(h))
    BY <1>1, NetSockTyped DEF NetTypes, Socks, SocketConnectFails
  <2> QED
    BY ONLY <2>1, NetEvents
<1>3. UNCHANGED <<server, conns, clients, netMain>> /\ sock[h].client
  BY DEF SocketConnectFails
<1>4. CASE sock[h].ctx = NoContext
  <2>1. UNCHANGED <<sock, conn, refs, netLost>>
    BY <1>4 DEF SocketConnectFails
  <2>2. Quiet
    BY <1>2, <1>3, <2>1, NetSameSocks DEF Quiet
  <2>3. NetTypes'
    BY <1>1, <1>2, <1>3, <2>1 DEF NetTypes, Socks
  <2>4. ServerCloses'
    BY <1>1, <1>2, <1>3, <2>1 DEF ServerCloses, SameRing
  <2> QED
    BY <1>1, <2>2, <2>3, <2>4, NetQuiet DEF NetInv
<1>5. CASE sock[h].ctx # NoContext
  <2>1. /\ Drop(sock[h].ctx, sock[h].conn)
        /\ sock' = [sock EXCEPT ![h] = [sock[h] EXCEPT !.ctx = NoContext, !.conn = 0]]
        /\ netLost' = netLost \cup {"reused"}
    BY <1>5 DEF SocketConnectFails
  <2>2. Forsakes(h, NoContext)
    BY <1>3, <2>1 DEF Forsakes
  <2>3. CASE sock[h].conn = 0
    <3>1. conn' = conn /\ refs' = Unref(sock[h].ctx)
      BY <2>1, <2>3 DEF Drop
    <3>2. refs' \in [Contexts -> Nat]
      BY <1>1, <3>1, NetUnref DEF NetTypes
    <3> QED
      BY <1>1, <1>2, <2>2, <3>1, <3>2, NetSameConns, NetForsaken DEF NetTypes
  <2>4. CASE sock[h].conn # 0
    <3>1. PICK context, d : context = sock[h].ctx /\ d = sock[h].conn
      OBVIOUS
    <3>2. d \in DOMAIN conn /\ conn[d].client
      BY <1>1, <1>3, <2>4, <3>1 DEF SocketsAgree
    <3>3. /\ refs' \in [Contexts -> Nat] /\ conn' \in Seq(ConnRecs) /\ DOMAIN conn' = DOMAIN conn
          /\ \A e \in DOMAIN conn : e # d => conn'[e] = conn[e]
          /\ ConnsGrow
      BY <1>1, <2>1, <3>1, <3>2, NetDrops
    <3> QED
      BY <1>2, <2>2, <3>2, <3>3, NetForsaken
  <2> QED
    BY <2>3, <2>4
<1> QED
  BY <1>4, <1>5

-----------------------------------------------------------------------------
(***************************************************************************)
(* The invariant holds.                                                    *)
(***************************************************************************)
LEMMA NetUnchanged ==
  ASSUME NetInv, UNCHANGED netVars
  PROVE  NetInv'
<1>1. NetTypes'
  BY DEF NetInv, NetTypes, Socks, netVars
<1>2. ServerCloses'
  BY DEF NetInv, NetInvariant, ServerCloses, NetPending, netVars
<1>3. SameRing
  BY NetSameRing DEF netVars
<1>4. SameSocks
  BY DEF SameSocks, netVars
<1>5. Quiet
  BY <1>3, <1>4 DEF Quiet, netVars
<1> QED
  BY <1>1, <1>2, <1>5, NetQuiet DEF NetInv

LEMMA NetReceives ==
  ASSUME NetAssumption, NetInv, NetRX
  PROVE  NetInv'
<1>1. CASE \E context \in Contexts : TcpAccepted(context)
  BY <1>1, NetTcpAccepted
<1>2. CASE TcpAcceptedFails
  BY <1>2, NetQuietKeeps DEF QuietStep
<1>3. ASSUME NEW c, TcpReceived(c) \/ PacketTakenAgain(c) \/ TcpClosed(c) \/ TcpClosedEarly(c)
      PROVE  NetInv'
  <2>1. PacketTakenAgain(c) => \E reason : NetFails(reason)
    BY DEF PacketTakenAgain
  <2> QED
    BY <1>3, <2>1, NetTcpReceived, NetTcpClosed, NetTcpClosedEarly, NetFailed
<1>4. ASSUME NEW h \in Socks, TcpConnected(h) \/ SocketTimeout(h) \/ TimerOfFreed(h)
      PROVE  NetInv'
  <2>1. TimerOfFreed(h) => \E reason : NetFails(reason)
    BY DEF TimerOfFreed
  <2>2. SocketTimeout(h) => QuietStep
    BY DEF QuietStep
  <2> QED
    BY <1>4, <2>1, <2>2, NetTcpConnected, NetQuietKeeps, NetFailed
<1> QED
  BY <1>1, <1>2, <1>3, <1>4 DEF NetRX

LEMMA NetWorks ==
  ASSUME NetAssumption, NetInv, NetWork
  PROVE  NetInv'
<1>1. EmitOther \/ ReleasePacket \/ ListenersReturn => QuietStep
  BY DEF QuietStep
<1>2. ReceiveOverflow \/ UseFreedServer \/ UseFreedSocket => \E reason : NetFails(reason)
  BY DEF ReceiveOverflow, UseFreedServer, UseFreedSocket
<1>3. AcceptConnection \/ AcceptConnectionFails => NetInv'
  BY NetAccepts, NetAcceptFails
<1>4. (\E emits \in BOOLEAN : ReceivePacket(emits)) \/ ReceiveUnknown => NetInv'
  BY NetReceivePacket, NetReceiveUnknown
<1>5. ClearClosed => NetInv'
  BY NetClearMisses, NetClearCloses
<1>6. EmitClose \/ ReleaseClose \/ ReleaseCloseClient => NetInv'
  BY NetEmitClose, NetReleaseClose, NetReleaseClient
<1> QED
  BY <1>1, <1>2, <1>3, <1>4, <1>5, <1>6, NetQuietKeeps, NetFailed DEF NetWork

LEMMA NetScripts ==
  ASSUME NetAssumption, NetInv, NetScript
  PROVE  NetInv'
<1>1. ASSUME NEW h \in Socks,
             \/ PauseOrResume(h) \/ SocketWrite(h)
             \/ \E time \in BOOLEAN : SetSocketTimeout(h, time)
      PROVE  NetInv'
  <2>1. QuietStep
    BY <1>1 DEF QuietStep
  <2> QED
    BY <2>1, NetQuietKeeps
<1>2. ASSUME NEW h \in Socks, NEW context \in Contexts, SocketConnect(h, context)
      PROVE  NetInv'
  BY <1>2, NetSocketConnect
<1>6. ASSUME NEW h \in Socks, SocketConnectAgain(h) \/ SocketConnectFails(h)
      PROVE  NetInv'
  BY <1>6, NetConnectAgain, NetConnectFails
<1>3. NewClientSocket \/ ServerClose => NetInv'
  BY NetNewClientSocket, NetServerClose
<1>4. ServerListen \/ CollectServer => QuietStep
  BY DEF QuietStep
<1>5. ScriptUsesFreed => \E reason : NetFails(reason)
  BY DEF ScriptUsesFreed
<1> QED
  BY <1>1, <1>2, <1>3, <1>4, <1>5, <1>6, NetQuietKeeps, NetFailed DEF NetScript

LEMMA NetInductive ==
  ASSUME NetAssumption, NetInv, [NetNext]_netVars
  PROVE  NetInv'
<1>1. CASE NetRX
  BY <1>1, NetReceives
<1>2. CASE NetWork
  BY <1>2, NetWorks
<1>3. CASE NetScript
  BY <1>3, NetScripts
<1>4. CASE NetRests \/ UNCHANGED netVars
  <2>1. UNCHANGED netVars
    BY <1>4 DEF NetRests
  <2> QED
    BY <2>1, NetUnchanged
<1> QED
  BY <1>1, <1>2, <1>3, <1>4 DEF NetNext

\* The invariant that the others rest on: what is pending for a connection, the sockets, the
\* references and the packets given fit together in every state, whatever RX and the script
\* do between two pieces of main's work.
THEOREM NetInvTheorem == NetSpec => []NetInv
<1>1. NetInit => NetInv
  BY NetBlankIs DEF NetInit, NetBlank
<1>2. NetInv /\ [NetNext]_netVars => NetInv'
  BY NetAssumption, NetInductive
<1> QED
  BY <1>1, <1>2, PTL DEF NetSpec

\* What listeners are given, and what waits in a socket's buffer, is the socket's own data in
\* order, although find_connection looks for it by a context that is used again.
THEOREM OwnDataInOrderTheorem == NetSpec => []OwnDataInOrder
<1>1. NetInv => OwnDataInOrder
  <2> SUFFICES ASSUME NetInv, Regular, NEW h \in Socks, NEW i \in DOMAIN DataOf(sock[h])
               PROVE  /\ DataOf(sock[h])[i][1] = sock[h].conn
                      /\ IF "data" \in netLost
                         THEN \A j \in 1 .. i - 1 : DataOf(sock[h])[j][2] < DataOf(sock[h])[i][2]
                         ELSE DataOf(sock[h])[i][2] = i
    BY DEF OwnDataInOrder, DataOf
  <2>1. RegData(h)
    BY DEF NetInv, NetInvariant, DataRegular
  <2> QED
    BY <2>1 DEF RegData
<1> QED
  BY <1>1, NetInvTheorem, PTL

\* Whoever closes first, the close is pending or under way until release_close is done, no
\* context is dropped twice unless its peer closed before the socket was made, and the server
\* is closed once.
THEOREM ClosesAreCoveredTheorem == NetSpec => []ClosesAreCovered
<1>1. NetInv => CloseIsCovered
  <2> DEFINE pending(c) == \E i \in DOMAIN netRing : netRing[i].kind \in {"close", "clear"} /\ netRing[i].conn = c
  <2>1. ASSUME NEW c, Waits("close", c) \/ Waits("clear", c) PROVE pending(c)
    BY <2>1 DEF Waits, NetPending
  <2>2. ASSUME NetInv, Regular, NEW h \in Socks, sock[h].conn # 0, ~conn[sock[h].conn].open, Listed(h)
        PROVE  pending(sock[h].conn) \/ netMain = [at |-> "close", h |-> h]
    <3>1. RegSock(h)
      BY <2>2 DEF NetInv, NetInvariant, SocksRegular
    <3> QED
      BY <2>1, <2>2, <3>1 DEF RegSock
  <2>3. ASSUME NetInv, Regular, server.early # NoContext
        PROVE  \E c \in DOMAIN conn : ContextOf(c) = server.early /\ pending(c)
    <3>1. PICK a \in NetPending : a.kind = "clear" /\ conn[a.conn].ctx = server.early
      BY <2>3 DEF NetInv, NetInvariant, ItemsRegular
    <3>2. a.conn \in DOMAIN conn
      BY <2>3, <3>1 DEF NetInv, NetInvariant, ItemsAgree, ItemOk
    <3>3. pending(a.conn)
      BY <2>1, <3>1 DEF Waits
    <3> QED
      BY <3>1, <3>2, <3>3 DEF ContextOf
  <2> QED
    BY <2>2, <2>3 DEF CloseIsCovered, Listed
<1>2. NetInv => DropsExplained
  BY DEF NetInv, NetInvariant
<1>3. NetInv => ServerClosedOnce
  <2>1. NetInv => server.closes \in Nat /\ server.closed \in BOOLEAN
    BY DEF NetInv, NetTypes
  <2>2. NetInv /\ "amiss" \notin netLost => server.closes = 0 \/ server.closes = 1
    BY DEF NetInv, NetInvariant, ServerCloses
  <2> QED
    BY <2>1, <2>2 DEF ServerClosedOnce
<1> QED
  BY <1>1, <1>2, <1>3, NetInvTheorem, PTL DEF ClosesAreCovered
-----------------------------------------------------------------------------
(***************************************************************************)
(* Deferred work and the sockets it names.  An event is put for a socket   *)
(* that is not closing while its connection is open, and the connection's  *)
(* close, which alone releases the socket, comes behind the event.         *)
(***************************************************************************)
ClosesBehind(i, c) ==
  \E j \in DOMAIN netRing : i < j /\ netRing[j].kind \in {"close", "clear"} /\ netRing[j].conn = c
EventOk(i) ==
  netRing[i].kind = "event" /\ netRing[i].h # 0 =>
    /\ netRing[i].h \in Socks
    /\ Regular /\ netRing[i].n # 1 /\ ~sock[netRing[i].h].client =>
         conn[sock[netRing[i].h].conn].open \/ ClosesBehind(i, sock[netRing[i].h].conn)

\* A socket whose close is on its way, or dealt with, is marked.
EventInv ==
  /\ \A i \in DOMAIN netRing : EventOk(i) /\ (netRing[i].kind = "close" => sock[netRing[i].h].closing)
  /\ netMain.at = "close" => sock[netMain.h].closing \/ sock[netMain.h].closed

\* What every step does that is not undefined.
SocksGo ==
  \A g \in Socks : /\ g \in Socks' /\ sock'[g].client = sock[g].client
                   /\ ~sock[g].client => sock'[g].conn = sock[g].conn
                   /\ sock[g].closing => sock'[g].closing
                   /\ sock[g].closed => sock'[g].closed
ConnsStay(c) ==
  \A d \in DOMAIN conn : /\ d \in DOMAIN conn' /\ conn'[d].drops \in Nat /\ conn[d].drops <= conn'[d].drops
                         /\ d # c /\ conn[d].open => conn'[d].open
ClosePut(c) ==
  \E item \in NetItems : netRing' = Append(netRing, item) /\ item.kind \in {"close", "clear"} /\ item.conn = c
PutOk(item) ==
  /\ item.kind = "event" /\ item.h # 0 =>
       /\ item.h \in Socks
       /\ ~sock[item.h].client => UNCHANGED conn /\ (Regular /\ item.n # 1 => conn[sock[item.h].conn].open)
  /\ item.kind = "close" => item.h \in Socks /\ sock'[item.h].closing
RingGoes ==
  \/ netRing' = netRing
  \/ netRing # <<>> /\ netRing' = Tail(netRing)
  \/ \E item \in NetItems : netRing' = Append(netRing, item) /\ PutOk(item)
EventStep ==
  /\ SocksGo /\ RingGoes /\ netLost \subseteq netLost'
  /\ \E c : ConnsStay(c) /\ (Regular' => c = 0 \/ ClosePut(c))
  /\ netMain'.at = "close" => netMain' = netMain \/ sock'[netMain'.h].closing \/ sock'[netMain'.h].closed

LEMMA NetRegularStays ==
  ASSUME NetTypes, NEW c, ConnsStay(c), netLost \subseteq netLost', Regular'
  PROVE  Regular
<1>1. NoCloseLost
  BY DEF Regular, NoCloseLost
<1>2. ASSUME NEW d \in DOMAIN conn PROVE conn[d].drops <= 1
  <2>1. conn[d].drops \in Nat
    BY NetConnTyped DEF NetTypes
  <2>2. d \in DOMAIN conn' /\ conn[d].drops <= conn'[d].drops /\ conn'[d].drops \in Nat
    BY DEF ConnsStay
  <2>3. conn'[d].drops <= 1
    BY <2>2 DEF Regular, DroppedOnce
  <2> QED
    BY <2>1, <2>2, <2>3
<1> QED
  BY <1>1, <1>2 DEF Regular, DroppedOnce

\* Such a step keeps what is said of an event that stays, at j where it was at i.
LEMMA NetEventStays ==
  ASSUME NetInv, EventStep, NEW i \in DOMAIN netRing, EventOk(i), NEW j \in DOMAIN netRing', netRing'[j] = netRing[i],
         \A c : ClosesBehind(i, c) => ClosesBehind(j, c)', \A c : ClosePut(c) => ClosesBehind(j, c)'
  PROVE  EventOk(j)'
<1>1. CASE netRing[i].kind # "event" \/ netRing[i].h = 0
  BY <1>1 DEF EventOk
<1>2. ASSUME netRing[i].kind = "event", netRing[i].h # 0
      PROVE  EventOk(j)'
  <2>1. PICK h, d, e : h = netRing[i].h /\ d = sock[h].conn /\ e = sock'[h].conn
    OBVIOUS
  <2>2. h \in Socks
    BY <1>2, <2>1 DEF EventOk
  <2>3. h \in Socks' /\ sock'[h].client = sock[h].client /\ (~sock[h].client => e = d)
    BY <2>1, <2>2 DEF EventStep, SocksGo
  <2>4. ASSUME Regular', netRing[i].n # 1, ~sock[h].client
        PROVE  conn'[d].open \/ ClosesBehind(j, d)'
    <3>1. PICK c : ConnsStay(c) /\ (Regular' => c = 0 \/ ClosePut(c)) /\ netLost \subseteq netLost'
      BY DEF EventStep
    <3>2. NetTypes /\ SocketsAgree
      BY DEF NetInv, NetInvariant
    <3>3. Regular
      BY <2>4, <3>1, <3>2, NetRegularStays
    <3>5. conn[d].open \/ ClosesBehind(i, d)
      BY <1>2, <2>1, <2>4, <3>3 DEF EventOk
    <3>6. d \in DOMAIN conn /\ d # 0
      BY <2>1, <2>2, <2>4, <3>2 DEF SocketsAgree
    <3>7. d # c /\ conn[d].open => conn'[d].open
      BY <3>1, <3>6 DEF ConnsStay
    <3>8. d = c => ClosesBehind(j, d)'
      <4>1. d = c => ClosePut(d)
        BY <2>4, <3>1, <3>6
      <4> QED
        BY <4>1
    <3>9. ClosesBehind(i, d) => ClosesBehind(j, d)'
      OBVIOUS
    <3> QED
      BY <3>5, <3>7, <3>8, <3>9
  <2> QED
    BY <2>1, <2>3, <2>4 DEF EventOk
<1> QED
  BY <1>1, <1>2

LEMMA NetEventKept ==
  ASSUME NetInv, EventInv, EventStep
  PROVE  EventInv'
<1>1. NetTypes /\ SocketsAgree /\ ItemsAgree /\ netRing \in Seq(NetItems) /\ SocksGo /\ RingGoes
  BY DEF NetInv, NetInvariant, NetTypes, EventStep
<1>2. \A i \in DOMAIN netRing : netRing[i].kind = "close" => netRing[i].h \in Socks /\ sock[netRing[i].h].closing
  <2>1. ASSUME NEW i \in DOMAIN netRing, netRing[i].kind = "close" PROVE netRing[i].h \in Socks
    <3>1. netRing[i] \in NetPending
      BY <2>1 DEF NetPending
    <3> QED
      BY <1>1, <2>1, <3>1 DEF ItemsAgree, ItemOk
  <2> QED
    BY <2>1 DEF EventInv
<1>3. \A i \in DOMAIN netRing : netRing[i].kind = "close" => sock'[netRing[i].h].closing
  BY <1>1, <1>2 DEF SocksGo
<1>4. netMain'.at = "close" => sock'[netMain'.h].closing \/ sock'[netMain'.h].closed
  <2>1. CASE netMain' = netMain /\ netMain.at = "close"
    BY <1>1, <2>1 DEF EventInv, SocksGo, SocketsAgree
  <2> QED
    BY <2>1 DEF EventStep
<1>5. CASE netRing' = netRing
  <2>1. ASSUME NEW i \in DOMAIN netRing PROVE EventOk(i)'
    <3>1. \A c : ClosesBehind(i, c) => ClosesBehind(i, c)'
      BY <1>5 DEF ClosesBehind
    <3>2. \A c : ~ClosePut(c)
      <4>1. ASSUME NEW item \in NetItems, netRing' = Append(netRing, item) PROVE FALSE
        <5>1. Len(netRing') = Len(netRing) + 1 /\ Len(netRing) \in Nat
          BY <1>1, <4>1, NetGrows
        <5> QED
          BY <1>5, <5>1
      <4> QED
        BY <4>1 DEF ClosePut
    <3>3. EventOk(i) /\ i \in DOMAIN netRing' /\ netRing'[i] = netRing[i]
      BY <1>5 DEF EventInv
    <3> QED
      BY <3>1, <3>2, <3>3, NetEventStays
  <2> QED
    BY <1>3, <1>4, <1>5, <2>1 DEF EventInv
<1>6. CASE netRing # <<>> /\ netRing' = Tail(netRing)
  <2>1. /\ DOMAIN netRing = 1 .. Len(netRing) /\ DOMAIN netRing' = 1 .. Len(netRing) - 1 /\ Len(netRing) \in Nat
        /\ \A i \in 1 .. Len(netRing) - 1 : netRing'[i] = netRing[i + 1]
        /\ Len(netRing') = Len(netRing) - 1
    BY <1>1, <1>6, NetShrinks
  <2>2. ASSUME NEW j \in DOMAIN netRing' PROVE EventOk(j)'
    <3>1. j + 1 \in DOMAIN netRing /\ netRing'[j] = netRing[j + 1] /\ j \in Nat
      BY <2>1
    <3>2. ASSUME NEW c, ClosesBehind(j + 1, c) PROVE ClosesBehind(j, c)'
      <4>1. PICK k \in DOMAIN netRing : j + 1 < k /\ netRing[k].kind \in {"close", "clear"} /\ netRing[k].conn = c
        BY <3>2 DEF ClosesBehind
      <4>2. k - 1 \in DOMAIN netRing' /\ j < k - 1 /\ netRing'[k - 1] = netRing[k]
        BY <2>1, <3>1, <4>1
      <4> QED
        BY <4>1, <4>2 DEF ClosesBehind
    <3>3. \A c : ~ClosePut(c)
      <4>1. ASSUME NEW item \in NetItems, netRing' = Append(netRing, item) PROVE FALSE
        <5>1. Len(netRing') = Len(netRing) + 1
          BY <1>1, <4>1, NetGrows
        <5> QED
          BY <2>1, <5>1
      <4> QED
        BY <4>1 DEF ClosePut
    <3>4. EventOk(j + 1)
      BY <3>1 DEF EventInv
    <3> QED
      BY <3>1, <3>2, <3>3, <3>4, NetEventStays
  <2>3. \A j \in DOMAIN netRing' : netRing'[j].kind = "close" => sock'[netRing'[j].h].closing
    BY <1>3, <2>1
  <2> QED
    BY <1>4, <2>2, <2>3 DEF EventInv
<1>7. ASSUME NEW item \in NetItems, netRing' = Append(netRing, item), PutOk(item)
      PROVE  EventInv'
  <2>1. PICK n : n = Len(netRing) + 1
    OBVIOUS
  <2>2. /\ DOMAIN netRing = 1 .. Len(netRing) /\ DOMAIN netRing' = 1 .. n /\ Len(netRing) \in Nat /\ n \in Nat
        /\ \A i \in DOMAIN netRing : i \in DOMAIN netRing' /\ netRing'[i] = netRing[i]
        /\ n \in DOMAIN netRing' /\ netRing'[n] = item
    BY <1>1, <1>7, <2>1, NetGrows
  <2>3. ASSUME NEW i \in DOMAIN netRing PROVE EventOk(i)'
    <3>1. \A c : ClosesBehind(i, c) => ClosesBehind(i, c)'
      BY <2>2 DEF ClosesBehind
    <3>2. ASSUME NEW c, ClosePut(c) PROVE ClosesBehind(i, c)'
      <4>1. PICK other \in NetItems : netRing' = Append(netRing, other) /\ other.kind \in {"close", "clear"} /\ other.conn = c
        BY <3>2 DEF ClosePut
      <4>2. netRing'[n] = other /\ i < n
        BY <1>1, <2>1, <2>2, <4>1, NetGrows
      <4> QED
        BY <2>2, <4>1, <4>2 DEF ClosesBehind
    <3>3. EventOk(i)
      BY DEF EventInv
    <3> QED
      BY <2>2, <3>1, <3>2, <3>3, NetEventStays
  <2>4. EventOk(n)'
    <3> SUFFICES ASSUME item.kind = "event", item.h # 0
                 PROVE  /\ item.h \in Socks'
                        /\ Regular' /\ item.n # 1 /\ ~sock'[item.h].client => conn'[sock'[item.h].conn].open
      BY <2>2 DEF EventOk
    <3>1. item.h \in Socks
          /\ (~sock[item.h].client => UNCHANGED conn /\ (Regular /\ item.n # 1 => conn[sock[item.h].conn].open))
      BY <1>7 DEF PutOk
    <3>2. conn' = conn /\ Regular' => Regular
      BY DEF EventStep, Regular, NoCloseLost, DroppedOnce
    <3> QED
      BY <1>1, <3>1, <3>2 DEF SocksGo
  <2>5. \A j \in DOMAIN netRing' : j \in DOMAIN netRing \/ j = n
    BY <2>1, <2>2
  <2>6. item.kind = "close" => sock'[item.h].closing
    BY <1>7 DEF PutOk
  <2> QED
    BY <1>3, <1>4, <2>2, <2>3, <2>4, <2>5, <2>6 DEF EventInv
<1> QED
  BY <1>1, <1>5, <1>6, <1>7 DEF RingGoes

\* The ways in which sockets and connections change.
LEMMA NetSocksGo ==
  ASSUME sock \in Seq(SockRecs), NEW h, NEW t, sock' = [sock EXCEPT ![h] = t],
         \A s \in SockRecs : h \in Socks /\ s = sock[h] =>
           /\ t.client = s.client /\ (~s.client => t.conn = s.conn)
           /\ (s.closing => t.closing) /\ (s.closed => t.closed)
  PROVE  SocksGo /\ (h \in Socks => sock'[h] = t)
<1>1. DOMAIN sock' = DOMAIN sock /\ \A g \in DOMAIN sock : sock'[g] = IF g = h THEN t ELSE sock[g]
  OBVIOUS
<1>2. \A g \in Socks : sock[g] \in SockRecs
  BY NetSockTyped DEF Socks
<1> QED
  BY <1>1, <1>2 DEF SocksGo, Socks

LEMMA NetSocksMade ==
  ASSUME NetTypes, NEW s, sock' = Append(sock, s)
  PROVE  SocksGo
<1>1. Len(sock) \in Nat /\ DOMAIN sock = 1 .. Len(sock) /\ DOMAIN sock' = 1 .. Len(sock) + 1
      /\ \A i \in DOMAIN sock : sock'[i] = sock[i]
  <2>1. sock \in Seq(SockRecs \cup {s}) /\ s \in SockRecs \cup {s}
    BY SeqMonotonic DEF NetTypes
  <2>2. PICK S : S = SockRecs \cup {s}
    OBVIOUS
  <2> QED
    BY ONLY <2>1, <2>2, sock' = Append(sock, s), NetGrows
<1> QED
  BY <1>1 DEF SocksGo, Socks

LEMMA NetSocksSame ==
  ASSUME UNCHANGED sock
  PROVE  SocksGo
  BY DEF SocksGo, Socks

LEMMA NetMarks ==
  ASSUME NEW s \in SockRecs, NEW t, NEW x, NEW y,
         \/ t = [s EXCEPT !.timer = x] \/ t = [s EXCEPT !.timeout = x, !.timer = y] \/ t = [s EXCEPT !.paused = x]
         \/ t = [s EXCEPT !.closing = TRUE] \/ t = [s EXCEPT !.closes = x] \/ t = [s EXCEPT !.held = FALSE]
         \/ t = [s EXCEPT !.closed = TRUE, !.closes = x] \/ t = [s EXCEPT !.ctx = x]
         \/ \E z : t = [s EXCEPT !.timer = x, !.buf = y, !.given = z]
  PROVE  /\ t.client = s.client /\ t.conn = s.conn /\ (s.closing => t.closing) /\ (s.closed => t.closed)
  BY DEF SockRecs

LEMMA NetMarksClient ==
  ASSUME NEW s \in SockRecs, NEW t, NEW x, NEW y,
         \/ t = [s EXCEPT !.timer = x, !.conn = y] \/ t = [s EXCEPT !.conn = y] \/ t = [s EXCEPT !.ctx = x, !.conn = y]
  PROVE  t.client = s.client /\ (s.closing => t.closing) /\ (s.closed => t.closed)
  BY DEF SockRecs

LEMMA NetStays ==
  ASSUME NetTypes, UNCHANGED conn
  PROVE  ConnsStay(0)
<1>1. \A d \in DOMAIN conn : conn[d].drops \in Nat
  BY NetConnTyped DEF NetTypes
<1> QED
  BY <1>1 DEF ConnsStay

LEMMA NetStaysGrown ==
  ASSUME NetTypes, NEW s, conn' = Append(conn, s)
  PROVE  ConnsStay(0)
<1>1. \A d \in DOMAIN conn : conn[d].drops \in Nat
  BY NetConnTyped DEF NetTypes
<1>2. DOMAIN conn \subseteq DOMAIN conn' /\ \A d \in DOMAIN conn : conn'[d] = conn[d]
  <2>1. conn \in Seq(ConnRecs \cup {s}) /\ s \in ConnRecs \cup {s}
    BY SeqMonotonic DEF NetTypes
  <2>2. PICK S : S = ConnRecs \cup {s}
    OBVIOUS
  <2>3. /\ Len(conn) \in Nat /\ DOMAIN conn = 1 .. Len(conn) /\ DOMAIN conn' = 1 .. Len(conn) + 1
        /\ \A i \in 1 .. Len(conn) : conn'[i] = conn[i]
    BY ONLY <2>1, <2>2, conn' = Append(conn, s), NetGrows
  <2> QED
    BY <2>3
<1> QED
  BY <1>1, <1>2 DEF ConnsStay

LEMMA NetStaysBut ==
  ASSUME NetTypes, NEW c, NEW t, conn' = [conn EXCEPT ![c] = t],
         \A s \in ConnRecs : c \in DOMAIN conn /\ s = conn[c] => t.drops \in Nat /\ s.drops <= t.drops
  PROVE  ConnsStay(c) /\ (c \in DOMAIN conn /\ t.open = conn[c].open => ConnsStay(0))
<1>1. DOMAIN conn' = DOMAIN conn /\ \A d \in DOMAIN conn : conn'[d] = IF d = c THEN t ELSE conn[d]
  OBVIOUS
<1>2. \A d \in DOMAIN conn : conn[d] \in ConnRecs /\ conn[d].drops \in Nat
  BY NetConnTyped DEF NetTypes
<1>3. ASSUME NEW d \in DOMAIN conn PROVE conn'[d].drops \in Nat /\ conn[d].drops <= conn'[d].drops
  BY <1>1, <1>2
<1> QED
  BY <1>1, <1>3 DEF ConnsStay

LEMMA NetStaysDropped ==
  ASSUME NetTypes, NEW context, NEW c, Drop(context, c)
  PROVE  ConnsStay(0)
<1>1. CASE conn' = conn
  BY <1>1, NetStays
<1>2. CASE conn' = [conn EXCEPT ![c].drops = conn[c].drops + 1]
  <2>1. PICK t : t = [conn[c] EXCEPT !.drops = conn[c].drops + 1]
    OBVIOUS
  <2>2. conn' = [conn EXCEPT ![c] = t]
    BY <1>2, <2>1
  <2>3. c \in DOMAIN conn => conn[c] \in ConnRecs
    BY NetConnTyped DEF NetTypes
  <2>4. ASSUME NEW s \in ConnRecs, s = conn[c] PROVE t.drops \in Nat /\ s.drops <= t.drops /\ t.open = s.open
    BY ONLY <2>1, <2>4 DEF ConnRecs
  <2>5. c \in DOMAIN conn => ConnsStay(0)
    BY <2>2, <2>3, <2>4, NetStaysBut
  <2>6. c \notin DOMAIN conn => conn' = conn
    <3>1. c \notin DOMAIN conn => \A d \in DOMAIN conn : conn'[d] = conn[d]
      BY <2>2
    <3>2. DOMAIN conn' = DOMAIN conn
      BY <2>2
    <3>3. conn \in Seq(ConnRecs)
      BY DEF NetTypes
    <3> QED
      BY <2>2, <3>1, <3>2, <3>3
  <2> QED
    BY <2>5, <2>6, NetStays
<1> QED
  BY <1>1, <1>2 DEF Drop

\* The socket of a server, in its list and not about to close, has an open connection.
LEMMA NetOpenIfQuiet ==
  ASSUME NetInv, EventInv, Regular, NEW h \in Socks, ~sock[h].client, InSeq(h, conns),
         ~sock[h].closing, ~sock[h].closed
  PROVE  conn[sock[h].conn].open
<1>1. SocketsAgree /\ ItemsAgree /\ ItemsRegular /\ SocksRegular
  BY DEF NetInv, NetInvariant
<1>2. PICK c : c = sock[h].conn
  OBVIOUS
<1>3. c # 0 /\ \A g \in Socks : sock[g].conn = c => g = h
  BY <1>1, <1>2 DEF SocketsAgree
<1>4. Listed(h) /\ RegSock(h)
  BY <1>1, <1>2, <1>3 DEF Listed, SocksRegular
<1>5. /\ conn[c].open \/ Waits("close", c) \/ Waits("clear", c) \/ netMain = [at |-> "close", h |-> h]
      /\ sock[h].client \/ (sock[h].closed <=> Waits("clear", c))
  BY <1>2, <1>4 DEF RegSock
<1>6. netMain # [at |-> "close", h |-> h]
  BY DEF EventInv
<1>7. ~Waits("close", c)
  <2>1. ASSUME NEW i \in DOMAIN netRing, netRing[i] \in NetPending, netRing[i].kind = "close", netRing[i].conn = c
        PROVE  FALSE
    <3>1. netRing[i].h \in Socks /\ netRing[i].h # 0
      BY <1>1, <2>1 DEF ItemsAgree, ItemOk
    <3>2. sock[netRing[i].h].conn = c
      BY <1>1, <2>1, <3>1 DEF ItemsRegular, RegItem
    <3>3. netRing[i].h = h
      BY <1>3, <3>1, <3>2
    <3> QED
      BY <2>1, <3>3 DEF EventInv
  <2> QED
    BY <2>1 DEF Waits, NetPending
<1> QED
  BY <1>2, <1>5, <1>6, <1>7

\* What is put.
LEMMA NetPutGoes ==
  ASSUME NEW item \in NetItems, Queue(item), PutOk(item)
  PROVE  RingGoes /\ (item.kind \in {"close", "clear"} => ClosePut(item.conn) \/ item.kind \in Lost(item))
<1>1. CASE HasRoom
  <2>1. netRing' = Append(netRing, item)
    BY <1>1 DEF Queue
  <2> QED
    BY <2>1 DEF RingGoes, ClosePut
<1>2. CASE ~HasRoom
  <2>1. netRing' = netRing /\ Lost(item) = {item.kind} \ {"event"}
    BY <1>2 DEF Queue, Lost
  <2> QED
    BY <2>1 DEF RingGoes
<1> QED
  BY <1>1, <1>2

LEMMA NetEventPut ==
  ASSUME NetTypes, NEW h, UNCHANGED conn, Queue(Event(h)),
         \/ h = 0
         \/ h \in Socks /\ (Regular /\ ~sock[h].closing /\ ~sock[h].closed /\ ~sock[h].client => conn[sock[h].conn].open)
  PROVE  RingGoes
<1>1. h \in Nat
  BY NetSockTyped DEF NetTypes, Socks
<1>2. PICK n \in {0, 1} : Event(h) = Item("event", 0, h, n)
                          /\ (h # 0 /\ n # 1 => ~sock[h].closing /\ ~sock[h].closed)
  BY DEF Event
<1>3. PICK item : item = Item("event", 0, h, n)
  OBVIOUS
<1>4. item \in NetItems /\ item.kind = "event" /\ item.h = h /\ item.n = n
  <2>1. n \in Nat /\ 0 \in Nat
    OBVIOUS
  <2> QED
    BY ONLY <1>1, <1>3, <2>1, NetItemTyped
<1>5. PutOk(item)
  BY <1>2, <1>4 DEF PutOk
<1>6. Queue(item)
  BY <1>2, <1>3
<1> QED
  BY <1>4, <1>5, <1>6, NetPutGoes

LEMMA NetOtherPut ==
  ASSUME NetTypes, NEW kind \in {"accept", "data", "clear"}, NEW c \in Nat, NEW h \in Nat, NEW n \in Nat,
         Queue(Item(kind, c, h, n))
  PROVE  RingGoes /\ (kind = "clear" => ClosePut(c) \/ "clear" \in Lost(Item(kind, c, h, n)))
<1>1. PICK item : item = Item(kind, c, h, n)
  OBVIOUS
<1>2. item \in NetItems /\ item.kind = kind /\ item.conn = c
  BY ONLY <1>1, kind \in {"accept", "data", "clear"}, c \in Nat, h \in Nat, n \in Nat, NetItemTyped
<1>3. PutOk(item)
  BY <1>2 DEF PutOk
<1>4. Queue(item)
  BY <1>1
<1> QED
  BY <1>1, <1>2, <1>3, <1>4, NetPutGoes

LEMMA NetEventReceives ==
  ASSUME NetAssumption, NetInv, EventInv, NetRX
  PROVE  EventStep \/ NetBlank'
<1>1. NetTypes /\ SocketsAgree /\ netRing \in Seq(NetItems) /\ sock \in Seq(SockRecs)
  BY DEF NetInv, NetInvariant, NetTypes
<1>0. sock \in Seq(SockRecs)
  BY <1>1
<1>2. \A c \in DOMAIN conn : c \in Nat /\ conn[c] \in ConnRecs /\ conn[c].packets + 1 \in Nat
  <2>1. \A c \in DOMAIN conn : c \in Nat /\ conn[c] \in ConnRecs /\ conn[c].packets \in Nat
    BY <1>1, NetConnsTyped
  <2> QED
    BY <2>1
<1>3. Len(conn) + 1 \in Nat
  BY <1>1, LenProperties DEF NetTypes
<1>4. \A c \in DOMAIN conn : SocketOf(c) \in Nat /\ (SocketOf(c) # 0 => SocketOf(c) \in Socks)
  BY <1>1, NetSocketOfTyped
<1>5. \A reason : NetFails(reason) => NetBlank'
  BY DEF NetFails, NetBlank
<1>6. ASSUME NEW context \in Contexts, TcpAccepted(context) PROVE EventStep
  <2>1. RingGoes
    <3>1. Queue(Item("accept", Len(conn) + 1, 0, 0))
      BY <1>6 DEF TcpAccepted
    <3> QED
      BY <1>1, <1>3, <3>1, NetOtherPut
  <2>2. ConnsStay(0) /\ SocksGo
    BY <1>1, <1>6, NetStaysGrown, NetSocksSame DEF TcpAccepted, NewConnection
  <2> QED
    BY <1>6, <2>1, <2>2 DEF EventStep, TcpAccepted
<1>7. ASSUME TcpAcceptedFails PROVE EventStep
  <2>1. RingGoes
    BY <1>1, <1>7, NetEventPut DEF TcpAcceptedFails, DeferItem
  <2>2. ConnsStay(0) /\ SocksGo
    BY <1>1, <1>7, NetStays, NetSocksSame DEF TcpAcceptedFails
  <2> QED
    BY <1>7, <2>1, <2>2 DEF EventStep, TcpAcceptedFails, DeferItem
<1>8. ASSUME NEW c, TcpReceived(c) PROVE EventStep
  <2>0. c \in DOMAIN conn /\ conn[c] \in ConnRecs
    BY <1>2, <1>8 DEF TcpReceived, Alive
  <2>1. RingGoes
    <3>1. Queue(Item("data", c, SocketOf(c), conn[c].packets + 1))
      BY <1>8 DEF TcpReceived, DeferItem
    <3> QED
      BY <1>1, <1>2, <1>4, <2>0, <3>1, NetOtherPut
  <2>2. ConnsStay(0)
    <3>1. PICK t : t = [conn[c] EXCEPT !.packets = conn[c].packets + 1]
      OBVIOUS
    <3>2. conn' = [conn EXCEPT ![c] = t]
      BY <1>8, <3>1 DEF TcpReceived
    <3>3. ASSUME NEW s \in ConnRecs, s = conn[c] PROVE t.drops \in Nat /\ s.drops <= t.drops /\ t.open = s.open
      BY ONLY <3>1, <3>3 DEF ConnRecs
    <3> QED
      BY <1>1, <2>0, <3>2, <3>3, NetStaysBut
  <2>3. SocksGo
    BY <1>8, NetSocksSame DEF TcpReceived
  <2> QED
    BY <1>8, <2>1, <2>2, <2>3 DEF EventStep, TcpReceived, DeferItem
<1>9. \A c : PacketTakenAgain(c) => NetBlank'
  BY <1>5 DEF PacketTakenAgain
<1>10. ASSUME NEW c, TcpClosed(c) PROVE EventStep
  <2>1. PICK h : h = SocketOf(c)
    OBVIOUS
  <2>2. c \in DOMAIN conn /\ conn[c] \in ConnRecs /\ h \in Nat /\ h # 0 /\ h \in Socks /\ c \in Nat
    BY <1>2, <1>4, <1>10, <2>1 DEF TcpClosed, Alive
  <2>3. SocksGo /\ sock'[h].closing
    <3>1. PICK t : t = [sock[h] EXCEPT !.closing = TRUE]
      OBVIOUS
    <3>2. sock' = [sock EXCEPT ![h] = t]
      BY <1>10, <2>1, <3>1 DEF TcpClosed
    <3>3. ASSUME NEW s \in SockRecs, s = sock[h]
          PROVE  t.client = s.client /\ t.conn = s.conn /\ (s.closing => t.closing) /\ (s.closed => t.closed)
      BY ONLY <3>1, <3>3, NetMarks
    <3>4. t.closing
      <4>1. sock[h] \in SockRecs
        BY <1>1, <2>2, NetSockTyped DEF Socks
      <4> QED
        BY <3>1, <4>1 DEF SockRecs
    <3> QED
      BY <1>1, <2>2, <3>2, <3>3, <3>4, NetSocksGo
  <2>4. ConnsStay(c)
    <3>1. PICK t : t = [conn[c] EXCEPT !.open = FALSE]
      OBVIOUS
    <3>2. conn' = [conn EXCEPT ![c] = t]
      BY <1>10, <3>1 DEF TcpClosed
    <3>3. ASSUME NEW s \in ConnRecs, s = conn[c] PROVE t.drops \in Nat /\ s.drops <= t.drops
      BY ONLY <3>1, <3>3 DEF ConnRecs
    <3> QED
      BY <1>1, <2>2, <3>2, <3>3, NetStaysBut
  <2>5. PICK item : item = Item("close", c, h, 0)
    OBVIOUS
  <2>6. item \in NetItems /\ item.kind = "close" /\ item.conn = c /\ item.h = h
    BY ONLY <2>2, <2>5, NetItemTyped
  <2>7. Queue(item) /\ netLost' = netLost \cup Lost(item)
    BY <1>10, <2>1, <2>5 DEF TcpClosed, DeferItem
  <2>8. PutOk(item)
    BY <2>2, <2>3, <2>6 DEF PutOk
  <2>9. RingGoes /\ (ClosePut(c) \/ "close" \in Lost(item))
    BY <2>6, <2>7, <2>8, NetPutGoes
  <2>10. Regular' => ClosePut(c)
    BY <2>7, <2>9 DEF Regular, NoCloseLost
  <2> QED
    BY <1>10, <2>3, <2>4, <2>7, <2>9, <2>10 DEF EventStep, TcpClosed
<1>11. ASSUME NEW c, TcpClosedEarly(c) PROVE EventStep
  <2>1. c \in DOMAIN conn /\ conn[c] \in ConnRecs /\ c \in Nat
    BY <1>2, <1>11 DEF TcpClosedEarly, Alive
  <2>2. SocksGo
    BY <1>11, NetSocksSame DEF TcpClosedEarly
  <2>3. ConnsStay(c)
    <3>1. PICK t : /\ conn' = [conn EXCEPT ![c] = t]
                   /\ t = [conn[c] EXCEPT !.open = FALSE] \/ t = [conn[c] EXCEPT !.open = FALSE, !.early = TRUE]
      BY <1>11 DEF TcpClosedEarly
    <3>3. t = [conn[c] EXCEPT !.open = FALSE] \/ t = [conn[c] EXCEPT !.open = FALSE, !.early = TRUE]
      BY <3>1
    <3>2. ASSUME NEW s \in ConnRecs, s = conn[c] PROVE t.drops \in Nat /\ s.drops <= t.drops
      <4>2. t = [s EXCEPT !.open = FALSE] => t \in ConnRecs /\ t.drops = s.drops
        BY ONLY s \in ConnRecs, NetConnShut
      <4>3. t = [s EXCEPT !.open = FALSE, !.early = TRUE] => t \in ConnRecs /\ t.drops = s.drops
        BY ONLY s \in ConnRecs, NetConnEarly
      <4>1. t \in ConnRecs /\ t.drops = s.drops
        BY ONLY <3>2, <3>3, <4>2, <4>3
      <4> QED
        BY ONLY <4>1 DEF ConnRecs
    <3> QED
      BY <1>1, <2>1, <3>1, <3>2, NetStaysBut
  <2>4. netLost \subseteq netLost' /\ RingGoes /\ (Regular' => ClosePut(c))
    <3>1. CASE server.early = NoContext
      <4>1. Queue(Item("clear", c, 0, 0)) /\ netLost' = netLost \cup Lost(Item("clear", c, 0, 0))
        BY <1>11, <3>1 DEF TcpClosedEarly, DeferItem
      <4>2. RingGoes /\ (ClosePut(c) \/ "clear" \in Lost(Item("clear", c, 0, 0)))
        BY <1>1, <2>1, <4>1, NetOtherPut
      <4> QED
        BY <4>1, <4>2 DEF Regular, NoCloseLost
    <3>2. CASE server.early # NoContext
      <4>1. netLost' = netLost \cup {"clear"} /\ netRing' = netRing
        BY <1>11, <3>2 DEF TcpClosedEarly
      <4> QED
        BY <4>1 DEF Regular, NoCloseLost, RingGoes
    <3> QED
      BY <3>1, <3>2
  <2> QED
    BY <1>11, <2>2, <2>3, <2>4 DEF EventStep, TcpClosedEarly
<1>12. ASSUME NEW h \in Socks, TcpConnected(h) PROVE EventStep
  <2>1. sock[h].client
    BY <1>1, <1>12 DEF TcpConnected, SocketsAgree
  <2>2. SocksGo
    <3>4. PICK x, y : x = sock[h].timeout /\ y = Len(conn) + 1
      OBVIOUS
    <3>1. PICK t : t = [sock[h] EXCEPT !.timer = x, !.conn = y]
      OBVIOUS
    <3>2. sock' = [sock EXCEPT ![h] = t]
      BY <1>12, <3>1, <3>4 DEF TcpConnected
    <3>3. ASSUME NEW s \in SockRecs, s = sock[h]
          PROVE  t.client = s.client /\ (s.closing => t.closing) /\ (s.closed => t.closed)
      BY ONLY <3>1, <3>3, NetMarksClient
    <3>5. \A s \in SockRecs : h \in Socks /\ s = sock[h] =>
            /\ t.client = s.client /\ (~s.client => t.conn = s.conn)
            /\ (s.closing => t.closing) /\ (s.closed => t.closed)
      BY ONLY <2>1, <3>3
    <3> QED
      BY ONLY <1>0, <3>2, <3>5, NetSocksGo
  <2>3. ConnsStay(0)
    BY <1>1, <1>12, NetStaysGrown DEF TcpConnected, NewConnection
  <2>4. RingGoes
    <3>1. PICK n \in {0, 1} : Event(h) = Item("event", 0, h, n)
      BY DEF Event
    <3>2. PICK item : item = Item("event", 0, h, n)
      OBVIOUS
    <3>3. h \in Nat /\ n \in Nat /\ 0 \in Nat
      BY <1>1, NetSockTyped DEF Socks
    <3>4. item \in NetItems /\ item.kind = "event" /\ item.h = h
      BY ONLY <3>2, <3>3, NetItemTyped
    <3>5. PutOk(item)
      BY <2>1, <3>4 DEF PutOk
    <3>6. Queue(item)
      BY <1>12, <3>1, <3>2 DEF TcpConnected, DeferItem
    <3> QED
      BY <3>4, <3>5, <3>6, NetPutGoes
  <2> QED
    BY <1>12, <2>2, <2>3, <2>4 DEF EventStep, TcpConnected, DeferItem
<1>13. ASSUME NEW h \in Socks, SocketTimeout(h) PROVE EventStep
  <2>1. SocksGo
    <3>1. PICK t : t = [sock[h] EXCEPT !.timeout = FALSE, !.timer = FALSE]
      OBVIOUS
    <3>2. sock' = [sock EXCEPT ![h] = t]
      BY <1>13, <3>1 DEF SocketTimeout
    <3>3. ASSUME NEW s \in SockRecs, s = sock[h]
          PROVE  t.client = s.client /\ t.conn = s.conn /\ (s.closing => t.closing) /\ (s.closed => t.closed)
      BY ONLY <3>1, <3>3, NetMarks
    <3>5. \A s \in SockRecs : h \in Socks /\ s = sock[h] =>
            /\ t.client = s.client /\ (~s.client => t.conn = s.conn)
            /\ (s.closing => t.closing) /\ (s.closed => t.closed)
      BY ONLY <3>3
    <3> QED
      BY ONLY <1>0, <3>2, <3>5, NetSocksGo
  <2>2. Regular /\ ~sock[h].closing /\ ~sock[h].closed /\ ~sock[h].client => conn[sock[h].conn].open
    <3>1. ~sock[h].client => InSeq(h, conns)
      BY <1>1, <1>13 DEF SocketTimeout, SocketsAgree
    <3> QED
      BY <3>1, NetOpenIfQuiet
  <2>3. RingGoes
    BY <1>1, <1>13, <2>2, NetEventPut DEF SocketTimeout, DeferItem
  <2>4. ConnsStay(0)
    BY <1>1, <1>13, NetStays DEF SocketTimeout
  <2> QED
    BY <1>13, <2>1, <2>3, <2>4 DEF EventStep, SocketTimeout, DeferItem
<1>14. \A h : TimerOfFreed(h) => NetBlank'
  BY <1>5 DEF TimerOfFreed
<1> QED
  BY <1>6, <1>7, <1>8, <1>9, <1>10, <1>11, <1>12, <1>13, <1>14 DEF NetRX

LEMMA NetEventWorks ==
  ASSUME NetAssumption, NetInv, EventInv, NetWork
  PROVE  EventStep \/ NetBlank'
<1>0. sock \in Seq(SockRecs)
  BY DEF NetInv, NetTypes
<1>1. NetTypes /\ SocketsAgree /\ ItemsAgree
  BY DEF NetInv, NetInvariant
<1>2. \A kind : Take(kind) => RingGoes /\ netRing # <<>> /\ Head(netRing).kind = kind
  BY DEF Take, RingGoes, Upcoming
<1>3. \A reason : NetFails(reason) => NetBlank'
  BY DEF NetFails, NetBlank
<1>4. UNCHANGED conn => ConnsStay(0)
  BY <1>1, NetStays
<1>5. \A context, c : Drop(context, c) => ConnsStay(0)
  BY <1>1, NetStaysDropped
<1>6. UNCHANGED sock => SocksGo
  BY NetSocksSame
<1>7. ASSUME AcceptConnection PROVE EventStep
  <2>1. SocksGo
    BY <1>1, <1>7, NetSocksMade DEF AcceptConnection
  <2>2. ConnsStay(0)
    BY <1>4, <1>5, <1>7 DEF AcceptConnection
  <2>3. netMain'.at # "close"
    BY <1>7 DEF AcceptConnection
  <2> QED
    BY <1>2, <1>7, <2>1, <2>2, <2>3 DEF EventStep, AcceptConnection
<1>8. ASSUME AcceptConnectionFails PROVE EventStep
  BY <1>2, <1>5, <1>6, <1>8 DEF EventStep, AcceptConnectionFails
<1>9. ASSUME ReleasePacket PROVE EventStep
  <2>1. netMain'.at # "close"
    BY <1>9 DEF ReleasePacket
  <2> QED
    BY <1>4, <1>6, <1>9, <2>1 DEF EventStep, RingGoes, ReleasePacket
<1>10. ASSUME NEW emits \in BOOLEAN, ReceivePacket(emits) PROVE EventStep
  <2>1. PICK h, buf : h = SocketNow(Head(netRing)) /\ buf = Append(sock[h].buf, <<Head(netRing).conn, Head(netRing).n>>)
    OBVIOUS
  <2>2. PICK x, y, z : /\ x = sock[h].timeout /\ y = (IF emits THEN <<>> ELSE buf)
                       /\ z = IF emits THEN sock[h].given \o ReadAll(h, buf) ELSE sock[h].given
    OBVIOUS
  <2>3. PICK t : t = [sock[h] EXCEPT !.timer = x, !.buf = y, !.given = z]
    OBVIOUS
  <2>4. sock' = [sock EXCEPT ![h] = t]
    BY <1>10, <2>1, <2>2, <2>3 DEF ReceivePacket
  <2>5. ASSUME NEW s \in SockRecs, s = sock[h]
        PROVE  t.client = s.client /\ t.conn = s.conn /\ (s.closing => t.closing) /\ (s.closed => t.closed)
    <3>1. t = [s EXCEPT !.timer = x, !.buf = y, !.given = z]
      BY <2>3, <2>5
    <3> QED
      BY ONLY <3>1, s \in SockRecs, NetMarks
  <2>6. \A s \in SockRecs : h \in Socks /\ s = sock[h] =>
          /\ t.client = s.client /\ (~s.client => t.conn = s.conn)
          /\ (s.closing => t.closing) /\ (s.closed => t.closed)
    BY ONLY <2>5
  <2>7. SocksGo
    BY ONLY <1>0, <2>4, <2>6, NetSocksGo
  <2>8. RingGoes
    BY <1>10 DEF ReceivePacket, Copy, RingGoes, Upcoming
  <2>9. netMain'.at # "close"
    BY <1>10 DEF ReceivePacket
  <2> QED
    BY <1>4, <1>10, <2>7, <2>8, <2>9 DEF EventStep, ReceivePacket
<1>11. ASSUME ReceiveUnknown PROVE EventStep
  <2>1. RingGoes
    BY <1>11 DEF ReceiveUnknown, Copy, RingGoes, Upcoming
  <2>2. netMain'.at # "close"
    BY <1>11 DEF ReceiveUnknown, NetIdle
  <2> QED
    BY <1>4, <1>6, <1>11, <2>1, <2>2 DEF EventStep, ReceiveUnknown
<1>12. ASSUME EmitClose PROVE EventStep
  <2>1. PICK h : h = Head(netRing).h
    OBVIOUS
  <2>2. RingGoes /\ netRing # <<>> /\ Head(netRing).kind = "close"
    BY <1>2, <1>12 DEF EmitClose
  <2>3. Head(netRing) = netRing[1] /\ 1 \in DOMAIN netRing
    BY <2>2, NetShrinks DEF NetInv, NetTypes
  <2>4. h \in Socks /\ sock[h].closing
    <3>1. netRing[1] \in NetPending
      BY <2>2, <2>3 DEF NetPending
    <3> QED
      BY <1>1, <2>1, <2>2, <2>3, <3>1 DEF ItemsAgree, ItemOk, EventInv
  <2>5. PICK x : x = sock[h].closes + 1
    OBVIOUS
  <2>6. PICK t : t = [sock[h] EXCEPT !.closes = x]
    OBVIOUS
  <2>7. sock' = [sock EXCEPT ![h] = t] /\ netMain' = [at |-> "close", h |-> h]
    BY <1>12, <2>1, <2>5, <2>6 DEF EmitClose
  <2>8. ASSUME NEW s \in SockRecs, s = sock[h]
        PROVE  t.client = s.client /\ t.conn = s.conn /\ (s.closing => t.closing) /\ (s.closed => t.closed)
    <3>1. t = [s EXCEPT !.closes = x]
      BY <2>6, <2>8
    <3> QED
      BY ONLY <3>1, s \in SockRecs, NetMarks
  <2>9. \A s \in SockRecs : h \in Socks /\ s = sock[h] =>
          /\ t.client = s.client /\ (~s.client => t.conn = s.conn)
          /\ (s.closing => t.closing) /\ (s.closed => t.closed)
    BY ONLY <2>8
  <2>10. SocksGo
    BY ONLY <1>0, <2>7, <2>9, NetSocksGo
  <2>11. sock'[netMain'.h].closing
    BY <2>4, <2>7, <2>10 DEF SocksGo
  <2> QED
    BY <1>4, <1>12, <2>2, <2>10, <2>11 DEF EventStep, EmitClose
<1>13. ASSUME ClearClosed PROVE EventStep
  <2>1. PICK c, h : c = Head(netRing).conn /\ h = FindConnection(c)
    OBVIOUS
  <2>2. RingGoes /\ netRing # <<>> /\ Head(netRing).kind = "clear"
    BY <1>2, <1>13 DEF ClearClosed
  <2>3. CASE h = 0
    <3>1. UNCHANGED <<sock, refs, conn, netMain>>
      BY <1>13, <2>1, <2>3 DEF ClearClosed
    <3> QED
      BY <1>4, <1>6, <1>13, <2>2, <3>1 DEF EventStep, ClearClosed
  <2>4. CASE h # 0
    <3>1. /\ Drop(sock[h].ctx, sock[h].conn) /\ netMain' = [at |-> "close", h |-> h]
          /\ sock' = [sock EXCEPT ![h] = [sock[h] EXCEPT !.closed = TRUE, !.closes = sock[h].closes + 1]]
      BY <1>13, <2>1, <2>4 DEF ClearClosed
    <3>2. h \in Socks
      <4>1. Head(netRing) = netRing[1] /\ 1 \in DOMAIN netRing
        BY <2>2, NetShrinks DEF NetInv, NetTypes
      <4>2. netRing[1] \in NetPending
        BY <2>2, <4>1 DEF NetPending
      <4>3. c \in DOMAIN conn
        BY <1>1, <2>1, <4>1, <4>2 DEF ItemsAgree, ItemOk
      <4> QED
        BY <1>1, <2>1, <2>4, <4>3, NetFinds
    <3>3. PICK x : x = sock[h].closes + 1
      OBVIOUS
    <3>4. PICK t : t = [sock[h] EXCEPT !.closed = TRUE, !.closes = x]
      OBVIOUS
    <3>5. sock' = [sock EXCEPT ![h] = t]
      BY <3>1, <3>3, <3>4
    <3>6. ASSUME NEW s \in SockRecs, s = sock[h]
          PROVE  t.client = s.client /\ t.conn = s.conn /\ (s.closing => t.closing) /\ (s.closed => t.closed)
      <4>1. t = [s EXCEPT !.closed = TRUE, !.closes = x]
        BY <3>4, <3>6
      <4> QED
        BY ONLY <4>1, s \in SockRecs, NetMarks
    <3>7. \A s \in SockRecs : h \in Socks /\ s = sock[h] =>
            /\ t.client = s.client /\ (~s.client => t.conn = s.conn)
            /\ (s.closing => t.closing) /\ (s.closed => t.closed)
      BY ONLY <3>6
    <3>8. SocksGo /\ (h \in Socks => sock'[h] = t)
      BY ONLY <1>0, <3>5, <3>7, NetSocksGo
    <3>9. sock'[netMain'.h].closed
      <4>1. sock[h] \in SockRecs
        BY <1>0, <3>2, NetSockTyped DEF Socks
      <4>2. t.closed
        BY ONLY <3>4, <4>1 DEF SockRecs
      <4> QED
        BY <3>1, <3>2, <3>8, <4>2
    <3> QED
      BY <1>5, <1>13, <2>2, <3>1, <3>8, <3>9 DEF EventStep, ClearClosed
  <2> QED
    BY <2>3, <2>4
<1>14. ASSUME EmitOther PROVE EventStep
  BY <1>2, <1>4, <1>6, <1>14 DEF EventStep, EmitOther
<1>15. ASSUME ListenersReturn PROVE EventStep
  <2>1. netMain'.at # "close"
    BY <1>15 DEF ListenersReturn, NetIdle
  <2> QED
    BY <1>4, <1>6, <1>15, <2>1 DEF EventStep, RingGoes, ListenersReturn
<1>16. ASSUME ReleaseClose PROVE EventStep
  <2>1. netMain'.at # "close"
    BY <1>16 DEF ReleaseClose, NetIdle
  <2>2. ConnsStay(0)
    BY <1>4, <1>5, <1>16 DEF ReleaseClose, DropUnlessClosed
  <2>3. PICK h, t : h = netMain.h /\ t = [sock[h] EXCEPT !.held = FALSE]
    OBVIOUS
  <2>4. sock' = [sock EXCEPT ![h] = t]
    BY <1>16, <2>3 DEF ReleaseClose
  <2>5. ASSUME NEW s \in SockRecs, s = sock[h]
        PROVE  t.client = s.client /\ t.conn = s.conn /\ (s.closing => t.closing) /\ (s.closed => t.closed)
    <3>1. t = [s EXCEPT !.held = FALSE]
      BY <2>3, <2>5
    <3> QED
      BY ONLY <3>1, s \in SockRecs, NetMarks
  <2>6. \A s \in SockRecs : h \in Socks /\ s = sock[h] =>
          /\ t.client = s.client /\ (~s.client => t.conn = s.conn)
          /\ (s.closing => t.closing) /\ (s.closed => t.closed)
    BY ONLY <2>5
  <2>7. SocksGo
    BY ONLY <1>0, <2>4, <2>6, NetSocksGo
  <2> QED
    BY <1>16, <2>1, <2>2, <2>7 DEF EventStep, RingGoes, ReleaseClose
<1>17. ASSUME ReleaseCloseClient PROVE EventStep
  <2>1. netMain'.at # "close"
    BY <1>17 DEF ReleaseCloseClient, NetIdle
  <2>2. ConnsStay(0)
    BY <1>5, <1>17 DEF ReleaseCloseClient
  <2> QED
    BY <1>6, <1>17, <2>1, <2>2 DEF EventStep, RingGoes, ReleaseCloseClient
<1>18. ReceiveOverflow \/ UseFreedServer \/ UseFreedSocket => NetBlank'
  BY <1>3 DEF ReceiveOverflow, UseFreedServer, UseFreedSocket
<1> QED
  BY <1>7, <1>8, <1>9, <1>10, <1>11, <1>12, <1>13, <1>14, <1>15, <1>16, <1>17, <1>18 DEF NetWork

LEMMA NetEventScripts ==
  ASSUME NetAssumption, NetInv, EventInv, NetScript
  PROVE  EventStep \/ NetBlank'
<1>0. sock \in Seq(SockRecs)
  BY DEF NetInv, NetTypes
<1>1. NetTypes /\ SocketsAgree
  BY DEF NetInv, NetInvariant
<1>2. \A reason : NetFails(reason) => NetBlank'
  BY DEF NetFails, NetBlank
<1>3. UNCHANGED conn => ConnsStay(0)
  BY <1>1, NetStays
<1>4. UNCHANGED sock => SocksGo
  BY NetSocksSame
<1>5. UNCHANGED netRing => RingGoes
  BY DEF RingGoes
<1>6. ASSUME NEW h, NEW t, sock' = [sock EXCEPT ![h] = t], NEW x,
             \/ t = [sock[h] EXCEPT !.timer = x]
             \/ t = [sock[h] EXCEPT !.paused = x] \/ t = [sock[h] EXCEPT !.ctx = x]
      PROVE  SocksGo
  <2>1. ASSUME NEW s \in SockRecs, s = sock[h]
        PROVE  t.client = s.client /\ t.conn = s.conn /\ (s.closing => t.closing) /\ (s.closed => t.closed)
    <3>1. t = [s EXCEPT !.timer = x] \/ t = [s EXCEPT !.paused = x] \/ t = [s EXCEPT !.ctx = x]
      BY <1>6, <2>1
    <3>2. CASE t = [s EXCEPT !.timer = x]
      BY ONLY <3>2, s \in SockRecs, NetMarks
    <3>3. CASE t = [s EXCEPT !.paused = x]
      BY ONLY <3>3, s \in SockRecs, NetMarks
    <3>4. CASE t = [s EXCEPT !.ctx = x]
      BY ONLY <3>4, s \in SockRecs, NetMarks
    <3> QED
      BY <3>1, <3>2, <3>3, <3>4
  <2>2. \A s \in SockRecs : h \in Socks /\ s = sock[h] =>
          /\ t.client = s.client /\ (~s.client => t.conn = s.conn)
          /\ (s.closing => t.closing) /\ (s.closed => t.closed)
    BY ONLY <2>1
  <2>3. sock' = [sock EXCEPT ![h] = t]
    BY <1>6
  <2> QED
    BY ONLY <1>0, <2>2, <2>3, NetSocksGo
<1>7. ASSUME NEW h, NEW t, sock' = [sock EXCEPT ![h] = t], NEW x, NEW y, h \in Socks => sock[h].client,
             t = [sock[h] EXCEPT !.conn = y] \/ t = [sock[h] EXCEPT !.ctx = x, !.conn = y]
      PROVE  SocksGo
  <2>1. ASSUME NEW s \in SockRecs, s = sock[h]
        PROVE  t.client = s.client /\ (s.closing => t.closing) /\ (s.closed => t.closed)
    <3>1. t = [s EXCEPT !.conn = y] \/ t = [s EXCEPT !.ctx = x, !.conn = y]
      BY <1>7, <2>1
    <3> QED
      BY ONLY <3>1, s \in SockRecs, NetMarksClient
  <2>4. h \in Socks => sock[h].client
    BY <1>7
  <2>2. \A s \in SockRecs : h \in Socks /\ s = sock[h] =>
          /\ t.client = s.client /\ (~s.client => t.conn = s.conn)
          /\ (s.closing => t.closing) /\ (s.closed => t.closed)
    BY ONLY <2>1, <2>4
  <2>3. sock' = [sock EXCEPT ![h] = t]
    BY <1>7
  <2> QED
    BY ONLY <1>0, <2>2, <2>3, NetSocksGo
<1>8. ASSUME NEW h \in Socks, PauseOrResume(h) PROVE EventStep
  <2>1. SocksGo
    <3>1. PICK x, t : x = ~sock[h].paused /\ t = [sock[h] EXCEPT !.paused = x]
      OBVIOUS
    <3>2. sock' = [sock EXCEPT ![h] = t]
      BY <1>8, <3>1 DEF PauseOrResume
    <3> QED
      BY <1>6, <3>1, <3>2
  <2> QED
    BY <1>3, <1>5, <1>8, <2>1 DEF EventStep, PauseOrResume
<1>9. ASSUME NEW h \in Socks, NEW time \in BOOLEAN, SetSocketTimeout(h, time) PROVE EventStep
  <2>1. SocksGo
    <3>1. PICK x, y, t : x = time /\ y = time /\ t = [sock[h] EXCEPT !.timeout = x, !.timer = y]
      OBVIOUS
    <3>2. sock' = [sock EXCEPT ![h] = t]
      BY <1>9, <3>1 DEF SetSocketTimeout
    <3>3. ASSUME NEW s \in SockRecs, s = sock[h]
          PROVE  t.client = s.client /\ t.conn = s.conn /\ (s.closing => t.closing) /\ (s.closed => t.closed)
      <4>1. t = [s EXCEPT !.timeout = x, !.timer = y]
        BY <3>1, <3>3
      <4> QED
        BY ONLY <4>1, s \in SockRecs, NetMarks
    <3>4. \A s \in SockRecs : h \in Socks /\ s = sock[h] =>
            /\ t.client = s.client /\ (~s.client => t.conn = s.conn)
            /\ (s.closing => t.closing) /\ (s.closed => t.closed)
      BY ONLY <3>3
    <3> QED
      BY ONLY <1>0, <3>2, <3>4, NetSocksGo
  <2> QED
    BY <1>3, <1>5, <1>9, <2>1 DEF EventStep, SetSocketTimeout
<1>10. ASSUME NEW h \in Socks, SocketWrite(h) PROVE EventStep
  <2>1. SocksGo
    <3>1. PICK x, t : x = sock[h].timeout /\ t = [sock[h] EXCEPT !.timer = x]
      OBVIOUS
    <3>2. sock' = [sock EXCEPT ![h] = t]
      BY <1>10, <3>1 DEF SocketWrite, Restarted
    <3> QED
      BY <1>6, <3>1, <3>2
  <2>2. Regular /\ ~sock[h].closing /\ ~sock[h].closed /\ ~sock[h].client => conn[sock[h].conn].open
    <3>1. ~sock[h].client => InSeq(h, conns)
      BY <1>1, <1>10 DEF SocketWrite, ScriptUses, SocketsAgree
    <3> QED
      BY <3>1, NetOpenIfQuiet
  <2>3. RingGoes /\ netLost \subseteq netLost'
    <3>1. CASE UNCHANGED <<netRing, netLost>>
      BY <1>5, <3>1
    <3>2. CASE DeferItem(Event(h))
      BY <1>1, <1>10, <2>2, <3>2, NetEventPut DEF SocketWrite, DeferItem
    <3> QED
      BY <1>10, <3>1, <3>2 DEF SocketWrite
  <2> QED
    BY <1>3, <1>10, <2>1, <2>3 DEF EventStep, SocketWrite
<1>11. ASSUME NEW h \in Socks, NEW context \in Contexts, SocketConnect(h, context) PROVE EventStep
  <2>1. SocksGo
    <3>1. PICK t : t = [sock[h] EXCEPT !.ctx = context]
      OBVIOUS
    <3>2. sock' = [sock EXCEPT ![h] = t]
      BY <1>11, <3>1 DEF SocketConnect
    <3> QED
      BY <1>6, <3>1, <3>2
  <2> QED
    BY <1>3, <1>5, <1>11, <2>1 DEF EventStep, SocketConnect
<1>12. ASSUME NEW h \in Socks, SocketConnectAgain(h) PROVE EventStep
  <2>1. SocksGo
    <3>1. PICK t : t = [sock[h] EXCEPT !.conn = 0]
      OBVIOUS
    <3>2. sock' = [sock EXCEPT ![h] = t] /\ sock[h].client
      BY <1>1, <1>12, <3>1 DEF SocketConnectAgain, SocketsAgree
    <3> QED
      BY <1>7, <3>1, <3>2
  <2> QED
    BY <1>3, <1>5, <1>12, <2>1 DEF EventStep, SocketConnectAgain
<1>13. ASSUME NEW h \in Socks, SocketConnectFails(h) PROVE EventStep
  <2>1. sock[h].client /\ Queue(Event(h)) /\ UNCHANGED netMain
    BY <1>13 DEF SocketConnectFails
  <2>2. RingGoes
    <3>1. PICK n \in {0, 1} : Event(h) = Item("event", 0, h, n)
      BY DEF Event
    <3>2. PICK item : item = Item("event", 0, h, n)
      OBVIOUS
    <3>3. h \in Nat /\ n \in Nat /\ 0 \in Nat
      BY <1>0, NetSockTyped DEF Socks
    <3>4. item \in NetItems /\ item.kind = "event" /\ item.h = h
      BY ONLY <3>2, <3>3, NetItemTyped
    <3>5. PutOk(item)
      BY <2>1, <3>4 DEF PutOk
    <3>6. Queue(item)
      BY <2>1, <3>1, <3>2
    <3> QED
      BY <3>4, <3>5, <3>6, NetPutGoes
  <2>3. CASE sock[h].ctx = NoContext
    <3>1. UNCHANGED <<sock, conn, netLost>>
      BY <1>13, <2>3 DEF SocketConnectFails
    <3> QED
      BY <1>3, <1>4, <2>1, <2>2, <3>1 DEF EventStep
  <2>4. CASE sock[h].ctx # NoContext
    <3>1. /\ Drop(sock[h].ctx, sock[h].conn) /\ netLost' = netLost \cup {"reused"}
          /\ sock' = [sock EXCEPT ![h] = [sock[h] EXCEPT !.ctx = NoContext, !.conn = 0]]
      BY <1>13, <2>4 DEF SocketConnectFails
    <3>2. PICK x, y, t : x = NoContext /\ y = 0 /\ t = [sock[h] EXCEPT !.ctx = x, !.conn = y]
      OBVIOUS
    <3>3. sock' = [sock EXCEPT ![h] = t]
      BY <3>1, <3>2
    <3>4. SocksGo
      BY <1>7, <2>1, <3>2, <3>3
    <3>5. ConnsStay(0)
      BY <1>1, <3>1, NetStaysDropped
    <3> QED
      BY <2>1, <2>2, <3>1, <3>4, <3>5 DEF EventStep
  <2> QED
    BY <2>3, <2>4
<1>14. ASSUME NewClientSocket PROVE EventStep
  <2>1. SocksGo
    BY <1>1, <1>14, NetSocksMade DEF NewClientSocket
  <2> QED
    BY <1>3, <1>5, <1>14, <2>1 DEF EventStep, NewClientSocket
<1>15. ASSUME ServerListen PROVE EventStep
  <2>1. RingGoes
    BY <1>1, <1>15, NetEventPut DEF ServerListen, DeferItem
  <2> QED
    BY <1>3, <1>4, <1>15, <2>1 DEF EventStep, ServerListen, DeferItem
<1>16. ASSUME ServerClose PROVE EventStep
  BY <1>3, <1>4, <1>5, <1>16 DEF EventStep, ServerClose
<1>17. ASSUME CollectServer PROVE EventStep
  BY <1>3, <1>4, <1>5, <1>17 DEF EventStep, CollectServer
<1>18. ScriptUsesFreed => NetBlank'
  BY <1>2 DEF ScriptUsesFreed
<1> QED
  BY <1>8, <1>9, <1>10, <1>11, <1>12, <1>13, <1>14, <1>15, <1>16, <1>17, <1>18 DEF NetScript

LEMMA NetBlankEvents ==
  ASSUME NetBlank
  PROVE  EventInv
  BY DEF NetBlank, EventInv, NetIdle

LEMMA NetEventInductive ==
  ASSUME NetAssumption, NetInv, EventInv, [NetNext]_netVars
  PROVE  EventInv'
<1>2. ASSUME NetBlank' PROVE EventInv'
  BY <1>2, NetBlankEvents, PTL
<1>3. CASE NetRests \/ UNCHANGED netVars
  <2>1. UNCHANGED netVars
    BY <1>3 DEF NetRests
  <2>2. SocksGo /\ RingGoes /\ ConnsStay(0)
    BY <2>1, NetSocksSame, NetStays DEF netVars, RingGoes, NetInv
  <2>3. EventStep
    BY <2>1, <2>2 DEF EventStep, netVars
  <2> QED
    BY <2>3, NetEventKept
<1>4. CASE NetRX \/ NetWork \/ NetScript
  <2>1. EventStep \/ NetBlank'
    BY <1>4, NetEventReceives, NetEventWorks, NetEventScripts
  <2> QED
    BY <1>2, <2>1, NetEventKept
<1> QED
  BY <1>3, <1>4 DEF NetNext

\* While no close is lost and no context dropped twice, the socket that a deferred item names
\* is in its list, and what is in a list is not freed: but for the event of a timer that expired
\* when the close was on its way.
LEMMA NetQueuedHeld ==
  ASSUME NetInv, EventInv, Regular, netRing # <<>>, NEW first, first = Head(netRing), first.h # 0
  PROVE  sock[first.h].held \/ (first.kind = "event" /\ first.n = 1)
<1>1. first = netRing[1] /\ 1 \in DOMAIN netRing
  BY NetShrinks DEF NetInv, NetTypes
<1>2. SocketsAgree /\ SocksRegular
  BY DEF NetInv, NetInvariant
<1>3. PICK g, c : g = first.h /\ c = sock[g].conn
  OBVIOUS
<1>4. ASSUME g \in Socks, c # 0, conn[c].open \/ HasItem(c)
      PROVE  sock[g].held
  <2>1. Listed(g)
    BY <1>2, <1>3, <1>4 DEF SocksRegular, RegSock
  <2>2. sock[g].client \in BOOLEAN /\ sock[g].held \in BOOLEAN
    BY <1>4, NetSockTyped DEF NetInv, NetTypes, Socks
  <2> QED
    BY <1>2, <1>4, <2>1, <2>2 DEF SocketsAgree, Listed
<1>5. CASE first.kind = "event" /\ first.n # 1
  <2>1. g \in Socks /\ (~sock[g].client => conn[c].open \/ ClosesBehind(1, c))
    BY <1>1, <1>3, <1>5 DEF EventInv, EventOk
  <2>2. ClosesBehind(1, c) => HasItem(c)
    BY DEF ClosesBehind, HasItem, NetPending
  <2>3. sock[g].client => sock[g].held
    BY <1>2, <2>1 DEF SocketsAgree
  <2>4. ~sock[g].client => c # 0
    BY <1>2, <1>3, <2>1 DEF SocketsAgree
  <2> QED
    BY <1>3, <1>4, <2>1, <2>2, <2>3, <2>4
<1>6. CASE first.kind # "event"
  <2>1. first \in NetPending
    BY <1>1, <1>6 DEF NetPending
  <2>2. g \in Socks /\ first.conn \in DOMAIN conn
    BY <1>3, <2>1 DEF NetInv, NetInvariant, ItemsAgree, ItemOk
  <2>3. c = first.conn
    BY <1>3, <2>1 DEF NetInv, NetInvariant, ItemsRegular, RegItem
  <2>4. HasItem(c)
    BY <2>1, <2>3 DEF HasItem
  <2>5. c # 0
    BY <2>2, <2>3, LenProperties DEF NetInv, NetTypes
  <2> QED
    BY <1>3, <1>4, <2>2, <2>4, <2>5
<1> QED
  BY <1>5, <1>6

LEMMA NetHeldUnlessFreed ==
  ASSUME NetInv, EventInv, [NetNext]_netVars
  PROVE  netFault = "none" /\ netFault' = "freed_socket" =>
           ~Regular \/ (Head(netRing).kind = "event" /\ Head(netRing).n = 1)
<1> SUFFICES ASSUME netFault = "none", netFault' = "freed_socket"
             PROVE  ~Regular \/ (Head(netRing).kind = "event" /\ Head(netRing).n = 1)
  OBVIOUS
<1>1. netFault' # netFault
  OBVIOUS
<1>2. UseFreedSocket
  <2>1. ~(NetRests \/ UNCHANGED netVars)
    BY <1>1 DEF NetRests, netVars
  <2>2. ~NetScript
    BY <1>1 DEF NetScript, PauseOrResume, SocketWrite, SocketConnectAgain, SocketConnectFails, SetSocketTimeout,
                SocketConnect, NewClientSocket, ServerListen, ServerClose, CollectServer, ScriptUsesFreed, NetFails
  <2>3. ~NetRX
    BY <1>1 DEF NetRX, TcpAccepted, TcpAcceptedFails, TcpReceived, PacketTakenAgain, TcpClosed, TcpClosedEarly,
                TcpConnected, SocketTimeout, TimerOfFreed, NetFails
  <2>4. NetWork => UseFreedSocket
    <3>1. ~(AcceptConnection \/ AcceptConnectionFails \/ ReceiveUnknown \/ EmitClose \/ ClearClosed \/ EmitOther)
      BY <1>1 DEF AcceptConnection, AcceptConnectionFails, ReceiveUnknown, EmitClose, ClearClosed, EmitOther
    <3>2. ~\E emits \in BOOLEAN : ReceivePacket(emits)
      BY <1>1 DEF ReceivePacket
    <3>3. ~(ReleasePacket \/ ListenersReturn \/ ReleaseClose \/ ReleaseCloseClient)
      BY <1>1 DEF ReleasePacket, ListenersReturn, ReleaseClose, ReleaseCloseClient
    <3>4. ~(ReceiveOverflow \/ UseFreedServer)
      BY DEF ReceiveOverflow, UseFreedServer, NetFails
    <3> QED
      BY <3>1, <3>2, <3>3, <3>4 DEF NetWork
  <2> QED
    BY <2>1, <2>2, <2>3, <2>4 DEF NetNext
<1>3. netRing # <<>> /\ Head(netRing).h # 0 /\ ~sock[Head(netRing).h].held
  BY <1>2 DEF UseFreedSocket, SocketHeld
<1> QED
  BY <1>3, NetQueuedHeld

\* Deferred work meets a freed socket only after a close was lost, a context dropped twice or used
\* again while a client's socket named it, or as the event of a timer that expired behind the close.
THEOREM QueuedSocketIsHeldTheorem == NetSpec => QueuedSocketIsHeld
<1>1. NetInit => NetInv /\ EventInv
  <2>1. NetInit => NetBlank
    BY DEF NetInit, NetBlank
  <2> QED
    BY <2>1, NetBlankIs, NetBlankEvents
<1>2. NetInv /\ EventInv /\ [NetNext]_netVars => NetInv' /\ EventInv'
  BY NetAssumption, NetInductive, NetEventInductive
<1>3. NetInv /\ EventInv /\ [NetNext]_netVars =>
        [netFault = "none" /\ netFault' = "freed_socket" =>
           ~Regular \/ (Head(netRing).kind = "event" /\ Head(netRing).n = 1)]_netVars
  BY NetHeldUnlessFreed
<1> QED
  BY <1>1, <1>2, <1>3, PTL DEF NetSpec, QueuedSocketIsHeld
=============================================================================
