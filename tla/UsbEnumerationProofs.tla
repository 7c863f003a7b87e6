------------------------ MODULE UsbEnumerationProofs ------------------------
(***************************************************************************)
(* What the host can open in the enumerated device, in any build: every      *)
(* pipe has an endpoint that the driver created, no two pipes collide, the   *)
(* functions do not overlap, the one for MBIM leads to the channel, and the  *)
(* lengths and counts that the host tests are those of the table.            *)
(*                                                                          *)
(* A table is a concatenation of parts.  What is needed of it is shown of   *)
(* each part and composed, so a part that is replaced leaves the rest of    *)
(* the argument alone.                                                      *)
(***************************************************************************)
EXTENDS UsbEnumeration, FiniteSetTheorems, WellFoundedInduction, TLAPS

IsA(s, j, type) == j \in DOMAIN s /\ s[j].type = type

\* Every endpoint of the part s has an address in A, ...
Offers(s, A) == \A j : IsA(s, j, "endpoint") => s[j].address \in A

\* ... and no two have the same.
Distinct(s) ==
    \A j, k : IsA(s, j, "endpoint") /\ IsA(s, k, "endpoint")
              /\ s[j].address = s[k].address => j = k

\* The part has interfaces with the numbers in N, ...
Has(s, N) == \A n \in N : \E i : IsA(s, i, "interface") /\ s[i].number = n

\* ... and what its associations count is in G, and no two count the same.
Counted(a) == a.first .. (a.first + a.count - 1)
Grouped(s, G) ==
    \A a : IsA(s, a, "association") =>
        /\ s[a].first \in Counted(s[a]) /\ Counted(s[a]) \subseteq G
        /\ \A b : IsA(s, b, "association") /\ s[b].first \in Counted(s[a]) => a = b

Part(s, A, N, G) ==
    /\ \E S : s \in Seq(S)
    /\ Offers(s, A)
    /\ Distinct(s)
    /\ Has(s, N)
    /\ Grouped(s, G)
-----------------------------------------------------------------------------
(* Composition.                                                             *)

\* The parts s and t, of n and l descriptors, side by side in u.
Joins(u, s, n, t, l) ==
    /\ n \in Nat /\ l \in Nat
    /\ DOMAIN s = 1..n /\ DOMAIN t = 1..l /\ DOMAIN u = 1..(n + l)
    /\ \A k \in 1..n : u[k] = s[k]
    /\ \A k \in 1..l : u[k + n] = t[k]

\* That is what a concatenation is.
LEMMA ConcatenationJoins ==
    ASSUME NEW S, NEW s \in Seq(S), NEW T, NEW t \in Seq(T)
    PROVE  Joins(s \o t, s, Len(s), t, Len(t))
<1> DEFINE u == s \o t
           n == Len(s)
           l == Len(t)
<1>1. /\ s \in Seq(S \cup T) /\ t \in Seq(S \cup T)
      /\ u \in Seq(S \cup T) /\ Len(u) = n + l
      /\ \A k \in 1..Len(u) : u[k] = IF k <= n THEN s[k] ELSE t[k - n]
  OBVIOUS
<1>2. /\ n \in Nat /\ l \in Nat
      /\ DOMAIN s = 1..n /\ DOMAIN t = 1..l /\ DOMAIN u = 1..(n + l)
  BY <1>1
<1> HIDE DEF u, n, l
<1>3. ASSUME NEW k \in 1..n PROVE u[k] = s[k]
  <2>1. k \in 1..Len(u) /\ k <= n
    BY <1>1, <1>2
  <2> QED
    BY <1>1, <2>1
<1>4. ASSUME NEW k \in 1..l PROVE u[k + n] = t[k]
  <2> DEFINE m == k + n
  <2>1. m \in 1..Len(u) /\ ~ (m <= n) /\ m - n = k
    BY <1>1, <1>2
  <2> HIDE DEF m
  <2>2. u[m] = t[m - n]
    BY <1>1, <2>1
  <2>3. u[m] = t[k]
    BY <2>1, <2>2
  <2> QED
    BY <2>3 DEF m
<1>5. Joins(u, s, n, t, l)
  BY <1>2, <1>3, <1>4 DEF Joins
<1> QED
  BY <1>5 DEF u, n, l

\* Parts that share no address and no associated interface make a part.
LEMMA Concatenation ==
    ASSUME NEW s, NEW A, NEW N, NEW G, Part(s, A, N, G),
           NEW t, NEW B, NEW M, NEW H, Part(t, B, M, H),
           A \cap B = {}, G \cap H = {}
    PROVE  Part(s \o t, A \cup B, N \cup M, G \cup H)
<1> DEFINE u == s \o t
           n == Len(s)
           FromS(j, type) == j <= n /\ IsA(s, j, type) /\ u[j] = s[j]
           FromT(j, type) == j > n /\ IsA(t, j - n, type) /\ u[j] = t[j - n]
<1>1. PICK S : s \in Seq(S)
  BY DEF Part
<1>2. PICK T : t \in Seq(T)
  BY DEF Part
<1>3. u \in Seq(S \cup T) /\ Joins(u, s, n, t, Len(t))
  <2>1. s \in Seq(S \cup T) /\ t \in Seq(S \cup T)
    BY <1>1, <1>2
  <2> QED
    BY <1>1, <1>2, <2>1, ConcatenationJoins
<1> HIDE DEF u, n
<1>4. ASSUME NEW j, NEW type, IsA(u, j, type)
      PROVE  j \in Int /\ (FromS(j, type) \/ FromT(j, type))
  <2>1. j \in 1..(n + Len(t)) /\ n \in Nat /\ Len(t) \in Nat
    BY <1>3, <1>4 DEF IsA, Joins
  <2>2. CASE j \in 1..n
    BY <1>3, <1>4, <2>2 DEF IsA, Joins
  <2>3. CASE j \notin 1..n
    <3>1. j - n \in 1..Len(t) /\ j - n + n = j /\ j > n
      BY <2>1, <2>3
    <3>2. u[j - n + n] = t[j - n]
      BY <1>3, <3>1 DEF Joins
    <3> QED
      BY <1>3, <1>4, <3>1, <3>2 DEF IsA, Joins
  <2> QED
    BY <2>1, <2>2, <2>3
<1>5. ASSUME NEW j, NEW type
      PROVE  /\ IsA(s, j, type) => IsA(u, j, type) /\ u[j] = s[j]
             /\ IsA(t, j, type) => IsA(u, j + n, type) /\ u[j + n] = t[j]
  BY <1>3 DEF IsA, Joins
<1>6. /\ Offers(s, A) /\ Distinct(s) /\ Has(s, N) /\ Grouped(s, G)
      /\ Offers(t, B) /\ Distinct(t) /\ Has(t, M) /\ Grouped(t, H)
  BY DEF Part
<1>7. Offers(u, A \cup B)
  BY <1>4, <1>6 DEF Offers
<1>8. Distinct(u)
  <2> SUFFICES ASSUME NEW j, NEW k, IsA(u, j, "endpoint"), IsA(u, k, "endpoint"),
                      u[j].address = u[k].address
               PROVE  j = k
    BY DEF Distinct
  <2>1. /\ FromS(j, "endpoint") \/ FromT(j, "endpoint")
        /\ FromS(k, "endpoint") \/ FromT(k, "endpoint")
        /\ j \in Int /\ k \in Int
    BY <1>4
  <2>2. CASE FromS(j, "endpoint") /\ FromS(k, "endpoint")
    BY <1>6, <2>2 DEF Distinct
  <2>3. CASE FromT(j, "endpoint") /\ FromT(k, "endpoint")
    <3>1. j - n = k - n
      BY <1>6, <2>3 DEF Distinct
    <3> QED
      BY <2>1, <3>1, <1>3 DEF Joins
  <2> QED
    BY <1>6, <2>1, <2>2, <2>3 DEF Offers
<1>9. Has(u, N \cup M)
  <2> SUFFICES ASSUME NEW i \in N \cup M
               PROVE  \E j : IsA(u, j, "interface") /\ u[j].number = i
    BY DEF Has
  <2>1. CASE i \in N
    BY <1>5, <1>6, <2>1 DEF Has
  <2>2. CASE i \in M
    BY <1>5, <1>6, <2>2 DEF Has
  <2> QED
    BY <2>1, <2>2
<1>10. Grouped(u, G \cup H)
  <2>1. ASSUME NEW a, FromS(a, "association")
        PROVE  u[a].first \in Counted(u[a]) /\ Counted(u[a]) \subseteq G
    BY <1>6, <2>1 DEF Grouped
  <2>2. ASSUME NEW a, FromT(a, "association")
        PROVE  u[a].first \in Counted(u[a]) /\ Counted(u[a]) \subseteq H
    BY <1>6, <2>2 DEF Grouped
  <2>3. ASSUME NEW a, NEW b, IsA(u, a, "association"), IsA(u, b, "association"),
               u[b].first \in Counted(u[a])
        PROVE  a = b
    <3>1. /\ FromS(a, "association") \/ FromT(a, "association")
          /\ FromS(b, "association") \/ FromT(b, "association")
          /\ a \in Int /\ b \in Int
      BY <1>4, <2>3
    <3>2. CASE FromS(a, "association") /\ FromS(b, "association")
      BY <1>6, <2>3, <3>2 DEF Grouped
    <3>3. CASE FromT(a, "association") /\ FromT(b, "association")
      <4>1. a - n = b - n
        BY <1>6, <2>3, <3>3 DEF Grouped
      <4> QED
        BY <3>1, <4>1, <1>3 DEF Joins
    <3> HIDE DEF FromS, FromT
    <3>4. CASE FromS(a, "association") /\ FromT(b, "association")
      BY <2>1, <2>2, <2>3, <3>4
    <3>5. CASE FromT(a, "association") /\ FromS(b, "association")
      BY <2>1, <2>2, <2>3, <3>5
    <3> QED
      BY <3>1, <3>2, <3>3, <3>4, <3>5
  <2> HIDE DEF FromS, FromT
  <2> QED
    BY <1>4, <2>1, <2>2, <2>3 DEF Grouped
<1>11. Part(u, A \cup B, N \cup M, G \cup H)
  BY <1>3, <1>7, <1>8, <1>9, <1>10 DEF Part
<1> QED
  BY <1>11 DEF u
-----------------------------------------------------------------------------
(* The tables.                                                              *)

\* The MBIM function of the SuperSpeed build.
LEMMA Usb30MbimPart ==
    Part(Usb30Mbim, {InterruptEndpointAddress, BulkInEndpointAddress,
                     BulkOutEndpointAddress}, {0, 1}, {0, 1})
<1> DEFINE A == {InterruptEndpointAddress, BulkInEndpointAddress, BulkOutEndpointAddress}
<1>1. \E S : Usb30Mbim \in Seq(S)
  <2> DEFINE S == {Usb30Mbim[i] : i \in 1..16}
  <2>1. \A i \in 1..16 : Usb30Mbim[i] \in S
    OBVIOUS
  <2> HIDE DEF S
  <2>2. Usb30Mbim \in Seq(S)
    BY <2>1 DEF Usb30Mbim
  <2> QED
    BY <2>2
<1> USE DEF IsA, Usb30Mbim, Association, Interface, Functional, Union,
            MbimFunctional, Endpoint, Companion, InterruptEndpointAddress,
            BulkInEndpointAddress, BulkOutEndpointAddress,
            CommunicationInterfaceIndex, DataInterfaceIndex
<1>2. Offers(Usb30Mbim, A)
  BY DEF Offers
<1>3. Distinct(Usb30Mbim)
  BY DEF Distinct
<1>4. Has(Usb30Mbim, {0, 1})
  BY DEF Has
<1>5. Grouped(Usb30Mbim, {0, 1})
  BY DEF Grouped, Counted
<1> QED
  BY <1>1, <1>2, <1>3, <1>4, <1>5 DEF Part

\* Its HID function.
LEMMA Usb30HidPart ==
    Part(Usb30Hid, {MSBulkIn(0)}, {10}, {10})
<1> DEFINE A == {MSBulkIn(0)}
<1>1. \E S : Usb30Hid \in Seq(S)
  <2> DEFINE S == {Usb30Hid[i] : i \in 1..5}
  <2>1. \A i \in 1..5 : Usb30Hid[i] \in S
    OBVIOUS
  <2> HIDE DEF S
  <2>2. Usb30Hid \in Seq(S)
    BY <2>1 DEF Usb30Hid
  <2> QED
    BY <2>2
<1> USE DEF IsA, Usb30Hid, Association, Interface, Hid, Endpoint, Companion, MSBulkIn,
            MSInterfaceIndex
<1>2. Offers(Usb30Hid, A)
  BY DEF Offers
<1>3. Distinct(Usb30Hid)
  BY DEF Distinct
<1>4. Has(Usb30Hid, {10})
  BY DEF Has
<1>5. Grouped(Usb30Hid, {10})
  BY DEF Grouped, Counted
<1> QED
  BY <1>1, <1>2, <1>3, <1>4, <1>5 DEF Part

\* The MBIM function of the USB 2.0 build.
LEMMA Usb20MbimPart ==
    Part(Usb20Mbim, {InterruptEndpointAddress, BulkInEndpointAddress,
                     BulkOutEndpointAddress}, {0, 1}, {0, 1})
<1> DEFINE A == {InterruptEndpointAddress, BulkInEndpointAddress, BulkOutEndpointAddress}
<1>1. \E S : Usb20Mbim \in Seq(S)
  <2> DEFINE S == {Usb20Mbim[i] : i \in 1..13}
  <2>1. \A i \in 1..13 : Usb20Mbim[i] \in S
    OBVIOUS
  <2> HIDE DEF S
  <2>2. Usb20Mbim \in Seq(S)
    BY <2>1 DEF Usb20Mbim
  <2> QED
    BY <2>2
<1> USE DEF IsA, Usb20Mbim, Association, Interface, Functional, Union,
            MbimFunctional, Endpoint, InterruptEndpointAddress,
            BulkInEndpointAddress, BulkOutEndpointAddress,
            CommunicationInterfaceIndex, DataInterfaceIndex
<1>2. Offers(Usb20Mbim, A)
  BY DEF Offers
<1>3. Distinct(Usb20Mbim)
  BY DEF Distinct
<1>4. Has(Usb20Mbim, {0, 1})
  BY DEF Has
<1>5. Grouped(Usb20Mbim, {0, 1})
  BY DEF Grouped, Counted
<1> QED
  BY <1>1, <1>2, <1>3, <1>4, <1>5 DEF Part

\* The mouse: its association counts an interface it does not have.
LEMMA MousePart ==
    Part(Mouse, {MouseInterruptEndpointAddress}, {0}, {0, 1})
<1> DEFINE A == {MouseInterruptEndpointAddress}
<1>1. \E S : Mouse \in Seq(S)
  <2> DEFINE S == {Mouse[i] : i \in 1..4}
  <2>1. \A i \in 1..4 : Mouse[i] \in S
    OBVIOUS
  <2> HIDE DEF S
  <2>2. Mouse \in Seq(S)
    BY <2>1 DEF Mouse
  <2> QED
    BY <2>2
<1> USE DEF IsA, Mouse, Association, Interface, Hid, Endpoint, MouseInterruptEndpointAddress
<1>2. Offers(Mouse, A)
  BY DEF Offers
<1>3. Distinct(Mouse)
  BY DEF Distinct
<1>4. Has(Mouse, {0})
  BY DEF Has
<1>5. Grouped(Mouse, {0, 1})
  BY DEF Grouped, Counted
<1> QED
  BY <1>1, <1>2, <1>3, <1>4, <1>5 DEF Part

\* A pair of bulk endpoints of the vendor function.
LEMMA BulkPairPart ==
    ASSUME NEW i \in 0..3
    PROVE  Part(BulkPair(i), {MSBulkIn(i), MSBulkOut(i)}, {}, {})
<1> DEFINE s == BulkPair(i)
<1>1. \E S : s \in Seq(S)
  <2> DEFINE S == {s[j] : j \in 1..2}
  <2>1. \A j \in 1..2 : s[j] \in S
    OBVIOUS
  <2> HIDE DEF S
  <2>2. s \in Seq(S)
    BY <2>1 DEF BulkPair
  <2> QED
    BY <2>2
<1> USE DEF IsA, BulkPair, Endpoint, MSBulkIn, MSBulkOut
<1>2. Offers(s, {MSBulkIn(i), MSBulkOut(i)})
  BY DEF Offers
<1>3. Distinct(s)
  BY DEF Distinct
<1>4. Has(s, {})
  BY DEF Has
<1>5. Grouped(s, {})
  BY DEF Grouped, Counted
<1> QED
  BY <1>1, <1>2, <1>3, <1>4, <1>5 DEF Part

\* What begins every table.
LEMMA ConfigurationPart ==
    ASSUME NEW total, NEW interfaces
    PROVE  Part(<<Configuration(total, interfaces)>>, {}, {}, {})
<1> DEFINE s == <<Configuration(total, interfaces)>>
<1>1. \E S : s \in Seq(S)
  <2> DEFINE S == {s[j] : j \in 1..1}
  <2>1. \A j \in 1..1 : s[j] \in S
    OBVIOUS
  <2> HIDE DEF S
  <2>2. s \in Seq(S)
    BY <2>1
  <2> QED
    BY <2>2
<1> USE DEF IsA, Configuration
<1>2. Offers(s, {})
  BY DEF Offers
<1>3. Distinct(s)
  BY DEF Distinct
<1>4. Has(s, {})
  BY DEF Has
<1>5. Grouped(s, {})
  BY DEF Grouped, Counted
<1> QED
  BY <1>1, <1>2, <1>3, <1>4, <1>5 DEF Part

\* The vendor function's first interface, with the association of all four.
LEMMA MSInterface0Part == Part(MSInterface0, {\h81, \h01}, {10}, 10..13)
<1> DEFINE s == <<Association(MSInterfaceIndex(0), 4), Interface(MSInterfaceIndex(0), 0, 2)>>
<1>1. Part(s, {}, {10}, 10..13)
  <2>1. \E S : s \in Seq(S)
    <3>1. s \in Seq({s[1], s[2]})
      OBVIOUS
    <3> QED
      BY <3>1
  <2>2. Offers(s, {}) /\ Distinct(s) /\ Has(s, {10}) /\ Grouped(s, 10..13)
    BY DEF Offers, Distinct, Has, Grouped, Counted, IsA, Association, Interface,
           MSInterfaceIndex
  <2> QED
    BY <2>1, <2>2 DEF Part
<1> HIDE DEF s
<1>2. Part(BulkPair(0), {\h81, \h01}, {}, {})
  BY BulkPairPart DEF MSBulkIn, MSBulkOut
<1>3. Part(s \o BulkPair(0), {} \cup {\h81, \h01}, {10} \cup {}, (10..13) \cup {})
  BY <1>1, <1>2, Concatenation
<1> QED
  BY <1>3 DEF MSInterface0, s

\* The interfaces with the CDC descriptors, ...
LEMMA CdcInterfacePart ==
    ASSUME NEW i \in 1..2
    PROVE  Part(CdcInterface(i), {MSInterrupt(i), MSBulkIn(i), MSBulkOut(i)}, {10 + i}, {})
<1> DEFINE s == <<Interface(MSInterfaceIndex(i), 0, 3), Functional(5), Functional(5),
                  Functional(4), Functional(5), Endpoint(MSInterrupt(i), "interrupt", 12)>>
<1>1. Part(s, {MSInterrupt(i)}, {10 + i}, {})
  <2>1. \E S : s \in Seq(S)
    <3>1. s \in Seq({s[1], s[2], s[3], s[4], s[5], s[6]})
      OBVIOUS
    <3> QED
      BY <3>1
  <2>2. Offers(s, {MSInterrupt(i)}) /\ Distinct(s) /\ Has(s, {10 + i}) /\ Grouped(s, {})
    BY DEF Offers, Distinct, Has, Grouped, Counted, IsA, Interface, Functional, Endpoint,
           MSInterfaceIndex
  <2> QED
    BY <2>1, <2>2 DEF Part
<1> HIDE DEF s
<1>2. Part(BulkPair(i), {MSBulkIn(i), MSBulkOut(i)}, {}, {})
  BY BulkPairPart
<1>3. {MSInterrupt(i)} \cap {MSBulkIn(i), MSBulkOut(i)} = {}
  BY DEF MSInterrupt, MSBulkIn, MSBulkOut
<1>4. Part(s \o BulkPair(i), {MSInterrupt(i)} \cup {MSBulkIn(i), MSBulkOut(i)},
           {10 + i} \cup {}, {} \cup {})
  BY <1>1, <1>2, <1>3, Concatenation
<1>5. {MSInterrupt(i)} \cup {MSBulkIn(i), MSBulkOut(i)} =
          {MSInterrupt(i), MSBulkIn(i), MSBulkOut(i)}
  OBVIOUS
<1> QED
  BY <1>4, <1>5 DEF CdcInterface, s

\* ... and the last.
LEMMA MSInterface3Part == Part(MSInterface3, {\h87, \h86, \h06}, {13}, {})
<1> DEFINE s == <<Interface(MSInterfaceIndex(3), 0, 3), Endpoint(MSInterrupt(3), "interrupt", 10)>>
<1>1. Part(s, {\h87}, {13}, {})
  <2>1. \E S : s \in Seq(S)
    <3>1. s \in Seq({s[1], s[2]})
      OBVIOUS
    <3> QED
      BY <3>1
  <2>2. Offers(s, {\h87}) /\ Distinct(s) /\ Has(s, {13}) /\ Grouped(s, {})
    BY DEF Offers, Distinct, Has, Grouped, Counted, IsA, Interface, Endpoint,
           MSInterfaceIndex, MSInterrupt
  <2> QED
    BY <2>1, <2>2 DEF Part
<1> HIDE DEF s
<1>2. Part(BulkPair(3), {\h86, \h06}, {}, {})
  BY BulkPairPart DEF MSBulkIn, MSBulkOut
<1>3. Part(s \o BulkPair(3), {\h87} \cup {\h86, \h06}, {13} \cup {}, {} \cup {})
  BY <1>1, <1>2, Concatenation
<1>4. {\h87} \cup {\h86, \h06} = {\h87, \h86, \h06}
  OBVIOUS
<1> QED
  BY <1>3, <1>4 DEF MSInterface3, s

\* A table: all its endpoints are created, and but for the mouse an association
\* counts interfaces that are there.
GoodTable(b) ==
    \E A, N, G : /\ Part(ComputedConfigDescSet(b), A, N, G)
                 /\ A \subseteq CreatedEndpoints(b)
                 /\ b # "USB20_MOUSE" => G \subseteq N

\* The SuperSpeed composite device.
LEMMA Usb30Table == GoodTable("USB30_COMPOSITE")
<1> DEFINE s1 == <<Configuration(162, 3)>> \o Usb30Mbim
           s2 == s1 \o Usb30Hid
           A  == {\h88, \h89, \h09} \cup {\h81}
           N  == {0, 1} \cup {10}
<1>1. Part(s1, {\h88, \h89, \h09}, {0, 1}, {0, 1})
  <2>1. Part(<<Configuration(162, 3)>>, {}, {}, {})
    BY ConfigurationPart
  <2>2. Part(Usb30Mbim, {\h88, \h89, \h09}, {0, 1}, {0, 1})
    BY Usb30MbimPart DEF InterruptEndpointAddress, BulkInEndpointAddress,
       BulkOutEndpointAddress
  <2>3. Part(s1, {} \cup {\h88, \h89, \h09}, {} \cup {0, 1}, {} \cup {0, 1})
    BY <2>1, <2>2, Concatenation
  <2> QED
    BY <2>3
<1> HIDE DEF s1
<1>2. Part(Usb30Hid, {\h81}, {10}, {10})
  BY Usb30HidPart DEF MSBulkIn
<1>3. Part(s2, A, N, N)
  BY <1>1, <1>2, Concatenation
<1>4. A \subseteq CreatedEndpoints("USB30_COMPOSITE")
  BY DEF CreatedEndpoints, InterruptEndpointAddress, BulkInEndpointAddress,
         BulkOutEndpointAddress, MSBulkIn
<1>5. ComputedConfigDescSet("USB30_COMPOSITE") = s2
  BY DEF ComputedConfigDescSet, UsbConfigDescriptorSet, s1
<1> HIDE DEF A, N, s2
<1> QED
  BY <1>3, <1>4, <1>5 DEF GoodTable

\* The USB 2.0 composite device.
LEMMA Usb20Table == GoodTable("USB20_COMPOSITE")
<1> DEFINE s1 == <<Configuration(264, 6)>> \o Usb20Mbim
           s2 == s1 \o MSInterface0
           s3 == s2 \o MSInterface1
           s4 == s3 \o MSInterface2
           s5 == s4 \o MSInterface3
<1>1. Part(s1, {\h88, \h89, \h09}, {0, 1}, {0, 1})
  <2>1. Part(<<Configuration(264, 6)>>, {}, {}, {})
    BY ConfigurationPart
  <2>2. Part(Usb20Mbim, {\h88, \h89, \h09}, {0, 1}, {0, 1})
    BY Usb20MbimPart DEF InterruptEndpointAddress, BulkInEndpointAddress,
       BulkOutEndpointAddress
  <2>3. Part(s1, {} \cup {\h88, \h89, \h09}, {} \cup {0, 1}, {} \cup {0, 1})
    BY <2>1, <2>2, Concatenation
  <2> QED
    BY <2>3
<1> HIDE DEF s1
<1>2. Part(s2, {\h88, \h89, \h09} \cup {\h81, \h01}, {0, 1} \cup {10}, {0, 1} \cup 10..13)
  BY <1>1, MSInterface0Part, Concatenation
<1> HIDE DEF s2
<1>3. Part(MSInterface1, {\h83, \h82, \h02}, {11}, {})
  BY CdcInterfacePart DEF MSInterface1, MSInterrupt, MSBulkIn, MSBulkOut
<1>4. Part(s3, ({\h88, \h89, \h09} \cup {\h81, \h01}) \cup {\h83, \h82, \h02},
           ({0, 1} \cup {10}) \cup {11}, ({0, 1} \cup 10..13) \cup {})
  BY <1>2, <1>3, Concatenation
<1> HIDE DEF s3
<1>5. Part(MSInterface2, {\h85, \h84, \h04}, {12}, {})
  BY CdcInterfacePart DEF MSInterface2, MSInterrupt, MSBulkIn, MSBulkOut
<1>6. Part(s4, (({\h88, \h89, \h09} \cup {\h81, \h01}) \cup {\h83, \h82, \h02})
                  \cup {\h85, \h84, \h04},
           (({0, 1} \cup {10}) \cup {11}) \cup {12}, (({0, 1} \cup 10..13) \cup {}) \cup {})
  BY <1>4, <1>5, Concatenation
<1> HIDE DEF s4
<1> DEFINE A == ((({\h88, \h89, \h09} \cup {\h81, \h01}) \cup {\h83, \h82, \h02})
                  \cup {\h85, \h84, \h04}) \cup {\h87, \h86, \h06}
           N == ((({0, 1} \cup {10}) \cup {11}) \cup {12}) \cup {13}
           G == ((({0, 1} \cup 10..13) \cup {}) \cup {}) \cup {}
<1>7. Part(s5, A, N, G)
  BY <1>6, MSInterface3Part, Concatenation
<1>8. A \subseteq CreatedEndpoints("USB20_COMPOSITE")
  <2>1. {MSInterrupt(1), MSBulkIn(1), MSBulkOut(1), MSInterrupt(2), MSBulkIn(2), MSBulkOut(2),
         MSInterrupt(3), MSBulkIn(3), MSBulkOut(3)} \subseteq CreatedEndpoints("USB20_COMPOSITE")
    BY DEF CreatedEndpoints
  <2>2. {\h88, \h89, \h09, \h81, \h01} \subseteq CreatedEndpoints("USB20_COMPOSITE")
    BY DEF CreatedEndpoints, InterruptEndpointAddress, BulkInEndpointAddress,
           BulkOutEndpointAddress, MSBulkIn, MSBulkOut
  <2>3. {\h83, \h82, \h02, \h85, \h84, \h04, \h87, \h86, \h06}
            \subseteq CreatedEndpoints("USB20_COMPOSITE")
    <3>1. /\ MSInterrupt(1) = \h83 /\ MSBulkIn(1) = \h82 /\ MSBulkOut(1) = \h02
          /\ MSInterrupt(2) = \h85 /\ MSBulkIn(2) = \h84 /\ MSBulkOut(2) = \h04
          /\ MSInterrupt(3) = \h87 /\ MSBulkIn(3) = \h86 /\ MSBulkOut(3) = \h06
      BY DEF MSInterrupt, MSBulkIn, MSBulkOut
    <3> QED
      BY <2>1, <3>1
  <2> QED
    BY <2>2, <2>3
<1>9. G \subseteq N
  <2>1. 10..13 \subseteq {10, 11, 12, 13}
    OBVIOUS
  <2> QED
    BY <2>1
<1>10. ComputedConfigDescSet("USB20_COMPOSITE") = s5
  BY DEF ComputedConfigDescSet, UsbConfigDescriptorSet, s1, s2, s3, s4
<1> HIDE DEF A, N, G, s5
<1> QED
  BY <1>7, <1>8, <1>9, <1>10 DEF GoodTable

\* The mouse.
LEMMA MouseTable == GoodTable("USB20_MOUSE")
<1>1. Part(<<Configuration(42, 1)>>, {}, {}, {})
  BY ConfigurationPart
<1>2. Part(<<Configuration(42, 1)>> \o Mouse, {} \cup {MouseInterruptEndpointAddress},
           {} \cup {0}, {} \cup {0, 1})
  BY <1>1, MousePart, Concatenation
<1>3. {} \cup {MouseInterruptEndpointAddress} \subseteq CreatedEndpoints("USB20_MOUSE")
  BY DEF CreatedEndpoints
<1>4. ComputedConfigDescSet("USB20_MOUSE") = <<Configuration(42, 1)>> \o Mouse
  BY DEF ComputedConfigDescSet, UsbConfigDescriptorSet
<1> QED
  BY <1>2, <1>3, <1>4 DEF GoodTable

\* Every build has a good table.
LEMMA EveryTable == \A b \in AllBuilds : GoodTable(b)
BY Usb30Table, Usb20Table, MouseTable DEF AllBuilds
-----------------------------------------------------------------------------
(* Where the MBIM descriptor leads.                                         *)

\* Of and EndpointsOf, for a part.
Separators == {"interface", "association"}
Belonging(s, i) ==
    {j \in DOMAIN s : j > i /\ \A k \in i+1..j : s[k].type \notin Separators}
PipesOf(s, i) == {j \in Belonging(s, i) : IsA(s, j, "endpoint")}

\* What MbimLeadsToChannel demands of the interface at i, ...
ReachesChannel(s, i) ==
    /\ s[i].number = CommunicationInterfaceIndex
    /\ \A j \in PipesOf(s, i) :
          /\ s[j].address = InterruptEndpointAddress
          /\ s[j].wMaxPacketSize >= SizeofNotification
    /\ \A u \in Belonging(s, i) : IsA(s, u, "union") =>
          /\ s[u].control = s[i].number
          /\ \E d : /\ IsA(s, d, "interface")
                    /\ s[d].number = s[u].data
                    /\ {s[j].address : j \in PipesOf(s, d)} =
                          {BulkInEndpointAddress, BulkOutEndpointAddress}

\* ... if it has the MBIM descriptor.
Leads(s) ==
    \A i, m : /\ IsA(s, i, "interface")
              /\ m \in Belonging(s, i)
              /\ IsA(s, m, "mbim")
              => ReachesChannel(s, i)

\* In the SuperSpeed table it leads to the channel ...
LEMMA Usb30MbimLeads == Leads(Usb30Mbim)
<1> DEFINE s == Usb30Mbim
<1> USE DEF IsA, Usb30Mbim, Association, Interface, Functional, Union,
            MbimFunctional, Endpoint, Companion, InterruptEndpointAddress,
            BulkInEndpointAddress, BulkOutEndpointAddress,
            CommunicationInterfaceIndex, DataInterfaceIndex, Separators
<1>1. \A i : IsA(s, i, "interface") => i \in {2, 9, 11}
  OBVIOUS
<1>2. \A m : IsA(s, m, "mbim") => m = 5
  OBVIOUS
<1>3. \A j : IsA(s, j, "endpoint") => j \in {7, 13, 15}
  OBVIOUS
<1>4. \A j : IsA(s, j, "union") => j = 4
  OBVIOUS
<1>5. Belonging(s, 2) \subseteq 3..8 /\ 5 \notin Belonging(s, 9) /\ 5 \notin Belonging(s, 11)
  BY DEF Belonging
<1>6. PipesOf(s, 2) \subseteq {7}
  BY <1>3, <1>5 DEF PipesOf
<1>7. PipesOf(s, 11) = {13, 15}
  <2>1. PipesOf(s, 11) \subseteq {13, 15}
    BY <1>3 DEF PipesOf, Belonging
  <2>2. {13, 15} \subseteq PipesOf(s, 11)
    BY DEF PipesOf, Belonging
  <2> QED
    BY <2>1, <2>2
<1>8. /\ s[2].number = CommunicationInterfaceIndex
      /\ s[4].control = s[2].number
      /\ s[7].address = InterruptEndpointAddress
      /\ s[7].wMaxPacketSize >= SizeofNotification
      /\ IsA(s, 11, "interface") /\ s[11].number = s[4].data
      /\ {s[j].address : j \in {13, 15}} = {BulkInEndpointAddress, BulkOutEndpointAddress}
  BY DEF SizeofNotification
<1> HIDE DEF s
<1> SUFFICES ASSUME NEW i, NEW m, IsA(s, i, "interface"), m \in Belonging(s, i),
                    IsA(s, m, "mbim")
             PROVE  ReachesChannel(s, i)
  BY DEF Leads, s
<1>9. i = 2
  BY <1>1, <1>2, <1>5
<1> QED
  BY <1>4, <1>6, <1>7, <1>8, <1>9 DEF ReachesChannel

\* ... and in the USB 2.0 table.
LEMMA Usb20MbimLeads == Leads(Usb20Mbim)
<1> DEFINE s == Usb20Mbim
<1> USE DEF IsA, Usb20Mbim, Association, Interface, Functional, Union,
            MbimFunctional, Endpoint, InterruptEndpointAddress,
            BulkInEndpointAddress, BulkOutEndpointAddress,
            CommunicationInterfaceIndex, DataInterfaceIndex, Separators
<1>1. \A i : IsA(s, i, "interface") => i \in {2, 8, 10}
  OBVIOUS
<1>2. \A m : IsA(s, m, "mbim") => m = 5
  OBVIOUS
<1>3. \A j : IsA(s, j, "endpoint") => j \in {7, 12, 13}
  OBVIOUS
<1>4. \A j : IsA(s, j, "union") => j = 4
  OBVIOUS
<1>5. Belonging(s, 2) \subseteq 3..7 /\ 5 \notin Belonging(s, 8) /\ 5 \notin Belonging(s, 10)
  BY DEF Belonging
<1>6. PipesOf(s, 2) \subseteq {7}
  BY <1>3, <1>5 DEF PipesOf
<1>7. PipesOf(s, 10) = {12, 13}
  <2>1. PipesOf(s, 10) \subseteq {12, 13}
    BY <1>3 DEF PipesOf, Belonging
  <2>2. {12, 13} \subseteq PipesOf(s, 10)
    BY DEF PipesOf, Belonging
  <2> QED
    BY <2>1, <2>2
<1>8. /\ s[2].number = CommunicationInterfaceIndex
      /\ s[4].control = s[2].number
      /\ s[7].address = InterruptEndpointAddress
      /\ s[7].wMaxPacketSize >= SizeofNotification
      /\ IsA(s, 10, "interface") /\ s[10].number = s[4].data
      /\ {s[j].address : j \in {12, 13}} = {BulkInEndpointAddress, BulkOutEndpointAddress}
  BY DEF SizeofNotification
<1> HIDE DEF s
<1> SUFFICES ASSUME NEW i, NEW m, IsA(s, i, "interface"), m \in Belonging(s, i),
                    IsA(s, m, "mbim")
             PROVE  ReachesChannel(s, i)
  BY DEF Leads, s
<1>9. i = 2
  BY <1>1, <1>2, <1>5
<1> QED
  BY <1>4, <1>6, <1>7, <1>8, <1>9 DEF ReachesChannel

\* A part that another one may precede: it begins with an interface or association.
Separate(t) == \E S : t \in Seq(S) /\ t # <<>> /\ t[1].type \in Separators

\* What belongs to an interface of the first part belongs to it in the whole, and
\* nothing else does.
LEMMA BelongingInFirst ==
    ASSUME NEW u, NEW s, NEW n, NEW t, NEW l, Joins(u, s, n, t, l),
           l > 0, t[1].type \in Separators, NEW i \in 1..n
    PROVE  Belonging(u, i) = Belonging(s, i)
<1>1. ASSUME NEW j \in 1..n
      PROVE  j \in Belonging(u, i) <=> j \in Belonging(s, i)
  <2>1. \A k \in i+1..j : k \in 1..n
    BY DEF Joins
  <2>2. \A k \in i+1..j : u[k] = s[k]
    BY <2>1 DEF Joins
  <2>3. j \in DOMAIN u /\ j \in DOMAIN s
    BY DEF Joins
  <2> QED
    BY <2>2, <2>3 DEF Belonging
<1>2. ASSUME NEW j \in 1..(n + l), j \notin 1..n
      PROVE  j \notin Belonging(u, i)
  <2>1. 1 + n \in i+1..j /\ 1 \in 1..l
    BY <1>2 DEF Joins
  <2>2. u[1 + n].type \in Separators
    BY <2>1 DEF Joins
  <2> QED
    BY <2>1, <2>2 DEF Belonging
<1> QED
  BY <1>1, <1>2 DEF Belonging, Joins

\* So does what belongs to an interface of the second part.
LEMMA BelongingInSecond ==
    ASSUME NEW u, NEW s, NEW n, NEW t, NEW l, Joins(u, s, n, t, l), NEW i \in 1..l
    PROVE  Belonging(u, i + n) = {j + n : j \in Belonging(t, i)}
<1>1. ASSUME NEW j \in Belonging(u, i + n)
      PROVE  j \in Int /\ j - n \in Belonging(t, i)
  <2>1. j \in 1..(n + l) /\ j > i + n /\ n \in Nat /\ l \in Nat
    BY DEF Belonging, Joins
  <2>2. j - n \in 1..l /\ j - n > i
    BY <2>1
  <2>3. ASSUME NEW k \in i+1..(j - n) PROVE t[k].type \notin Separators
    <3>1. k + n \in i+n+1..j /\ k \in 1..l
      BY <2>1, <2>2
    <3>2. u[k + n].type \notin Separators
      BY <3>1 DEF Belonging
    <3> QED
      BY <3>1, <3>2 DEF Joins
  <2> QED
    BY <2>1, <2>2, <2>3 DEF Belonging, Joins
<1>2. ASSUME NEW j \in Belonging(t, i)
      PROVE  j \in Int /\ j + n \in Belonging(u, i + n)
  <2>1. j \in 1..l /\ j > i /\ n \in Nat /\ l \in Nat
    BY DEF Belonging, Joins
  <2>2. ASSUME NEW k \in i+n+1..j+n PROVE u[k].type \notin Separators
    <3>1. k - n \in i+1..j /\ k - n \in 1..l /\ k - n + n = k
      BY <2>1, <2>2
    <3>2. t[k - n].type \notin Separators
      BY <3>1 DEF Belonging
    <3>3. u[k - n + n] = t[k - n]
      BY <3>1 DEF Joins
    <3> QED
      BY <3>1, <3>2, <3>3
  <2>3. j + n \in 1..(n + l) /\ j + n > i + n
    BY <2>1
  <2> QED
    BY <2>1, <2>2, <2>3 DEF Belonging, Joins
<1>3. ASSUME NEW j \in Belonging(u, i + n) PROVE j \in {k + n : k \in Belonging(t, i)}
  <2>1. j = (j - n) + n
    BY <1>1 DEF Joins
  <2> QED
    BY <1>1, <2>1
<1> QED
  BY <1>2, <1>3

\* An interface of the first part that reaches the channel does so in the whole, ...
LEMMA ReachesInFirst ==
    ASSUME NEW u, NEW s, NEW n, NEW t, NEW l, Joins(u, s, n, t, l),
           l > 0, t[1].type \in Separators, NEW i \in 1..n, ReachesChannel(s, i)
    PROVE  ReachesChannel(u, i)
<1>1. ASSUME NEW j \in 1..n PROVE u[j] = s[j] /\ j \in DOMAIN u /\ j \in DOMAIN s
  BY DEF Joins
<1>2. \A d : Belonging(s, d) \subseteq 1..n
  BY DEF Belonging, Joins
<1>3. ASSUME NEW d \in 1..n PROVE Belonging(u, d) = Belonging(s, d)
  BY BelongingInFirst
<1>4. ASSUME NEW d \in 1..n PROVE PipesOf(u, d) = PipesOf(s, d) /\ PipesOf(s, d) \subseteq 1..n
  BY <1>1, <1>2, <1>3 DEF PipesOf, IsA
<1>5. ASSUME NEW v \in Belonging(u, i), IsA(u, v, "union")
      PROVE  /\ u[v].control = u[i].number
             /\ \E d : /\ IsA(u, d, "interface")
                       /\ u[d].number = u[v].data
                       /\ {u[j].address : j \in PipesOf(u, d)} =
                             {BulkInEndpointAddress, BulkOutEndpointAddress}
  <2>1. v \in Belonging(s, i) /\ v \in 1..n /\ IsA(s, v, "union")
    BY <1>1, <1>2, <1>3, <1>5 DEF IsA
  <2>2. PICK d : /\ IsA(s, d, "interface")
                 /\ s[d].number = s[v].data
                 /\ {s[j].address : j \in PipesOf(s, d)} =
                       {BulkInEndpointAddress, BulkOutEndpointAddress}
    BY <2>1 DEF ReachesChannel
  <2>3. d \in 1..n
    BY <2>2 DEF IsA, Joins
  <2>4. {u[j].address : j \in PipesOf(u, d)} = {s[j].address : j \in PipesOf(s, d)}
    BY <1>1, <1>4, <2>3
  <2>5. IsA(u, d, "interface") /\ u[d].number = u[v].data
    BY <1>1, <2>1, <2>2, <2>3 DEF IsA
  <2> QED
    BY <1>1, <2>1, <2>2, <2>4, <2>5 DEF ReachesChannel
<1>6. /\ u[i].number = CommunicationInterfaceIndex
      /\ \A j \in PipesOf(u, i) : /\ u[j].address = InterruptEndpointAddress
                                  /\ u[j].wMaxPacketSize >= SizeofNotification
  BY <1>1, <1>4 DEF ReachesChannel
<1> QED
  BY <1>5, <1>6 DEF ReachesChannel

\* ... and one of the second part does.
LEMMA ReachesInSecond ==
    ASSUME NEW u, NEW s, NEW n, NEW t, NEW l, Joins(u, s, n, t, l),
           NEW i \in 1..l, ReachesChannel(t, i)
    PROVE  ReachesChannel(u, i + n)
<1>1. ASSUME NEW j \in 1..l PROVE u[j + n] = t[j] /\ j + n \in DOMAIN u /\ j \in DOMAIN t
  BY DEF Joins
<1>2. \A d : Belonging(t, d) \subseteq 1..l
  BY DEF Belonging, Joins
<1>3. ASSUME NEW d \in 1..l PROVE Belonging(u, d + n) = {j + n : j \in Belonging(t, d)}
  BY BelongingInSecond
<1>4. ASSUME NEW d \in 1..l
      PROVE  /\ PipesOf(u, d + n) = {j + n : j \in PipesOf(t, d)}
             /\ PipesOf(t, d) \subseteq 1..l
  <2>1. ASSUME NEW j \in Belonging(t, d), NEW type
        PROVE  IsA(u, j + n, type) <=> IsA(t, j, type)
    BY <1>1, <1>2 DEF IsA
  <2> QED
    BY <1>2, <1>3, <2>1 DEF PipesOf
<1>5. ASSUME NEW v \in Belonging(u, i + n), IsA(u, v, "union")
      PROVE  /\ u[v].control = u[i + n].number
             /\ \E d : /\ IsA(u, d, "interface")
                       /\ u[d].number = u[v].data
                       /\ {u[j].address : j \in PipesOf(u, d)} =
                             {BulkInEndpointAddress, BulkOutEndpointAddress}
  <2>1. PICK w \in Belonging(t, i) : v = w + n
    BY <1>3
  <2>2. w \in 1..l /\ u[v] = t[w] /\ IsA(t, w, "union")
    BY <1>1, <1>2, <1>5, <2>1 DEF IsA
  <2>3. PICK d : /\ IsA(t, d, "interface")
                 /\ t[d].number = t[w].data
                 /\ {t[j].address : j \in PipesOf(t, d)} =
                       {BulkInEndpointAddress, BulkOutEndpointAddress}
    BY <2>2 DEF ReachesChannel
  <2>4. d \in 1..l
    BY <2>3 DEF IsA, Joins
  <2>5. {u[j].address : j \in PipesOf(u, d + n)} = {t[j].address : j \in PipesOf(t, d)}
    <3>1. PipesOf(u, d + n) = {j + n : j \in PipesOf(t, d)}
      BY <1>4, <2>4
    <3>2. \A j \in PipesOf(t, d) : u[j + n] = t[j]
      BY <1>1, <1>4, <2>4
    <3> QED
      BY <3>1, <3>2
  <2>6. IsA(u, d + n, "interface") /\ u[d + n].number = u[v].data
    BY <1>1, <2>2, <2>3, <2>4 DEF IsA
  <2>7. u[v].control = u[i + n].number
    BY <1>1, <2>2 DEF ReachesChannel
  <2> QED
    BY <2>3, <2>5, <2>6, <2>7
<1>6. ASSUME NEW k \in PipesOf(u, i + n)
      PROVE  /\ u[k].address = InterruptEndpointAddress
             /\ u[k].wMaxPacketSize >= SizeofNotification
  <2>1. PICK j \in PipesOf(t, i) : k = j + n
    BY <1>4
  <2>2. u[k] = t[j]
    BY <1>1, <1>4, <2>1
  <2> QED
    BY <2>2 DEF ReachesChannel
<1>7. u[i + n].number = CommunicationInterfaceIndex
  BY <1>1 DEF ReachesChannel
<1> QED
  BY <1>5, <1>6, <1>7 DEF ReachesChannel

\* So an MBIM descriptor leads to the channel in the whole if it does in its part.
LEMMA LeadsComposes ==
    ASSUME NEW S, NEW s \in Seq(S), Leads(s), NEW t, Leads(t), Separate(t)
    PROVE  Leads(s \o t)
<1> DEFINE u == s \o t
           n == Len(s)
           l == Len(t)
<1>1. PICK T : t \in Seq(T)
  BY DEF Separate
<1>2. Joins(u, s, n, t, l) /\ l > 0 /\ t[1].type \in Separators
  BY <1>1, ConcatenationJoins DEF Separate
<1> HIDE DEF u, n, l
<1>3. ASSUME NEW i, NEW m, IsA(u, i, "interface"), m \in Belonging(u, i), IsA(u, m, "mbim")
      PROVE  ReachesChannel(u, i)
  <2>1. i \in 1..(n + l) /\ n \in Nat /\ l \in Nat
    BY <1>2, <1>3 DEF IsA, Joins
  <2>2. CASE i \in 1..n
    <3>1. m \in Belonging(s, i)
      BY <1>2, <1>3, <2>2, BelongingInFirst
    <3>2. IsA(s, m, "mbim") /\ IsA(s, i, "interface")
      BY <1>2, <1>3, <2>2, <3>1 DEF IsA, Joins, Belonging
    <3> QED
      BY <1>2, <2>2, <3>1, <3>2, ReachesInFirst DEF Leads
  <2>3. CASE i \notin 1..n
    <3> DEFINE k == i - n
    <3>1. k \in 1..l /\ i = k + n
      BY <2>1, <2>3
    <3> HIDE DEF k
    <3>2. PICK w \in Belonging(t, k) : m = w + n
      BY <1>2, <1>3, <3>1, BelongingInSecond
    <3>3. w \in 1..l
      BY <1>2, <3>2 DEF Belonging, Joins
    <3>4. u[i] = t[k] /\ u[m] = t[w]
      BY <1>2, <3>1, <3>2, <3>3 DEF Joins
    <3>5. IsA(t, w, "mbim") /\ IsA(t, k, "interface")
      BY <1>2, <1>3, <3>1, <3>3, <3>4 DEF IsA, Joins
    <3> QED
      BY <1>2, <3>1, <3>2, <3>5, ReachesInSecond DEF Leads
  <2> QED
    BY <2>2, <2>3
<1> QED
  BY <1>3 DEF Leads, u

\* The other functions have no MBIM descriptor, ...
NoMbim(t) == \A m : ~ IsA(t, m, "mbim")

\* ... and so lead nowhere.
LEMMA NoMbimLeads == ASSUME NEW t, NoMbim(t) PROVE Leads(t)
BY DEF NoMbim, Leads

\* The interfaces of the vendor function are built in two steps.
LEMMA NoMbimComposes ==
    ASSUME NEW S, NEW s \in Seq(S), NoMbim(s), s # <<>>, s[1].type \in Separators,
           NEW T, NEW t \in Seq(T), NoMbim(t)
    PROVE  NoMbim(s \o t) /\ Separate(s \o t)
<1> DEFINE u == s \o t
           n == Len(s)
           l == Len(t)
<1>1. Joins(u, s, n, t, l) /\ n > 0
  BY ConcatenationJoins
<1>2. u \in Seq(S \cup T)
  <2>1. s \in Seq(S \cup T) /\ t \in Seq(S \cup T)
    OBVIOUS
  <2> QED
    BY <2>1
<1> HIDE DEF u, n, l
<1>3. ASSUME NEW m, IsA(u, m, "mbim") PROVE FALSE
  <2>1. m \in 1..(n + l) /\ n \in Nat /\ l \in Nat
    BY <1>1, <1>3 DEF IsA, Joins
  <2>2. CASE m \in 1..n
    BY <1>1, <1>3, <2>2 DEF IsA, Joins, NoMbim
  <2>3. CASE m \notin 1..n
    <3> DEFINE k == m - n
    <3>1. k \in 1..l /\ m = k + n
      BY <2>1, <2>3
    <3> HIDE DEF k
    <3> QED
      BY <1>1, <1>3, <3>1 DEF IsA, Joins, NoMbim
  <2> QED
    BY <2>2, <2>3
<1>4. u # <<>> /\ u[1].type \in Separators
  <2>1. 1 \in 1..n /\ 1 \in DOMAIN u
    BY <1>1 DEF Joins
  <2> QED
    BY <1>1, <1>2, <2>1 DEF Joins
<1> QED
  BY <1>2, <1>3, <1>4 DEF NoMbim, Separate, u

\* A part that begins a function or an interface, and leads to the channel if it
\* leads anywhere.
LeadingPart(t) == Separate(t) /\ Leads(t)

\* The two parts of the SuperSpeed table ...
LEMMA Usb30Leading == LeadingPart(Usb30Mbim) /\ LeadingPart(Usb30Hid)
<1>1. Separate(Usb30Mbim) /\ Separate(Usb30Hid)
  <2>1. (\E S : Usb30Mbim \in Seq(S)) /\ (\E S : Usb30Hid \in Seq(S))
    BY Usb30MbimPart, Usb30HidPart DEF Part
  <2>2. /\ Usb30Mbim # <<>> /\ Usb30Mbim[1].type = "association"
        /\ Usb30Hid # <<>> /\ Usb30Hid[1].type = "association"
    BY DEF Usb30Mbim, Usb30Hid, Association
  <2> QED
    BY <2>1, <2>2 DEF Separate, Separators
<1>2. NoMbim(Usb30Hid)
  BY DEF NoMbim, IsA, Usb30Hid, Association, Interface, Hid, Endpoint, Companion
<1> QED
  BY <1>1, <1>2, Usb30MbimLeads, NoMbimLeads DEF LeadingPart

\* ... and the parts of the USB 2.0 tables.
LEMMA Usb20Leading ==
    /\ LeadingPart(Usb20Mbim)
    /\ LeadingPart(MSInterface0)
    /\ \A i \in 1..2 : LeadingPart(CdcInterface(i))
    /\ LeadingPart(MSInterface3)
    /\ LeadingPart(Mouse)
<1>1. ASSUME NEW i \in 0..3
      PROVE  (\E S : BulkPair(i) \in Seq(S)) /\ NoMbim(BulkPair(i))
  BY <1>1, BulkPairPart DEF Part, NoMbim, IsA, BulkPair, Endpoint
<1>2. LeadingPart(Usb20Mbim)
  <2>1. \E S : Usb20Mbim \in Seq(S)
    BY Usb20MbimPart DEF Part
  <2>2. Usb20Mbim # <<>> /\ Usb20Mbim[1].type = "association"
    BY DEF Usb20Mbim, Association
  <2> QED
    BY <2>1, <2>2, Usb20MbimLeads DEF Separate, Separators, LeadingPart
<1>3. LeadingPart(Mouse)
  <2>1. \E S : Mouse \in Seq(S)
    BY MousePart DEF Part
  <2>2. Mouse # <<>> /\ Mouse[1].type = "association"
    BY DEF Mouse, Association
  <2>3. NoMbim(Mouse)
    BY DEF NoMbim, IsA, Mouse, Association, Interface, Hid, Endpoint
  <2> QED
    BY <2>1, <2>2, <2>3, NoMbimLeads DEF Separate, Separators, LeadingPart
<1>4. LeadingPart(MSInterface0)
  <2> DEFINE s == <<Association(MSInterfaceIndex(0), 4), Interface(MSInterfaceIndex(0), 0, 2)>>
  <2>1. s \in Seq({s[1], s[2]}) /\ s # <<>>
    OBVIOUS
  <2>2. NoMbim(s) /\ s[1].type = "association"
    BY DEF NoMbim, IsA, Association, Interface
  <2> HIDE DEF s
  <2>3. NoMbim(s \o BulkPair(0)) /\ Separate(s \o BulkPair(0))
    BY <1>1, <2>1, <2>2, NoMbimComposes DEF Separators
  <2> QED
    BY <2>3, NoMbimLeads DEF LeadingPart, MSInterface0, s
<1>5. ASSUME NEW i \in 1..2 PROVE LeadingPart(CdcInterface(i))
  <2> DEFINE s == <<Interface(MSInterfaceIndex(i), 0, 3), Functional(5), Functional(5),
                    Functional(4), Functional(5), Endpoint(MSInterrupt(i), "interrupt", 12)>>
  <2>1. s \in Seq({s[1], s[2], s[3], s[4], s[5], s[6]}) /\ s # <<>>
    OBVIOUS
  <2>2. NoMbim(s) /\ s[1].type = "interface"
    BY DEF NoMbim, IsA, Interface, Functional, Endpoint
  <2> HIDE DEF s
  <2>3. NoMbim(s \o BulkPair(i)) /\ Separate(s \o BulkPair(i))
    BY <1>1, <2>1, <2>2, NoMbimComposes DEF Separators
  <2> QED
    BY <2>3, NoMbimLeads DEF LeadingPart, CdcInterface, s
<1>6. LeadingPart(MSInterface3)
  <2> DEFINE s == <<Interface(MSInterfaceIndex(3), 0, 3),
                    Endpoint(MSInterrupt(3), "interrupt", 10)>>
  <2>1. s \in Seq({s[1], s[2]}) /\ s # <<>>
    OBVIOUS
  <2>2. NoMbim(s) /\ s[1].type = "interface"
    BY DEF NoMbim, IsA, Interface, Endpoint
  <2> HIDE DEF s
  <2>3. NoMbim(s \o BulkPair(3)) /\ Separate(s \o BulkPair(3))
    BY <1>1, <2>1, <2>2, NoMbimComposes DEF Separators
  <2> QED
    BY <2>3, NoMbimLeads DEF LeadingPart, MSInterface3, s
<1> QED
  BY <1>2, <1>3, <1>4, <1>5, <1>6

\* So each table leads to the channel.
LEMMA EveryTableLeads == \A b \in AllBuilds : Leads(ComputedConfigDescSet(b))
<1>1. ASSUME NEW s, \E S : s \in Seq(S), Leads(s), NEW t, LeadingPart(t)
      PROVE  (\E S : s \o t \in Seq(S)) /\ Leads(s \o t)
  <2>1. PICK S : s \in Seq(S)
    BY <1>1
  <2>2. PICK T : t \in Seq(T)
    BY <1>1 DEF LeadingPart, Separate
  <2>3. s \o t \in Seq(S \cup T)
    <3>1. s \in Seq(S \cup T) /\ t \in Seq(S \cup T)
      BY <2>1, <2>2
    <3> QED
      BY <3>1
  <2> QED
    BY <1>1, <2>1, <2>3, LeadsComposes DEF LeadingPart
<1>2. ASSUME NEW total, NEW interfaces
      PROVE  /\ \E S : <<Configuration(total, interfaces)>> \in Seq(S)
             /\ Leads(<<Configuration(total, interfaces)>>)
  BY ConfigurationPart DEF Part, Leads, IsA, Configuration
<1>3. Leads(ComputedConfigDescSet("USB30_COMPOSITE"))
  <2> DEFINE s1 == <<Configuration(162, 3)>> \o Usb30Mbim
  <2>1. (\E S : s1 \in Seq(S)) /\ Leads(s1)
    BY <1>1, <1>2, Usb30Leading
  <2> HIDE DEF s1
  <2>2. Leads(s1 \o Usb30Hid)
    BY <1>1, <2>1, Usb30Leading
  <2> QED
    BY <2>2 DEF ComputedConfigDescSet, UsbConfigDescriptorSet, s1
<1>4. Leads(ComputedConfigDescSet("USB20_COMPOSITE"))
  <2> DEFINE s0 == <<Configuration(264, 6)>>
             s1 == s0 \o Usb20Mbim
             s2 == s1 \o MSInterface0
             s3 == s2 \o MSInterface1
             s4 == s3 \o MSInterface2
  <2>0. (\E S : s0 \in Seq(S)) /\ Leads(s0)
    BY <1>2
  <2> HIDE DEF s0
  <2>1. (\E S : s1 \in Seq(S)) /\ Leads(s1)
    BY <1>1, <2>0, Usb20Leading
  <2> HIDE DEF s1
  <2>2. (\E S : s2 \in Seq(S)) /\ Leads(s2)
    BY <1>1, <2>1, Usb20Leading
  <2> HIDE DEF s2
  <2>3. LeadingPart(MSInterface1) /\ LeadingPart(MSInterface2)
    BY Usb20Leading DEF MSInterface1, MSInterface2
  <2>4. (\E S : s3 \in Seq(S)) /\ Leads(s3)
    BY <1>1, <2>2, <2>3
  <2> HIDE DEF s3
  <2>5. (\E S : s4 \in Seq(S)) /\ Leads(s4)
    BY <1>1, <2>3, <2>4
  <2> HIDE DEF s4
  <2>6. Leads(s4 \o MSInterface3)
    BY <1>1, <2>5, Usb20Leading
  <2> QED
    BY <2>6 DEF ComputedConfigDescSet, UsbConfigDescriptorSet, s0, s1, s2, s3, s4
<1>5. Leads(ComputedConfigDescSet("USB20_MOUSE"))
  <2>1. Leads(<<Configuration(42, 1)>> \o Mouse)
    BY <1>1, <1>2, Usb20Leading
  <2> QED
    BY <2>1 DEF ComputedConfigDescSet, UsbConfigDescriptorSet
<1> QED
  BY <1>3, <1>4, <1>5 DEF AllBuilds
-----------------------------------------------------------------------------
(* The length of a table.                                                  *)

\* A set of naturals that has a member has a least one.
LEMMA LeastNatural ==
    ASSUME NEW T, T \subseteq Nat, T # {}
    PROVE  \E m \in T : \A k \in T : m <= k
<1> DEFINE R == {ss \in Nat \X Nat : ss[1] < ss[2]}
<1>1. IsWellFoundedOn(R, Nat)
  BY NatLessThanWellFounded DEF OpToRel
<1>2. \A j, k \in Nat : <<j, k>> \in R <=> j < k
  OBVIOUS
<1> HIDE DEF R
<1>3. PICK m \in T : \A k \in T : ~ (<<k, m>> \in R)
  BY <1>1, WFMin
<1>4. ASSUME NEW k \in T PROVE ~ (k < m)
  BY <1>2, <1>3
<1> QED
  BY <1>4

\* Sums a table's lengths over a set of its positions, an element chosen at a time.
Sums(s, f) ==
    f = [p \in SUBSET DOMAIN s |->
            IF p = {} THEN 0
            ELSE s[CHOOSE i \in p : TRUE].bLength + f[p \ {CHOOSE i \in p : TRUE}]]

\* SizeofSet is what such a function returns for all of them.
LEMMA SizeofSetSums ==
    ASSUME NEW s
    PROVE  SizeofSet(s) = (CHOOSE f : Sums(s, f))[DOMAIN s]
BY DEF SizeofSet, FoldSeq, FoldFunction, FoldFunctionOnSet, MapThenFoldSet, Sums

\* Where each of a table's n descriptors ends, in a table of total bytes.
Ends(s, n, P, total) ==
    /\ n \in Nat /\ DOMAIN s = 1..n
    /\ P \in [0..n -> Nat] /\ P[0] = 0 /\ P[n] = total
    /\ \A i \in 1..n : s[i].bLength \in Nat /\ P[i] = P[i - 1] + s[i].bLength

\* They end in order.
LEMMA EndsInOrder ==
    ASSUME NEW s, NEW n, NEW P, NEW total, Ends(s, n, P, total),
           NEW i \in 0..n, NEW j \in 0..n, i <= j
    PROVE  P[i] <= P[j]
<1> DEFINE T == {k \in 0..n : i <= k /\ ~ (P[i] <= P[k])}
<1> SUFFICES ASSUME T # {} PROVE FALSE
  OBVIOUS
<1>1. n \in Nat /\ T \subseteq Nat
  BY DEF Ends
<1>2. PICK m \in T : \A k \in T : m <= k
  <2> HIDE DEF T
  <2> QED
    BY <1>1, LeastNatural
<1>3. m \in 0..n /\ m - 1 \in 0..n /\ i <= m - 1 /\ m \in 1..n
  BY <1>1, <1>2 DEF Ends
<1>4. m - 1 \notin T
  BY <1>1, <1>2, <1>3
<1>5. P[i] \in Nat /\ P[m] \in Nat /\ P[m - 1] \in Nat
  BY <1>1, <1>3 DEF Ends
<1>6. P[i] <= P[m - 1]
  BY <1>3, <1>4
<1>7. P[m - 1] <= P[m]
  <2>1. s[m].bLength \in Nat /\ P[m] = P[m - 1] + s[m].bLength
    BY <1>3 DEF Ends
  <2> QED
    BY <1>5, <2>1
<1>8. ~ (P[i] <= P[m])
  BY <1>2
<1> QED
  BY <1>5, <1>6, <1>7, <1>8

\* The bytes of the descriptors at the positions in p.
Bytes(P, p) == UNION {P[i - 1] .. (P[i] - 1) : i \in p}

\* Bytes are counted a descriptor at a time.
LEMMA BytesAdd ==
    ASSUME NEW s, NEW n, NEW P, NEW total, Ends(s, n, P, total),
           NEW p \in SUBSET (1..n)
    PROVE  /\ IsFiniteSet(Bytes(P, p))
           /\ Cardinality(Bytes(P, p)) \in Nat
           /\ \A x \in p : Cardinality(Bytes(P, p)) =
                              s[x].bLength + Cardinality(Bytes(P, p \ {x}))
<1>1. n \in Nat /\ total \in Nat
  BY DEF Ends
<1>2. ASSUME NEW i \in 1..n
      PROVE  /\ i - 1 \in 0..n /\ i \in 0..n
             /\ P[i - 1] \in Nat /\ P[i] \in Nat /\ P[i] <= total
             /\ s[i].bLength \in Nat
             /\ P[i] = P[i - 1] + s[i].bLength
  <2>1. i - 1 \in 0..n /\ i \in 0..n /\ n \in 0..n /\ i <= n
    BY <1>1
  <2>2. P[i] <= P[n]
    BY <2>1, EndsInOrder
  <2> QED
    BY <2>1, <2>2 DEF Ends
<1>3. ASSUME NEW q \in SUBSET (1..n)
      PROVE  IsFiniteSet(Bytes(P, q)) /\ Cardinality(Bytes(P, q)) \in Nat
  <2>1. Bytes(P, q) \subseteq 0..total
    BY <1>1, <1>2 DEF Bytes
  <2>2. IsFiniteSet(0..total)
    BY <1>1, FS_Interval
  <2>3. IsFiniteSet(Bytes(P, q))
    BY <2>1, <2>2, FS_Subset
  <2> QED
    BY <2>3, FS_CardinalityType
<1>4. ASSUME NEW x \in p
      PROVE  Cardinality(Bytes(P, p)) = s[x].bLength + Cardinality(Bytes(P, p \ {x}))
  <2> DEFINE here == P[x - 1] .. (P[x] - 1)
             rest == Bytes(P, p \ {x})
  <2>1. Bytes(P, p) = here \cup rest
    BY DEF Bytes
  <2>2. IsFiniteSet(here) /\ Cardinality(here) = s[x].bLength
    <3>1. /\ P[x - 1] \in Int /\ P[x] - 1 \in Int /\ s[x].bLength \in Nat
          /\ P[x] = P[x - 1] + s[x].bLength
      BY <1>2
    <3>2. /\ IsFiniteSet(here)
          /\ Cardinality(here) =
                IF P[x - 1] > P[x] - 1 THEN 0 ELSE (P[x] - 1) - P[x - 1] + 1
      BY <3>1, FS_Interval
    <3> QED
      BY <1>2, <3>1, <3>2
  <2>3. IsFiniteSet(rest) /\ Cardinality(rest) \in Nat
    BY <1>3
  <2>4. here \cap rest = {}
    <3> SUFFICES ASSUME NEW i \in p \ {x}, NEW b \in here, b \in P[i - 1] .. (P[i] - 1)
                 PROVE  FALSE
      BY DEF Bytes
    <3>1. i \in 1..n /\ x \in 1..n
      OBVIOUS
    <3>2. CASE i < x
      <4>1. i \in 0..n /\ x - 1 \in 0..n /\ i <= x - 1
        BY <1>1, <3>1, <3>2
      <4>2. P[i] <= P[x - 1]
        BY <4>1, EndsInOrder
      <4> QED
        BY <1>2, <3>1, <4>2
    <3>3. CASE i > x
      <4>1. x \in 0..n /\ i - 1 \in 0..n /\ x <= i - 1
        BY <1>1, <3>1, <3>3
      <4>2. P[x] <= P[i - 1]
        BY <4>1, EndsInOrder
      <4> QED
        BY <1>2, <3>1, <4>2
    <3> QED
      BY <3>1, <3>2, <3>3
  <2>5. Cardinality(here \cap rest) = 0
    BY <2>4, FS_EmptySet
  <2> HIDE DEF here, rest
  <2>6. Cardinality(here \cup rest) =
            Cardinality(here) + Cardinality(rest) - Cardinality(here \cap rest)
    BY <2>2, <2>3, FS_Union
  <2>7. Cardinality(Bytes(P, p)) = s[x].bLength + Cardinality(rest)
    BY <1>2, <2>1, <2>2, <2>3, <2>5, <2>6
  <2> QED
    BY <2>7 DEF rest
<1> QED
  BY <1>3, <1>4

\* All of them are the bytes up to the total.
LEMMA AllBytes ==
    ASSUME NEW s, NEW n, NEW P, NEW total, Ends(s, n, P, total)
    PROVE  Cardinality(Bytes(P, 1..n)) = total
<1>1. n \in Nat /\ total \in Nat
  BY DEF Ends
<1>2. ASSUME NEW b \in 0..(total - 1) PROVE b \in Bytes(P, 1..n)
  <2> DEFINE T == {k \in 0..n : b < P[k]}
  <2>1. T \subseteq Nat /\ n \in T
    BY <1>1, <1>2 DEF Ends
  <2>2. PICK m \in T : \A k \in T : m <= k
    <3> HIDE DEF T
    <3> QED
      BY <2>1, LeastNatural
  <2>3. m # 0
    BY <2>2 DEF Ends
  <2>4. m \in 1..n /\ m - 1 \in 0..n
    BY <1>1, <2>2, <2>3
  <2>5. m - 1 \notin T
    BY <2>2, <2>4
  <2>6. P[m - 1] \in Nat /\ P[m] \in Nat
    BY <2>4 DEF Ends
  <2>7. b \in P[m - 1] .. (P[m] - 1)
    BY <2>2, <2>4, <2>5, <2>6
  <2> QED
    BY <2>4, <2>7 DEF Bytes
<1>3. Bytes(P, 1..n) \subseteq 0..(total - 1)
  <2> SUFFICES ASSUME NEW i \in 1..n, NEW b \in P[i - 1] .. (P[i] - 1)
               PROVE  b \in 0..(total - 1)
    BY DEF Bytes
  <2>1. i \in 0..n /\ i - 1 \in 0..n /\ n \in 0..n /\ i <= n
    BY <1>1
  <2>2. P[i] <= P[n]
    BY <2>1, EndsInOrder
  <2>3. P[i - 1] \in Nat /\ P[i] \in Nat /\ P[n] = total
    BY <2>1 DEF Ends
  <2> QED
    BY <1>1, <2>2, <2>3
<1>4. Bytes(P, 1..n) = 0..(total - 1)
  BY <1>2, <1>3
<1>5. Cardinality(0..(total - 1)) = total
  BY <1>1, FS_Interval
<1> QED
  BY <1>4, <1>5

\* A sum over a set of positions does not depend on the function that sums.
LEMMA SumsAgree ==
    ASSUME NEW s, NEW n, n \in Nat, DOMAIN s = 1..n,
           NEW f, Sums(s, f), NEW g, Sums(s, g)
    PROVE  f[1..n] = g[1..n]
<1> DEFINE D == SUBSET (1..n)
           T == {Cardinality(p) : p \in {q \in D : f[q] # g[q]}}
<1>1. ASSUME NEW p \in D PROVE IsFiniteSet(p) /\ Cardinality(p) \in Nat
  <2>1. IsFiniteSet(1..n)
    BY FS_Interval
  <2>2. IsFiniteSet(p)
    BY <2>1, FS_Subset
  <2> QED
    BY <2>2, FS_CardinalityType
<1>2. ASSUME NEW p \in D
      PROVE  /\ p = {} => f[p] = g[p]
             /\ p # {} => \E x \in p : f[p \ {x}] = g[p \ {x}] => f[p] = g[p]
  <2> DEFINE x == CHOOSE i \in p : TRUE
  <2>1. p # {} => x \in p
    OBVIOUS
  <2>2. /\ f[p] = IF p = {} THEN 0 ELSE s[x].bLength + f[p \ {x}]
        /\ g[p] = IF p = {} THEN 0 ELSE s[x].bLength + g[p \ {x}]
    BY DEF Sums
  <2> HIDE DEF x
  <2> QED
    BY <2>1, <2>2
<1> SUFFICES ASSUME f[1..n] # g[1..n] PROVE FALSE
  OBVIOUS
<1>3. T \subseteq Nat /\ T # {}
  BY <1>1
<1>4. PICK m \in T : \A k \in T : m <= k
  <2> HIDE DEF T
  <2> QED
    BY <1>3, LeastNatural
<1>5. PICK p \in D : m = Cardinality(p) /\ f[p] # g[p]
  BY <1>4
<1>6. PICK x \in p : f[p \ {x}] # g[p \ {x}]
  BY <1>2, <1>5
<1>7. p \ {x} \in D /\ Cardinality(p \ {x}) \in T
  BY <1>6
<1>8. Cardinality(p \ {x}) = Cardinality(p) - 1
  BY <1>1, <1>6, FS_RemoveElement
<1>9. Cardinality(p) \in Nat /\ Cardinality(p \ {x}) \in Nat
  BY <1>1, <1>7
<1>10. m <= Cardinality(p \ {x})
  BY <1>4, <1>7
<1> QED
  BY <1>5, <1>8, <1>9, <1>10

\* So SizeofSet is the place where the last descriptor ends.
THEOREM SizeIsLastEnd ==
    ASSUME NEW s, NEW n, NEW P, NEW total, Ends(s, n, P, total)
    PROVE  SizeofSet(s) = total
<1> DEFINE g == [p \in SUBSET DOMAIN s |-> Cardinality(Bytes(P, p))]
<1>1. n \in Nat /\ DOMAIN s = 1..n
  BY DEF Ends
<1>2. Sums(s, g)
  <2>1. ASSUME NEW p \in SUBSET DOMAIN s, p # {}
        PROVE  g[p] = s[CHOOSE i \in p : TRUE].bLength
                          + g[p \ {CHOOSE i \in p : TRUE}]
    <3> DEFINE x == CHOOSE i \in p : TRUE
    <3>1. x \in p
      BY <2>1
    <3> HIDE DEF x
    <3>2. Cardinality(Bytes(P, p)) = s[x].bLength + Cardinality(Bytes(P, p \ {x}))
      BY <1>1, <3>1, BytesAdd
    <3>3. g[p] = s[x].bLength + g[p \ {x}]
      BY <3>2
    <3> QED
      BY <3>3 DEF x
  <2>2. ASSUME NEW p \in SUBSET DOMAIN s, p = {} PROVE g[p] = 0
    <3>1. Bytes(P, {}) = {}
      BY DEF Bytes
    <3> QED
      BY <2>2, <3>1, FS_EmptySet
  <2>3. g = [p \in SUBSET DOMAIN s |-> g[p]]
    OBVIOUS
  <2> HIDE DEF g
  <2>4. \A p \in SUBSET DOMAIN s :
            g[p] = IF p = {} THEN 0
                   ELSE s[CHOOSE i \in p : TRUE].bLength
                            + g[p \ {CHOOSE i \in p : TRUE}]
    BY <2>1, <2>2
  <2> QED
    BY <2>3, <2>4 DEF Sums
<1>3. g[1..n] = total
  BY <1>1, AllBytes
<1> HIDE DEF g
<1> DEFINE f == CHOOSE h : Sums(s, h)
<1>4. Sums(s, f)
  BY <1>2
<1> HIDE DEF f
<1>5. f[1..n] = g[1..n]
  BY <1>1, <1>2, <1>4, SumsAgree
<1>6. SizeofSet(s) = f[DOMAIN s]
  BY SizeofSetSums DEF f
<1> QED
  BY <1>1, <1>3, <1>5, <1>6
-----------------------------------------------------------------------------
(* What a table counts.                                                    *)

\* A part of a table of total bytes.
Sized(s, total) == \E n, P : Ends(s, n, P, total)

\* Every interface of the part has a number in N, ...
Numbered(s, N) == \A i : IsA(s, i, "interface") => s[i].number \in N

\* ... and counts the endpoints that belong to it.
CountsPipes(s) ==
    \A i : IsA(s, i, "interface") =>
        /\ IsFiniteSet(PipesOf(s, i))
        /\ Cardinality(PipesOf(s, i)) = s[i].bNumEndpoints

\* The companions are the descriptors after the endpoints.
Paired(s) == \A j \in Int : IsA(s, j, "endpoint") <=> IsA(s, j + 1, "companion")

\* A part whose counts are true: of its bytes, of its interfaces' numbers, of the
\* endpoints of each.
Counts(s, total, N) ==
    /\ \E S : s \in Seq(S)
    /\ Sized(s, total)
    /\ Has(s, N)
    /\ Numbered(s, N)
    /\ CountsPipes(s)

\* Lengths add up.
LEMMA SizedComposes ==
    ASSUME NEW u, NEW s, NEW n, NEW t, NEW l, Joins(u, s, n, t, l),
           NEW a, Sized(s, a), NEW b, Sized(t, b)
    PROVE  Sized(u, a + b)
<1>1. PICK P : Ends(s, n, P, a)
  <2>1. PICK m, P : Ends(s, m, P, a)
    BY DEF Sized
  <2>2. m \in Nat /\ n \in Nat /\ 1..m = 1..n
    BY <2>1 DEF Ends, Joins
  <2>3. m = n
    BY <2>2
  <2> QED
    BY <2>1, <2>3
<1>2. PICK Q : Ends(t, l, Q, b)
  <2>1. PICK m, Q : Ends(t, m, Q, b)
    BY DEF Sized
  <2>2. m \in Nat /\ l \in Nat /\ 1..m = 1..l
    BY <2>1 DEF Ends, Joins
  <2>3. m = l
    BY <2>2
  <2> QED
    BY <2>1, <2>3
<1> DEFINE R == [i \in 0..(n + l) |-> IF i <= n THEN P[i] ELSE a + Q[i - n]]
<1>3. /\ n \in Nat /\ l \in Nat /\ a \in Nat /\ b \in Nat
      /\ \A i \in 0..n : P[i] \in Nat
      /\ \A i \in 0..l : Q[i] \in Nat
      /\ P[0] = 0 /\ P[n] = a /\ Q[0] = 0 /\ Q[l] = b
  BY <1>1, <1>2 DEF Ends
<1>4. ASSUME NEW i \in 0..(n + l)
      PROVE  /\ i <= n => i \in 0..n /\ R[i] = P[i]
             /\ i >= n => i - n \in 0..l /\ R[i] = a + Q[i - n]
  BY <1>3
<1>5. R \in [0..(n + l) -> Nat]
  BY <1>3
<1>6. R[0] = 0 /\ R[n + l] = a + b
  BY <1>3
<1> HIDE DEF R
<1>7. ASSUME NEW i \in 1..(n + l)
      PROVE  u[i].bLength \in Nat /\ R[i] = R[i - 1] + u[i].bLength
  <2>1. i \in 0..(n + l) /\ i - 1 \in 0..(n + l) /\ i \in Int
    BY <1>3
  <2>2. CASE i <= n
    <3>1. i \in 1..n /\ u[i] = s[i]
      BY <1>3, <2>2 DEF Joins
    <3>2. s[i].bLength \in Nat /\ P[i] = P[i - 1] + s[i].bLength
      BY <1>1, <3>1 DEF Ends
    <3>3. R[i] = P[i] /\ R[i - 1] = P[i - 1]
      BY <1>3, <1>4, <2>1, <2>2
    <3> QED
      BY <3>1, <3>2, <3>3
  <2>3. CASE i > n
    <3> DEFINE k == i - n
    <3>1. k \in 1..l /\ k + n = i
      BY <1>3, <2>1, <2>3
    <3>2. R[i] = a + Q[k] /\ R[i - 1] = a + Q[k - 1]
      <4>1. i >= n /\ i - 1 >= n /\ (i - 1) - n = k - 1
        BY <1>3, <2>1, <2>3
      <4> QED
        BY <1>4, <2>1, <4>1
    <3> HIDE DEF k
    <3>3. u[k + n] = t[k]
      BY <3>1 DEF Joins
    <3>4. t[k].bLength \in Nat /\ Q[k] = Q[k - 1] + t[k].bLength
      BY <1>2, <3>1 DEF Ends
    <3>5. Q[k - 1] \in Nat
      BY <1>3, <3>1
    <3> QED
      BY <1>3, <3>1, <3>2, <3>3, <3>4, <3>5
  <2> QED
    BY <1>3, <2>1, <2>2, <2>3
<1>8. Ends(u, n + l, R, a + b)
  BY <1>3, <1>5, <1>6, <1>7 DEF Ends, Joins
<1> QED
  BY <1>8 DEF Sized

\* Moved, as many endpoints are as many.
LEMMA ShiftedCardinality ==
    ASSUME NEW p \in SUBSET Int, IsFiniteSet(p), NEW n \in Nat
    PROVE  /\ IsFiniteSet({j + n : j \in p})
           /\ Cardinality({j + n : j \in p}) = Cardinality(p)
<1> DEFINE q == {j + n : j \in p}
           f == [j \in p |-> j + n]
<1>1. f \in Bijection(p, q)
  BY DEF Bijection, Injection, Surjection, IsInjective
<1>2. ExistsBijection(p, q)
  BY <1>1 DEF ExistsBijection
<1> HIDE DEF q
<1>3. IsFiniteSet(q) /\ Cardinality(q) = Cardinality(p)
  BY <1>2, FS_Bijection
<1> QED
  BY <1>3 DEF q

\* An interface keeps its endpoints when its part is followed by another or follows it.
LEMMA CountsPipesComposes ==
    ASSUME NEW u, NEW s, NEW n, NEW t, NEW l, Joins(u, s, n, t, l),
           l > 0, t[1].type \in Separators, CountsPipes(s), CountsPipes(t)
    PROVE  CountsPipes(u)
<1> SUFFICES ASSUME NEW i, IsA(u, i, "interface")
             PROVE  /\ IsFiniteSet(PipesOf(u, i))
                    /\ Cardinality(PipesOf(u, i)) = u[i].bNumEndpoints
  BY DEF CountsPipes
<1>1. i \in 1..(n + l) /\ n \in Nat /\ l \in Nat
  BY DEF IsA, Joins
<1>2. CASE i \in 1..n
  <2>1. Belonging(u, i) = Belonging(s, i)
    BY <1>2, BelongingInFirst
  <2>2. \A j \in Belonging(s, i) : IsA(u, j, "endpoint") <=> IsA(s, j, "endpoint")
    BY DEF Belonging, Joins, IsA
  <2>3. PipesOf(u, i) = PipesOf(s, i)
    BY <2>1, <2>2 DEF PipesOf
  <2>4. IsA(s, i, "interface") /\ u[i] = s[i]
    BY <1>2 DEF IsA, Joins
  <2> QED
    BY <2>3, <2>4 DEF CountsPipes
<1>3. CASE i \notin 1..n
  <2> DEFINE k == i - n
  <2>1. k \in 1..l /\ i = k + n
    BY <1>1, <1>3
  <2> HIDE DEF k
  <2>2. Belonging(u, i) = {j + n : j \in Belonging(t, k)}
    BY <2>1, BelongingInSecond
  <2>3. Belonging(t, k) \subseteq 1..l
    BY DEF Belonging, Joins
  <2>4. \A j \in Belonging(t, k) : IsA(u, j + n, "endpoint") <=> IsA(t, j, "endpoint")
    BY <2>3 DEF Joins, IsA
  <2>5. PipesOf(u, i) = {j + n : j \in PipesOf(t, k)}
    BY <2>2, <2>4 DEF PipesOf
  <2>6. IsA(t, k, "interface") /\ u[i] = t[k]
    BY <2>1 DEF IsA, Joins
  <2>7. /\ IsFiniteSet(PipesOf(t, k))
        /\ Cardinality(PipesOf(t, k)) = t[k].bNumEndpoints
    BY <2>6 DEF CountsPipes
  <2>8. PipesOf(t, k) \subseteq Int
    BY <1>1, <2>3 DEF PipesOf
  <2> QED
    BY <1>1, <2>5, <2>6, <2>7, <2>8, ShiftedCardinality
<1> QED
  BY <1>2, <1>3

\* True counts of two parts are true of both together.
LEMMA CountsCompose ==
    ASSUME NEW s, NEW a, NEW N, Counts(s, a, N),
           NEW t, NEW b, NEW M, Counts(t, b, M), Separate(t)
    PROVE  Counts(s \o t, a + b, N \cup M)
<1> DEFINE u == s \o t
           n == Len(s)
           l == Len(t)
<1>1. PICK S : s \in Seq(S)
  BY DEF Counts
<1>2. PICK T : t \in Seq(T)
  BY DEF Counts
<1>3. u \in Seq(S \cup T)
  <2>1. s \in Seq(S \cup T) /\ t \in Seq(S \cup T)
    BY <1>1, <1>2
  <2> QED
    BY <2>1
<1>4. Joins(u, s, n, t, l) /\ l > 0 /\ t[1].type \in Separators
  BY <1>1, <1>2, ConcatenationJoins DEF Separate
<1> HIDE DEF u, n, l
<1>5. Sized(u, a + b)
  BY <1>4, SizedComposes DEF Counts
<1>6. Has(u, N \cup M)
  <2>1. ASSUME NEW i PROVE IsA(s, i, "interface") => IsA(u, i, "interface") /\ u[i] = s[i]
    BY <1>4 DEF IsA, Joins
  <2>2. ASSUME NEW i
        PROVE  IsA(t, i, "interface") => IsA(u, i + n, "interface") /\ u[i + n] = t[i]
    BY <1>4 DEF IsA, Joins
  <2>3. Has(s, N) /\ Has(t, M)
    BY DEF Counts
  <2> SUFFICES ASSUME NEW m \in N \cup M
               PROVE  \E i : IsA(u, i, "interface") /\ u[i].number = m
    BY DEF Has
  <2>4. CASE m \in N
    BY <2>1, <2>3, <2>4 DEF Has
  <2>5. CASE m \in M
    BY <2>2, <2>3, <2>5 DEF Has
  <2> QED
    BY <2>4, <2>5
<1>7. Numbered(u, N \cup M)
  <2> SUFFICES ASSUME NEW i, IsA(u, i, "interface") PROVE u[i].number \in N \cup M
    BY DEF Numbered
  <2>1. i \in 1..(n + l) /\ n \in Nat /\ l \in Nat
    BY <1>4 DEF IsA, Joins
  <2>2. CASE i \in 1..n
    <3>1. IsA(s, i, "interface") /\ u[i] = s[i]
      BY <1>4, <2>2 DEF IsA, Joins
    <3> QED
      BY <3>1 DEF Counts, Numbered
  <2>3. CASE i \notin 1..n
    <3> DEFINE k == i - n
    <3>1. k \in 1..l /\ i = k + n
      BY <2>1, <2>3
    <3> HIDE DEF k
    <3>2. IsA(t, k, "interface") /\ u[i] = t[k]
      BY <1>4, <3>1 DEF IsA, Joins
    <3> QED
      BY <3>2 DEF Counts, Numbered
  <2> QED
    BY <2>2, <2>3
<1>8. CountsPipes(u)
  BY <1>4, CountsPipesComposes DEF Counts
<1>9. Counts(u, a + b, N \cup M)
  BY <1>3, <1>5, <1>6, <1>7, <1>8 DEF Counts
<1> QED
  BY <1>9 DEF u

\* What is counted of a part is known from the first section.
LEMMA PartHas ==
    ASSUME NEW s, NEW A, NEW N, NEW G, Part(s, A, N, G)
    PROVE  (\E S : s \in Seq(S)) /\ Has(s, N)
BY DEF Part

\* The sizes of small sets of positions: of none, ...
LEMMA NoPositions == IsFiniteSet({}) /\ Cardinality({}) = 0
BY FS_EmptySet

\* ... of one, ...
LEMMA OnePosition == ASSUME NEW a PROVE IsFiniteSet({a}) /\ Cardinality({a}) = 1
BY FS_Singleton

\* ... of two, ...
LEMMA TwoPositions ==
    ASSUME NEW a, NEW b, a # b
    PROVE  IsFiniteSet({a, b}) /\ Cardinality({a, b}) = 2
<1>1. /\ IsFiniteSet({a} \cup {b})
      /\ Cardinality({a} \cup {b}) =
            IF b \in {a} THEN Cardinality({a}) ELSE Cardinality({a}) + 1
  BY OnePosition, FS_AddElement
<1>2. {a} \cup {b} = {a, b} /\ b \notin {a}
  OBVIOUS
<1>3. Cardinality({a}) = 1
  BY OnePosition
<1>4. Cardinality({a} \cup {b}) = 2
  BY <1>1, <1>2, <1>3
<1> QED
  BY <1>1, <1>2, <1>4

\* ... and of three.
LEMMA ThreePositions ==
    ASSUME NEW a, NEW b, NEW c, a # b, a # c, b # c
    PROVE  IsFiniteSet({a, b, c}) /\ Cardinality({a, b, c}) = 3
<1>1. /\ IsFiniteSet({a, b} \cup {c})
      /\ Cardinality({a, b} \cup {c}) =
            IF c \in {a, b} THEN Cardinality({a, b}) ELSE Cardinality({a, b}) + 1
  BY TwoPositions, FS_AddElement
<1>2. {a, b} \cup {c} = {a, b, c} /\ c \notin {a, b}
  OBVIOUS
<1>3. Cardinality({a, b}) = 2
  BY TwoPositions
<1> QED
  BY <1>1, <1>2, <1>3

\* The MBIM function of the SuperSpeed build.
LEMMA Usb30MbimCounts == Counts(Usb30Mbim, 114, {0, 1}) /\ Paired(Usb30Mbim)
<1> DEFINE s == Usb30Mbim
           P == [i \in 0..16 |-> <<0, 8, 17, 22, 27, 39, 47, 54, 60, 69, 74, 83, 88,
                                   95, 101, 108, 114>>[i + 1]]
<1>0. (\E S : s \in Seq(S)) /\ Has(s, {0, 1})
  BY Usb30MbimPart, PartHas
<1> USE DEF IsA, Usb30Mbim, Association, Interface, Functional, Union,
            MbimFunctional, Endpoint, Companion, CommunicationInterfaceIndex,
            DataInterfaceIndex, Separators
<1>1. Ends(s, 16, P, 114)
  BY DEF Ends
<1>2. Numbered(s, {0, 1}) /\ Paired(s)
  <2>1. Numbered(s, {0, 1})
    BY DEF Numbered
  <2>2. Paired(s)
    BY DEF Paired
  <2> QED
    BY <2>1, <2>2
<1>3. \A i : IsA(s, i, "interface") => i \in {2, 9, 11}
  OBVIOUS
<1>4. \A j : IsA(s, j, "endpoint") => j \in {7, 13, 15}
  OBVIOUS
<1>5. PipesOf(s, 2) = {7}
  <2>1. PipesOf(s, 2) \subseteq {7}
    BY <1>4 DEF PipesOf, Belonging
  <2>2. 7 \in PipesOf(s, 2)
    BY DEF PipesOf, Belonging
  <2> QED
    BY <2>1, <2>2
<1>6. PipesOf(s, 9) = {}
  BY <1>4 DEF PipesOf, Belonging
<1>7. PipesOf(s, 11) = {13, 15}
  <2>1. PipesOf(s, 11) \subseteq {13, 15}
    BY <1>4 DEF PipesOf, Belonging
  <2>2. {13, 15} \subseteq PipesOf(s, 11)
    BY DEF PipesOf, Belonging
  <2> QED
    BY <2>1, <2>2
<1>8. s[2].bNumEndpoints = 1 /\ s[9].bNumEndpoints = 0 /\ s[11].bNumEndpoints = 2
  OBVIOUS
<1> HIDE DEF s, P
<1>10. CountsPipes(s)
  <2>1. IsFiniteSet({7}) /\ Cardinality({7}) = 1
    BY OnePosition
  <2>2. IsFiniteSet({13, 15}) /\ Cardinality({13, 15}) = 2
    BY TwoPositions
  <2>3. \A i \in {2, 9, 11} : /\ IsFiniteSet(PipesOf(s, i))
                            /\ Cardinality(PipesOf(s, i)) = s[i].bNumEndpoints
    BY <1>5, <1>6, <1>7, <1>8, <2>1, <2>2, NoPositions
  <2> QED
    BY <1>3, <2>3 DEF CountsPipes
<1> QED
  BY <1>1, <1>2, <1>0, <1>10 DEF Counts, Sized, s

\* Its HID function.
LEMMA Usb30HidCounts == Counts(Usb30Hid, 39, {10}) /\ Paired(Usb30Hid)
<1> DEFINE s == Usb30Hid
           P == [i \in 0..5 |-> <<0, 8, 17, 26, 33, 39>>[i + 1]]
<1>0. (\E S : s \in Seq(S)) /\ Has(s, {10})
  BY Usb30HidPart, PartHas
<1> USE DEF IsA, Usb30Hid, Association, Interface, Hid, Endpoint, Companion,
            MSInterfaceIndex, Separators
<1>1. Ends(s, 5, P, 39)
  BY DEF Ends
<1>2. Numbered(s, {10}) /\ Paired(s)
  BY DEF Numbered, Paired
<1>3. \A i : IsA(s, i, "interface") => i = 2 /\ s[i].bNumEndpoints = 1
  OBVIOUS
<1>4. PipesOf(s, 2) = {4}
  <2>1. PipesOf(s, 2) \subseteq {4}
    BY DEF PipesOf, Belonging
  <2>2. 4 \in PipesOf(s, 2)
    BY DEF PipesOf, Belonging
  <2> QED
    BY <2>1, <2>2
<1> HIDE DEF s, P
<1>6. CountsPipes(s)
  BY <1>3, <1>4, OnePosition DEF CountsPipes
<1> QED
  BY <1>1, <1>2, <1>0, <1>6 DEF Counts, Sized, s

\* The USB 2.0 tables have no companion.
Alone(s) == \A j : ~ IsA(s, j, "companion")

\* The MBIM function of the USB 2.0 build.
LEMMA Usb20MbimCounts == Counts(Usb20Mbim, 96, {0, 1}) /\ Alone(Usb20Mbim)
<1> DEFINE s == Usb20Mbim
           P == [i \in 0..13 |-> <<0, 8, 17, 22, 27, 39, 47, 54, 63, 68, 77, 82,
                                   89, 96>>[i + 1]]
<1>0. (\E S : s \in Seq(S)) /\ Has(s, {0, 1})
  BY Usb20MbimPart, PartHas
<1> USE DEF IsA, Usb20Mbim, Association, Interface, Functional, Union,
            MbimFunctional, Endpoint, CommunicationInterfaceIndex,
            DataInterfaceIndex, Separators
<1>1. Ends(s, 13, P, 96)
  BY DEF Ends
<1>2. Numbered(s, {0, 1}) /\ Alone(s)
  BY DEF Numbered, Alone
<1>3. \A i : IsA(s, i, "interface") => i \in {2, 8, 10}
  OBVIOUS
<1>4. \A j : IsA(s, j, "endpoint") => j \in {7, 12, 13}
  OBVIOUS
<1>5. PipesOf(s, 2) = {7}
  <2>1. PipesOf(s, 2) \subseteq {7}
    BY <1>4 DEF PipesOf, Belonging
  <2>2. 7 \in PipesOf(s, 2)
    BY DEF PipesOf, Belonging
  <2> QED
    BY <2>1, <2>2
<1>6. PipesOf(s, 8) = {}
  BY <1>4 DEF PipesOf, Belonging
<1>7. PipesOf(s, 10) = {12, 13}
  <2>1. PipesOf(s, 10) \subseteq {12, 13}
    BY <1>4 DEF PipesOf, Belonging
  <2>2. {12, 13} \subseteq PipesOf(s, 10)
    BY DEF PipesOf, Belonging
  <2> QED
    BY <2>1, <2>2
<1>8. s[2].bNumEndpoints = 1 /\ s[8].bNumEndpoints = 0 /\ s[10].bNumEndpoints = 2
  OBVIOUS
<1> HIDE DEF s, P
<1>10. CountsPipes(s)
  <2>1. IsFiniteSet({7}) /\ Cardinality({7}) = 1
    BY OnePosition
  <2>2. IsFiniteSet({12, 13}) /\ Cardinality({12, 13}) = 2
    BY TwoPositions
  <2>3. \A i \in {2, 8, 10} : /\ IsFiniteSet(PipesOf(s, i))
                            /\ Cardinality(PipesOf(s, i)) = s[i].bNumEndpoints
    BY <1>5, <1>6, <1>7, <1>8, <2>1, <2>2, NoPositions
  <2> QED
    BY <1>3, <2>3 DEF CountsPipes
<1> QED
  BY <1>1, <1>2, <1>0, <1>10 DEF Counts, Sized, s

\* The mouse.
LEMMA MouseCounts == Counts(Mouse, 33, {0}) /\ Alone(Mouse)
<1> DEFINE s == Mouse
           P == [i \in 0..4 |-> <<0, 8, 17, 26, 33>>[i + 1]]
<1>0. (\E S : s \in Seq(S)) /\ Has(s, {0})
  BY MousePart, PartHas
<1> USE DEF IsA, Mouse, Association, Interface, Hid, Endpoint, Separators
<1>1. Ends(s, 4, P, 33)
  BY DEF Ends
<1>2. Numbered(s, {0}) /\ Alone(s)
  BY DEF Numbered, Alone
<1>3. \A i : IsA(s, i, "interface") => i = 2 /\ s[i].bNumEndpoints = 1
  OBVIOUS
<1>4. PipesOf(s, 2) = {4}
  <2>1. PipesOf(s, 2) \subseteq {4}
    BY DEF PipesOf, Belonging
  <2>2. 4 \in PipesOf(s, 2)
    BY DEF PipesOf, Belonging
  <2> QED
    BY <2>1, <2>2
<1> HIDE DEF s, P
<1>6. CountsPipes(s)
  BY <1>3, <1>4, OnePosition DEF CountsPipes
<1> QED
  BY <1>1, <1>2, <1>0, <1>6 DEF Counts, Sized, s

\* What begins every table.
LEMMA ConfigurationCounts ==
    ASSUME NEW total, NEW interfaces
    PROVE  LET s == <<Configuration(total, interfaces)>>
           IN  Counts(s, 9, {}) /\ Paired(s) /\ Alone(s)
<1> DEFINE s == <<Configuration(total, interfaces)>>
           P == [i \in 0..1 |-> <<0, 9>>[i + 1]]
<1>0. (\E S : s \in Seq(S)) /\ Has(s, {})
  BY ConfigurationPart, PartHas
<1> USE DEF IsA, Configuration
<1>1. Ends(s, 1, P, 9)
  BY DEF Ends
<1>2. Numbered(s, {}) /\ Paired(s) /\ Alone(s) /\ CountsPipes(s)
  BY DEF Numbered, Paired, Alone, CountsPipes
<1> HIDE DEF s, P
<1>4. Counts(s, 9, {}) /\ Paired(s) /\ Alone(s)
  BY <1>1, <1>2, <1>0 DEF Counts, Sized
<1> QED
  BY <1>4 DEF s

\* Sequences are the same if each descriptor is.
LEMMA SameSequence ==
    ASSUME NEW S, NEW s \in Seq(S), NEW t \in Seq(S), Len(s) = Len(t),
           \A i \in 1..Len(s) : s[i] = t[i]
    PROVE  s = t
OBVIOUS

\* The parts of the vendor function, written out.
LEMMA VendorParts ==
    /\ MSInterface0 =
          <<Association(10, 4), Interface(10, 0, 2),
            Endpoint(\h81, "bulk", 512), Endpoint(\h01, "bulk", 512)>>
    /\ \A i \in 1..2 :
          CdcInterface(i) =
             <<Interface(10 + i, 0, 3), Functional(5), Functional(5), Functional(4),
               Functional(5), Endpoint(MSInterrupt(i), "interrupt", 12),
               Endpoint(MSBulkIn(i), "bulk", 512), Endpoint(MSBulkOut(i), "bulk", 512)>>
    /\ MSInterface3 =
          <<Interface(13, 0, 3), Endpoint(\h87, "interrupt", 10),
            Endpoint(\h86, "bulk", 512), Endpoint(\h06, "bulk", 512)>>
<1>1. ASSUME NEW a, NEW b, NEW c, NEW d
      PROVE  <<a, b>> \o <<c, d>> = <<a, b, c, d>>
  <2> DEFINE S == {a, b, c, d}
  <2>1. <<a, b>> \in Seq(S) /\ <<c, d>> \in Seq(S) /\ <<a, b, c, d>> \in Seq(S)
    OBVIOUS
  <2> DEFINE s == <<a, b>> \o <<c, d>>
             t == <<a, b, c, d>>
  <2>2. s \in Seq(S) /\ Len(s) = 4 /\ Len(t) = 4
    BY <2>1
  <2>3. s[1] = t[1] /\ s[2] = t[2] /\ s[3] = t[3] /\ s[4] = t[4]
    BY <2>1
  <2> HIDE DEF S, s, t
  <2>4. \A i \in 1..Len(s) : s[i] = t[i]
    BY <2>2, <2>3
  <2>5. t \in Seq(S)
    BY <2>1 DEF t
  <2>6. s = t
    BY <2>2, <2>4, <2>5, SameSequence
  <2> QED
    BY <2>6 DEF s, t
<1>2. ASSUME NEW a, NEW b, NEW c, NEW d, NEW e, NEW f, NEW g, NEW h
      PROVE  <<a, b, c, d, e, f>> \o <<g, h>> = <<a, b, c, d, e, f, g, h>>
  <2> DEFINE S == {a, b, c, d, e, f, g, h}
  <2>1. /\ <<a, b, c, d, e, f>> \in Seq(S) /\ <<g, h>> \in Seq(S)
        /\ <<a, b, c, d, e, f, g, h>> \in Seq(S)
    OBVIOUS
  <2> DEFINE s == <<a, b, c, d, e, f>> \o <<g, h>>
             t == <<a, b, c, d, e, f, g, h>>
  <2>2. s \in Seq(S) /\ Len(s) = 8 /\ Len(t) = 8
    BY <2>1
  <2>3. /\ s[1] = t[1] /\ s[2] = t[2] /\ s[3] = t[3] /\ s[4] = t[4]
        /\ s[5] = t[5] /\ s[6] = t[6] /\ s[7] = t[7] /\ s[8] = t[8]
    BY <2>1
  <2> HIDE DEF S, s, t
  <2>4. \A i \in 1..Len(s) : s[i] = t[i]
    BY <2>2, <2>3
  <2>5. t \in Seq(S)
    BY <2>1 DEF t
  <2>6. s = t
    BY <2>2, <2>4, <2>5, SameSequence
  <2> QED
    BY <2>6 DEF s, t
<1>3. MSInterfaceIndex(0) = 10 /\ MSInterfaceIndex(3) = 13
  BY DEF MSInterfaceIndex
<1>4. /\ MSBulkIn(0) = \h81 /\ MSBulkOut(0) = \h01
      /\ MSInterrupt(3) = \h87 /\ MSBulkIn(3) = \h86 /\ MSBulkOut(3) = \h06
  BY DEF MSBulkIn, MSBulkOut, MSInterrupt
<1>5. ASSUME NEW i \in 1..2 PROVE MSInterfaceIndex(i) = 10 + i
  BY DEF MSInterfaceIndex
<1> QED
  BY <1>1, <1>2, <1>3, <1>4, <1>5 DEF MSInterface0, CdcInterface, MSInterface3, BulkPair

\* What the vendor function's parts count: the first, ...
LEMMA MSInterface0Counts == Counts(MSInterface0, 31, {10}) /\ Alone(MSInterface0)
<1> DEFINE s == <<Association(10, 4), Interface(10, 0, 2),
                  Endpoint(\h81, "bulk", 512), Endpoint(\h01, "bulk", 512)>>
           P == [i \in 0..4 |-> <<0, 8, 17, 24, 31>>[i + 1]]
<1> USE DEF IsA, Association, Interface, Endpoint, Separators
<1>1. Ends(s, 4, P, 31)
  BY DEF Ends
<1>2. Numbered(s, {10}) /\ Alone(s)
  BY DEF Numbered, Alone
<1>3. \A i : IsA(s, i, "interface") => i = 2 /\ s[i].bNumEndpoints = 2
  OBVIOUS
<1>4. PipesOf(s, 2) = {3, 4}
  <2>1. PipesOf(s, 2) \subseteq {3, 4}
    BY DEF PipesOf, Belonging
  <2>2. {3, 4} \subseteq PipesOf(s, 2)
    BY DEF PipesOf, Belonging
  <2> QED
    BY <2>1, <2>2
<1>5. s = MSInterface0
  BY VendorParts
<1> HIDE DEF s, P
<1>6. (\E S : s \in Seq(S)) /\ Has(s, {10})
  BY <1>5, MSInterface0Part, PartHas
<1>7. IsFiniteSet({3, 4}) /\ Cardinality({3, 4}) = 2
  <2>1. 3 # 4
    OBVIOUS
  <2> QED
    BY <2>1, TwoPositions, Zenon
<1>8. CountsPipes(s)
  BY <1>3, <1>4, <1>7 DEF CountsPipes
<1> QED
  BY <1>1, <1>2, <1>5, <1>6, <1>8 DEF Counts, Sized

\* ... the interfaces with the CDC descriptors, ...
LEMMA CdcInterfaceCounts ==
    ASSUME NEW i \in 1..2
    PROVE  Counts(CdcInterface(i), 49, {10 + i}) /\ Alone(CdcInterface(i))
<1> DEFINE s == <<Interface(10 + i, 0, 3), Functional(5), Functional(5), Functional(4),
                  Functional(5), Endpoint(MSInterrupt(i), "interrupt", 12),
                  Endpoint(MSBulkIn(i), "bulk", 512), Endpoint(MSBulkOut(i), "bulk", 512)>>
           P == [j \in 0..8 |-> <<0, 9, 14, 19, 23, 28, 35, 42, 49>>[j + 1]]
<1> USE DEF IsA, Interface, Functional, Endpoint, Separators
<1>1. Ends(s, 8, P, 49)
  BY DEF Ends
<1>2. Numbered(s, {10 + i}) /\ Alone(s)
  BY DEF Numbered, Alone
<1>3. \A j : IsA(s, j, "interface") => j = 1 /\ s[j].bNumEndpoints = 3
  OBVIOUS
<1>4. PipesOf(s, 1) = {6, 7, 8}
  <2>1. PipesOf(s, 1) \subseteq {6, 7, 8}
    BY DEF PipesOf, Belonging
  <2>2. {6, 7, 8} \subseteq PipesOf(s, 1)
    BY DEF PipesOf, Belonging
  <2> QED
    BY <2>1, <2>2
<1>5. s = CdcInterface(i)
  BY VendorParts
<1> HIDE DEF s, P
<1>6. (\E S : s \in Seq(S)) /\ Has(s, {10 + i})
  BY <1>5, CdcInterfacePart, PartHas
<1>7. IsFiniteSet({6, 7, 8}) /\ Cardinality({6, 7, 8}) = 3
  <2>1. 6 # 7 /\ 6 # 8 /\ 7 # 8
    OBVIOUS
  <2> QED
    BY <2>1, ThreePositions, Zenon
<1>8. CountsPipes(s)
  BY <1>3, <1>4, <1>7 DEF CountsPipes
<1> QED
  BY <1>1, <1>2, <1>5, <1>6, <1>8 DEF Counts, Sized

\* ... and the last.
LEMMA MSInterface3Counts == Counts(MSInterface3, 30, {13}) /\ Alone(MSInterface3)
<1> DEFINE s == <<Interface(13, 0, 3), Endpoint(\h87, "interrupt", 10),
                  Endpoint(\h86, "bulk", 512), Endpoint(\h06, "bulk", 512)>>
           P == [j \in 0..4 |-> <<0, 9, 16, 23, 30>>[j + 1]]
<1> USE DEF IsA, Interface, Endpoint, Separators
<1>1. Ends(s, 4, P, 30)
  BY DEF Ends
<1>2. Numbered(s, {13}) /\ Alone(s)
  BY DEF Numbered, Alone
<1>3. \A j : IsA(s, j, "interface") => j = 1 /\ s[j].bNumEndpoints = 3
  OBVIOUS
<1>4. PipesOf(s, 1) = {2, 3, 4}
  <2>1. PipesOf(s, 1) \subseteq {2, 3, 4}
    BY DEF PipesOf, Belonging
  <2>2. {2, 3, 4} \subseteq PipesOf(s, 1)
    BY DEF PipesOf, Belonging
  <2> QED
    BY <2>1, <2>2
<1>5. s = MSInterface3
  BY VendorParts
<1> HIDE DEF s, P
<1>6. (\E S : s \in Seq(S)) /\ Has(s, {13})
  BY <1>5, MSInterface3Part, PartHas
<1>7. IsFiniteSet({2, 3, 4}) /\ Cardinality({2, 3, 4}) = 3
  <2>1. 2 # 3 /\ 2 # 4 /\ 3 # 4
    OBVIOUS
  <2> QED
    BY <2>1, ThreePositions, Zenon
<1>8. CountsPipes(s)
  BY <1>3, <1>4, <1>7 DEF CountsPipes
<1> QED
  BY <1>1, <1>2, <1>5, <1>6, <1>8 DEF Counts, Sized

\* Companions follow endpoints in both parts, or in neither.
LEMMA CompanionsCompose ==
    ASSUME NEW S, NEW s \in Seq(S), NEW T, NEW t \in Seq(T)
    PROVE  /\ Paired(s) /\ Paired(t) => Paired(s \o t)
           /\ Alone(s) /\ Alone(t) => Alone(s \o t)
<1> DEFINE u == s \o t
           n == Len(s)
           l == Len(t)
<1>1. Joins(u, s, n, t, l)
  BY ConcatenationJoins
<1> HIDE DEF u, n, l
<1>2. n \in Nat /\ l \in Nat
  BY <1>1 DEF Joins
<1>3. ASSUME NEW j \in Int, NEW type
      PROVE  IsA(u, j, type) <=> IsA(s, j, type) \/ IsA(t, j - n, type)
  <2>1. CASE j \in 1..n
    BY <1>1, <1>2, <2>1 DEF IsA, Joins
  <2>2. CASE j \notin 1..n
    <3>1. j \in 1..(n + l) <=> j - n \in 1..l
      BY <1>2, <2>2
    <3>2. j - n \in 1..l => u[j] = t[j - n]
      <4>1. j - n \in 1..l => u[j - n + n] = t[j - n]
        BY <1>1 DEF Joins
      <4>2. j - n + n = j
        BY <1>2
      <4> QED
        BY <4>1, <4>2
    <3> QED
      BY <1>1, <2>2, <3>1, <3>2 DEF IsA, Joins
  <2> QED
    BY <2>1, <2>2
<1>4. ASSUME Paired(s), Paired(t) PROVE Paired(u)
  <2> SUFFICES ASSUME NEW j \in Int
               PROVE  IsA(u, j, "endpoint") <=> IsA(u, j + 1, "companion")
    BY DEF Paired
  <2>1. j - n \in Int /\ j + 1 \in Int /\ (j + 1) - n = (j - n) + 1
    BY <1>2
  <2>2. IsA(s, j, "endpoint") <=> IsA(s, j + 1, "companion")
    BY <1>4 DEF Paired
  <2>3. IsA(t, j - n, "endpoint") <=> IsA(t, (j - n) + 1, "companion")
    BY <1>4, <2>1 DEF Paired
  <2>4. IsA(u, j, "endpoint") <=> IsA(s, j, "endpoint") \/ IsA(t, j - n, "endpoint")
    BY <1>3
  <2>5. IsA(u, j + 1, "companion")
            <=> IsA(s, j + 1, "companion") \/ IsA(t, (j - n) + 1, "companion")
    BY <1>3, <2>1
  <2> QED
    BY <2>2, <2>3, <2>4, <2>5
<1>5. ASSUME Alone(s), Alone(t) PROVE Alone(u)
  <2> SUFFICES ASSUME NEW j, IsA(u, j, "companion") PROVE FALSE
    BY DEF Alone
  <2>1. j \in Int
    BY <1>1 DEF IsA, Joins
  <2> QED
    BY <1>3, <1>5, <2>1 DEF Alone
<1> QED
  BY <1>4, <1>5 DEF u

\* A table of which the host accepts the counts.
Acceptable(b) ==
    LET s == ComputedConfigDescSet(b) IN
    \E N : /\ Counts(s, s[1].wTotalLength, N)
           /\ s[1].type = "configuration"
           /\ IsFiniteSet(N) /\ Cardinality(N) = s[1].bNumInterfaces
           /\ IF SuperSpeedPort(b) THEN Paired(s) ELSE Alone(s)

\* A part that is added to a table adds its counts.
LEMMA TableGrows ==
    ASSUME NEW s, NEW a, NEW N, Counts(s, a, N),
           NEW t, NEW b, NEW M, Counts(t, b, M), LeadingPart(t), s # <<>>
    PROVE  /\ Counts(s \o t, a + b, N \cup M)
           /\ Paired(s) /\ Paired(t) => Paired(s \o t)
           /\ Alone(s) /\ Alone(t) => Alone(s \o t)
           /\ s \o t # <<>> /\ (s \o t)[1] = s[1]
<1>1. PICK S : s \in Seq(S)
  BY DEF Counts
<1>2. PICK T : t \in Seq(T)
  BY DEF Counts
<1>3. s \o t # <<>> /\ (s \o t)[1] = s[1]
  <2>1. s \in Seq(S \cup T) /\ t \in Seq(S \cup T)
    BY <1>1, <1>2
  <2> QED
    BY <2>1
<1>4. Counts(s \o t, a + b, N \cup M)
  BY CountsCompose DEF LeadingPart
<1> QED
  BY <1>1, <1>2, <1>3, <1>4, CompanionsCompose

\* The host accepts the counts of the SuperSpeed table, ...
LEMMA Usb30Acceptable == Acceptable("USB30_COMPOSITE")
<1> DEFINE s0 == <<Configuration(162, 3)>>
           s1 == s0 \o Usb30Mbim
           s2 == s1 \o Usb30Hid
<1>1. /\ Counts(s0, 9, {}) /\ Paired(s0) /\ s0 # <<>>
      /\ s0[1] = Configuration(162, 3)
  BY ConfigurationCounts
<1> HIDE DEF s0
<1>2. /\ Counts(s1, 9 + 114, {} \cup {0, 1}) /\ Paired(s1)
      /\ s1 # <<>> /\ s1[1] = Configuration(162, 3)
  <2>1. Counts(Usb30Mbim, 114, {0, 1}) /\ Paired(Usb30Mbim) /\ LeadingPart(Usb30Mbim)
    BY Usb30MbimCounts, Usb30Leading
  <2> DEFINE t == Usb30Mbim
             M == {0, 1}
             b == 114
  <2>2. Counts(t, b, M) /\ Paired(t) /\ LeadingPart(t)
    BY <2>1
  <2> HIDE DEF t, M, b
  <2>3. /\ Counts(s0 \o t, 9 + b, {} \cup M) /\ Paired(s0 \o t)
        /\ s0 \o t # <<>> /\ (s0 \o t)[1] = s0[1]
    BY <1>1, <2>2, TableGrows
  <2> QED
    BY <1>1, <2>3 DEF t, M, b
<1> HIDE DEF s1
<1>3. /\ Counts(s2, (9 + 114) + 39, ({} \cup {0, 1}) \cup {10}) /\ Paired(s2)
      /\ s2[1] = Configuration(162, 3)
  BY <1>2, Usb30HidCounts, Usb30Leading, TableGrows
<1>4. s2 = ComputedConfigDescSet("USB30_COMPOSITE")
  BY DEF ComputedConfigDescSet, UsbConfigDescriptorSet, s0, s1
<1> HIDE DEF s2
<1>5. ({} \cup {0, 1}) \cup {10} = {0, 1, 10} /\ (9 + 114) + 39 = 162
  OBVIOUS
<1>6. Counts(s2, 162, {0, 1, 10})
  BY <1>3, <1>5
<1>7. IsFiniteSet({0, 1, 10}) /\ Cardinality({0, 1, 10}) = 3
  <2>1. 0 # 1 /\ 0 # 10 /\ 1 # 10
    OBVIOUS
  <2> QED
    BY <2>1, ThreePositions, Zenon
<1> QED
  BY <1>3, <1>4, <1>6, <1>7 DEF Acceptable, SuperSpeedPort, Configuration

\* What is known of a table without companions, as far as it is put together.
Grown(s, a, N, header) ==
    Counts(s, a, N) /\ Alone(s) /\ s # <<>> /\ s[1] = header

\* What is asked of its next part.
Grows(t, b, M) == Counts(t, b, M) /\ Alone(t) /\ LeadingPart(t)

\* The next part of such a table.
LEMMA NextPart ==
    ASSUME NEW s, NEW a, NEW N, NEW header, Grown(s, a, N, header),
           NEW t, NEW b, NEW M, Grows(t, b, M)
    PROVE  Grown(s \o t, a + b, N \cup M, header)
<1>1. /\ Counts(s, a, N) /\ Alone(s) /\ s # <<>> /\ s[1] = header
      /\ Counts(t, b, M) /\ Alone(t) /\ LeadingPart(t)
  BY DEF Grown, Grows
<1>2. /\ Counts(s \o t, a + b, N \cup M) /\ Alone(s \o t)
      /\ s \o t # <<>> /\ (s \o t)[1] = s[1]
  BY <1>1, TableGrows
<1> QED
  BY <1>1, <1>2 DEF Grown

\* The parts of the USB 2.0 table.
LEMMA Usb20Grows ==
    /\ Grows(Usb20Mbim, 96, {0, 1}) /\ Grows(MSInterface0, 31, {10})
    /\ Grows(MSInterface1, 49, {11}) /\ Grows(MSInterface2, 49, {12})
    /\ Grows(MSInterface3, 30, {13})
<1>1. Grows(Usb20Mbim, 96, {0, 1})
  BY Usb20MbimCounts, Usb20Leading DEF Grows
<1>2. Grows(MSInterface0, 31, {10}) /\ Grows(MSInterface3, 30, {13})
  BY MSInterface0Counts, MSInterface3Counts, Usb20Leading DEF Grows
<1>3. Grows(MSInterface1, 49, {11}) /\ Grows(MSInterface2, 49, {12})
  <2>1. /\ Counts(CdcInterface(1), 49, {10 + 1}) /\ Alone(CdcInterface(1))
        /\ Counts(CdcInterface(2), 49, {10 + 2}) /\ Alone(CdcInterface(2))
    BY CdcInterfaceCounts
  <2>2. 10 + 1 = 11 /\ 10 + 2 = 12
    OBVIOUS
  <2>3. /\ Counts(MSInterface1, 49, {11}) /\ Alone(MSInterface1)
        /\ Counts(MSInterface2, 49, {12}) /\ Alone(MSInterface2)
    BY <2>1, <2>2 DEF MSInterface1, MSInterface2
  <2>4. LeadingPart(MSInterface1) /\ LeadingPart(MSInterface2)
    BY Usb20Leading DEF MSInterface1, MSInterface2
  <2> QED
    BY <2>3, <2>4 DEF Grows
<1> QED
  BY <1>1, <1>2, <1>3

\* ... of the USB 2.0 table ...
LEMMA Usb20Acceptable == Acceptable("USB20_COMPOSITE")
<1> DEFINE header == Configuration(264, 6)
           s0 == <<header>>
           s1 == s0 \o Usb20Mbim
           s2 == s1 \o MSInterface0
           s3 == s2 \o MSInterface1
           s4 == s3 \o MSInterface2
           s5 == s4 \o MSInterface3
           a1 == 9 + 96
           a2 == a1 + 31
           a3 == a2 + 49
           a4 == a3 + 49
           a5 == a4 + 30
           N1 == {} \cup {0, 1}
           N2 == N1 \cup {10}
           N3 == N2 \cup {11}
           N4 == N3 \cup {12}
           N5 == N4 \cup {13}
<1>1. s5 = ComputedConfigDescSet("USB20_COMPOSITE")
  BY DEF ComputedConfigDescSet, UsbConfigDescriptorSet
<1>2. N5 = {0, 1, 10} \cup {11, 12, 13} /\ a5 = 264
  OBVIOUS
<1>3. header.type = "configuration" /\ header.wTotalLength = 264 /\ header.bNumInterfaces = 6
  BY DEF Configuration
<1>4. Grown(s0, 9, {}, header)
  BY ConfigurationCounts DEF Grown
<1> HIDE DEF s0, header
<1>5. Grown(s1, a1, N1, header)
  BY <1>4, Usb20Grows, NextPart
<1> HIDE DEF s1, a1, N1
<1>6. Grown(s2, a2, N2, header)
  BY <1>5, Usb20Grows, NextPart
<1> HIDE DEF s2, a2, N2
<1>7. Grown(s3, a3, N3, header)
  BY <1>6, Usb20Grows, NextPart
<1> HIDE DEF s3, a3, N3
<1>8. Grown(s4, a4, N4, header)
  BY <1>7, Usb20Grows, NextPart
<1> HIDE DEF s4, a4, N4
<1>9. Grown(s5, a5, N5, header)
  BY <1>8, Usb20Grows, NextPart
<1> HIDE DEF s5, a5, N5
<1>10. /\ Counts(s5, 264, {0, 1, 10} \cup {11, 12, 13}) /\ Alone(s5)
       /\ s5[1] = header
  BY <1>2, <1>9 DEF Grown
<1>11. /\ IsFiniteSet({0, 1, 10} \cup {11, 12, 13})
       /\ Cardinality({0, 1, 10} \cup {11, 12, 13}) = 6
  <2>1. /\ IsFiniteSet({0, 1, 10}) /\ Cardinality({0, 1, 10}) = 3
        /\ IsFiniteSet({11, 12, 13}) /\ Cardinality({11, 12, 13}) = 3
    <3>1. 0 # 1 /\ 0 # 10 /\ 1 # 10
      OBVIOUS
    <3>2. IsFiniteSet({0, 1, 10}) /\ Cardinality({0, 1, 10}) = 3
      BY <3>1, ThreePositions, Zenon
    <3> DEFINE a == 11
               b == 12
               c == 13
    <3>3. a # b /\ a # c /\ b # c
      OBVIOUS
    <3> HIDE DEF a, b, c
    <3>4. IsFiniteSet({a, b, c}) /\ Cardinality({a, b, c}) = 3
      BY <3>3, ThreePositions
    <3>5. IsFiniteSet({11, 12, 13}) /\ Cardinality({11, 12, 13}) = 3
      BY <3>4 DEF a, b, c
    <3> QED
      BY <3>2, <3>5
  <2>2. {0, 1, 10} \cap {11, 12, 13} = {}
    OBVIOUS
  <2>3. Cardinality({0, 1, 10} \cup {11, 12, 13}) =
            Cardinality({0, 1, 10}) + Cardinality({11, 12, 13})
               - Cardinality({0, 1, 10} \cap {11, 12, 13})
    BY <2>1, FS_Union
  <2>4. Cardinality({0, 1, 10} \cap {11, 12, 13}) = 0
    BY <2>2, NoPositions
  <2>5. IsFiniteSet({0, 1, 10} \cup {11, 12, 13})
    BY <2>1, FS_Union
  <2> QED
    BY <2>1, <2>3, <2>4, <2>5
<1> QED
  BY <1>1, <1>3, <1>10, <1>11 DEF Acceptable, SuperSpeedPort

\* ... and of the mouse's.
LEMMA MouseAcceptable == Acceptable("USB20_MOUSE")
<1> DEFINE s0 == <<Configuration(42, 1)>>
           s1 == s0 \o Mouse
<1>1. /\ Counts(s0, 9, {}) /\ Alone(s0) /\ s0 # <<>>
      /\ s0[1] = Configuration(42, 1)
  BY ConfigurationCounts
<1> HIDE DEF s0
<1>2. /\ Counts(s1, 9 + 33, {} \cup {0}) /\ Alone(s1)
      /\ s1[1] = Configuration(42, 1)
  BY <1>1, MouseCounts, Usb20Leading, TableGrows
<1>3. s1 = ComputedConfigDescSet("USB20_MOUSE")
  BY DEF ComputedConfigDescSet, UsbConfigDescriptorSet, s0
<1> HIDE DEF s1
<1>4. {} \cup {0} = {0} /\ 9 + 33 = 42
  OBVIOUS
<1>5. Counts(s1, 42, {0})
  BY <1>2, <1>4
<1>6. IsFiniteSet({0}) /\ Cardinality({0}) = 1
  BY OnePosition
<1> QED
  BY <1>2, <1>3, <1>5, <1>6 DEF Acceptable, SuperSpeedPort, Configuration
-----------------------------------------------------------------------------
(* Theorems.                                                                *)

\* The build is chosen once.
LEMMA BuildIsFixed == Spec => [](build \in AllBuilds)
<1>1. Init => build \in AllBuilds
  BY BuildsAssumption DEF Init
<1>2. build \in AllBuilds /\ [Next]_vars => (build \in AllBuilds)'
  BY DEF Next, vars, PlugIn, Configure, SelectSetting, CloseInterface
<1> QED
  BY <1>1, <1>2, PTL DEF Spec

\* Whatever settings are selected, each pipe that opens has an endpoint and a queue
\* that the driver created.
THEOREM EveryPipeIsServed == Spec => []PipesServed
<1>1. build \in AllBuilds => PipesServed
  <2> SUFFICES ASSUME build \in AllBuilds, NEW j \in OfType("endpoint")
               PROVE  Address(j) \in CreatedEndpoints(build)
    BY DEF PipesServed, EndpointsOf
  <2>1. IsA(Descriptors, j, "endpoint")
    BY DEF OfType, IsA
  <2> QED
    BY <2>1, EveryTable DEF GoodTable, Part, Offers, Descriptors, Address
<1> QED
  BY <1>1, BuildIsFixed, PTL

\* No two pipes that are open at once have the same address, across functions and
\* whatever alternate settings their drivers selected.
THEOREM NoTwoPipesCollide == Spec => []PipesDistinct
<1>1. build \in AllBuilds => PipesDistinct
  <2> SUFFICES ASSUME build \in AllBuilds, NEW j \in OfType("endpoint"),
                      NEW k \in OfType("endpoint"), Address(j) = Address(k)
               PROVE  j = k
    BY DEF PipesDistinct, EndpointsOf
  <2>1. IsA(Descriptors, j, "endpoint") /\ IsA(Descriptors, k, "endpoint")
    BY DEF OfType, IsA
  <2> QED
    BY <2>1, EveryTable DEF GoodTable, Part, Distinct, Descriptors, Address
<1> QED
  BY <1>1, BuildIsFixed, PTL

\* In a composite device the interfaces an association counts are there, and each
\* belongs to it alone.
THEOREM AssociationsMatch == Spec => []AssociationsMatchInterfaces
<1>1. build \in AllBuilds => AssociationsMatchInterfaces
  <2> SUFFICES ASSUME build \in AllBuilds, build # "USB20_MOUSE",
                      NEW a \in OfType("association")
               PROVE  /\ Counted(Descriptors[a]) \subseteq Numbers
                      /\ \A b \in OfType("association") \ {a} :
                             Descriptors[b].first \notin Counted(Descriptors[a])
    BY DEF AssociationsMatchInterfaces, Counted
  <2>1. PICK A, N, G : /\ Part(Descriptors, A, N, G)
                       /\ G \subseteq N
    BY EveryTable DEF GoodTable, Descriptors
  <2>2. IsA(Descriptors, a, "association")
    BY DEF OfType, IsA
  <2>3. Counted(Descriptors[a]) \subseteq N
    BY <2>1, <2>2 DEF Part, Grouped
  <2>4. N \subseteq Numbers
    BY <2>1 DEF Part, Has, IsA, Numbers, Number, OfType
  <2>5. ASSUME NEW b \in OfType("association") \ {a}
        PROVE  Descriptors[b].first \notin Counted(Descriptors[a])
    <3>1. IsA(Descriptors, b, "association")
      BY DEF OfType, IsA
    <3> QED
      BY <2>1, <2>2, <3>1 DEF Part, Grouped
  <2> QED
    BY <2>3, <2>4, <2>5
<1> QED
  BY <1>1, BuildIsFixed, PTL

\* Where the host's class driver goes for MBIM is where the driver's channel is: the
\* interface, its pipe and the data interface that its union names.
THEOREM MbimIsServed == Spec => []MbimLeadsToChannel
<1>1. build \in AllBuilds => MbimLeadsToChannel
  <2> SUFFICES ASSUME build \in AllBuilds, NEW i \in OfType("interface"),
                      NEW m \in Of(i) \cap OfType("mbim")
               PROVE  /\ Number(i) = CommunicationInterfaceIndex
                      /\ \A j \in EndpointsOf(i) :
                            /\ Address(j) = InterruptEndpointAddress
                            /\ Descriptors[j].wMaxPacketSize >= SizeofNotification
                      /\ \A u \in Of(i) \cap OfType("union") :
                            /\ Descriptors[u].control = Number(i)
                            /\ \E d \in OfType("interface") :
                                  /\ Number(d) = Descriptors[u].data
                                  /\ {Address(j) : j \in EndpointsOf(d)} =
                                        {BulkInEndpointAddress, BulkOutEndpointAddress}
    BY DEF MbimLeadsToChannel
  <2>1. \A j, type : j \in OfType(type) <=> IsA(Descriptors, j, type)
    BY DEF OfType, IsA
  <2>2. \A k : Of(k) = Belonging(Descriptors, k)
    BY DEF Of, Belonging, Separators
  <2>3. \A k : EndpointsOf(k) = PipesOf(Descriptors, k)
    BY <2>1, <2>2 DEF EndpointsOf, PipesOf
  <2>4. ReachesChannel(Descriptors, i)
    BY <2>1, <2>2, EveryTableLeads DEF Leads, Descriptors
  <2> QED
    BY <2>1, <2>2, <2>3, <2>4 DEF ReachesChannel, Number, Address
<1> QED
  BY <1>1, BuildIsFixed, PTL

\* No assertion of the driver and no test of the host fails: wTotalLength,
\* bNumInterfaces and each bNumEndpoints say what the tables hold.
THEOREM ConfigurationIsAccepted == Spec => []ConfigurationAccepted
<1> DEFINE Inv == build \in AllBuilds /\ ConfigurationAccepted
<1>1. Init => Inv
  BY BuildsAssumption DEF Init, ConfigurationAccepted
<1>2. Inv /\ [Next]_vars => Inv'
  <2> SUFFICES ASSUME Inv, [Next]_vars PROVE Inv'
    OBVIOUS
  <2>1. Acceptable(build)
    BY Usb30Acceptable, Usb20Acceptable, MouseAcceptable DEF AllBuilds
  <2>2. PICK N : /\ Counts(Descriptors, Descriptors[1].wTotalLength, N)
                 /\ Descriptors[1].type = "configuration"
                 /\ IsFiniteSet(N) /\ Cardinality(N) = Descriptors[1].bNumInterfaces
                 /\ IF SuperSpeedPort(build) THEN Paired(Descriptors) ELSE Alone(Descriptors)
    BY <2>1 DEF Acceptable, Descriptors
  <2>3. Descriptors[1].wTotalLength = SizeofSet(Descriptors)
    BY <2>2, SizeIsLastEnd DEF Counts, Sized
  <2>4. UsbValidateConstants(build)
    BY <2>2, <2>3 DEF UsbValidateConstants, Descriptors, ComputedConfigDescSet,
       UsbDeviceDescriptor, ManufacturerIndex, ProductIndex
  <2>5. \A j, type : j \in OfType(type) <=> IsA(Descriptors, j, type)
    BY DEF OfType, IsA
  <2>6. Numbers = N
    BY <2>2, <2>5 DEF Counts, Has, Numbered, Numbers, Number
  <2>7. \A i : EndpointsOf(i) = PipesOf(Descriptors, i)
    <3>1. \A i : Of(i) = Belonging(Descriptors, i)
      BY DEF Of, Belonging, Separators
    <3> QED
      BY <2>5, <3>1 DEF EndpointsOf, PipesOf
  <2>8. \A i \in OfType("interface") :
           Descriptors[i].bNumEndpoints = Cardinality(EndpointsOf(i))
    BY <2>2, <2>5, <2>7 DEF Counts, CountsPipes
  <2>9. {j + 1 : j \in IF SuperSpeedPort(build) THEN OfType("endpoint") ELSE {}} =
            OfType("companion")
    <3>1. \A j, type : IsA(Descriptors, j, type) => j \in Int
      <4>1. \E n \in Nat : DOMAIN Descriptors = 1..n
        BY <2>2 DEF Counts, Sized, Ends
      <4> QED
        BY <4>1 DEF IsA
    <3>2. CASE SuperSpeedPort(build)
      <4>1. \A j \in OfType("endpoint") : j + 1 \in OfType("companion")
        BY <2>2, <2>5, <3>1, <3>2 DEF Paired
      <4>2. ASSUME NEW j \in OfType("companion")
            PROVE  j - 1 \in OfType("endpoint") /\ (j - 1) + 1 = j
        <5>1. j - 1 \in Int /\ (j - 1) + 1 = j
          BY <2>5, <3>1
        <5> QED
          BY <2>2, <2>5, <3>2, <5>1 DEF Paired
      <4> QED
        BY <3>2, <4>1, <4>2
    <3>3. CASE ~ SuperSpeedPort(build)
      BY <2>2, <2>5, <3>3 DEF Alone
    <3> QED
      BY <3>2, <3>3
  <2>10. WellFormed
    BY <2>2, <2>3, <2>6, <2>8, <2>9 DEF WellFormed
  <2> QED
    BY <2>4, <2>10 DEF ConfigurationAccepted, Next, vars, PlugIn, Configure,
       SelectSetting, CloseInterface
<1> QED
  BY <1>1, <1>2, PTL DEF Spec
=============================================================================
