--------------------------- MODULE Eeprom_proofs ----------------------------
(***************************************************************************)
(* The serial protocol of the EEPROM is a store of words, for any words of *)
(* either chip and any values.                                             *)
(*                                                                         *)
(* A transfer is a run of the chip, bit by bit. The first part says what   *)
(* each kind of bit does, the second what a whole transfer does, by        *)
(* induction over its bits; the third that the address on the wire is the  *)
(* one the chip decodes; the last that chip and game stay in step between  *)
(* transfers, and the theorems.                                            *)
(***************************************************************************)
EXTENDS Eeprom, FiniteSetTheorems, SequenceTheorems, WellFoundedInduction, TLAPS

(* A set that has 0, and with each number up to n the next one, has them   *)
(* all.                                                                    *)
LEMMA UpTo ==
  ASSUME NEW n \in Nat, NEW S, 0 \in S, \A k \in 0..n - 1 : k \in S => k + 1 \in S
  PROVE  \A k \in 0..n : k \in S
<1> DEFINE Bad  == {k \in 0..n : k \notin S}
           Bads == {0..k : k \in Bad}
           R    == StrictSubsetOrdering(Nat)
<1> SUFFICES ASSUME Bad # {} PROVE FALSE
  OBVIOUS
<1>1. Bads \subseteq FiniteSubsetsOf(Nat) /\ Bads # {}
  <2>1. ASSUME NEW k \in 0..n PROVE 0..k \in FiniteSubsetsOf(Nat)
    <3>1. IsFiniteSet(0..k) /\ 0..k \subseteq Nat
      BY FS_Interval
    <3> QED
      BY <3>1 DEF FiniteSubsetsOf
  <2> QED
    BY <2>1
<1>2. IsWellFoundedOn(R, FiniteSubsetsOf(Nat))
  BY FS_StrictSubsetOrderingWellFounded
<1> HIDE DEF R, Bads
<1>3. PICK X \in Bads : \A Y \in Bads : ~(<<Y, X>> \in R)
  BY <1>1, <1>2, WFMin, Zenon
<1>4. PICK k \in Bad : X = 0..k
  BY DEF Bads
<1>5. k \in 1..n /\ k - 1 \in Bad
  OBVIOUS
<1>6. 0..k - 1 \in Bads /\ 0..k - 1 \subseteq 0..k /\ k \notin 0..k - 1 /\ k \in 0..k
  BY <1>5 DEF Bads
<1>7. <<0..k - 1, 0..k>> \in R
  BY <1>6 DEF R, StrictSubsetOrdering
<1> QED
  BY <1>3, <1>4, <1>6, <1>7

-----------------------------------------------------------------------------
(* The machine, field by field. *)
Fields(s, md, l, a, n, b, mm, u, g) ==
  [chip |-> [eeprom_size |-> s, eeprom_mode |-> md, eeprom_address_length |-> l,
             eeprom_address |-> a, eeprom_counter |-> n, eeprom_buffer |-> b],
   mem |-> mm, update |-> u, got |-> g]

(* The names of the modes, and what a chip of size s expects of an address. A *)
(* name that stays folded is not a string to the provers, which keep strings  *)
(* and numbers apart.                                                         *)
BaseM == "base"
AddressM == "address"
WriteAddressM == "write address"
AddressFooterM == "address footer"
WriteFooterM == "write footer"
WriteM == "write"
HeaderM == "read header"
ReadM == "read"
Scheduled == "set"
Width(s) == IF s = "512B" THEN 6 ELSE 14

(* A machine is its fields. *)
Shape(m) ==
  m = Fields(m.chip.eeprom_size, m.chip.eeprom_mode, m.chip.eeprom_address_length,
        m.chip.eeprom_address, m.chip.eeprom_counter, m.chip.eeprom_buffer, m.mem,
        m.update, m.got)

(* What is given by its fields has them. *)
LEMMA ShapeOfFields ==
  ASSUME NEW s, NEW md, NEW l, NEW a, NEW n, NEW b, NEW mm, NEW u, NEW g
  PROVE  Shape(Fields(s, md, l, a, n, b, mm, u, g))
BY DEF Fields, Shape

(* An address is eight times the number of a word. *)
LEMMA Eighth ==
  ASSUME NEW w \in Nat
  PROVE  (8 * w) \div 8 = w
OBVIOUS

(* The fields that a bit changes, set one after the other, for each kind of bit. *)
Counted(m, x1, x2) ==
  [m EXCEPT !.chip.eeprom_counter = x1, !.chip.eeprom_buffer = x2]
(* A bit is or-ed into the buffer and counted. *)
LEMMA SetCounted ==
  ASSUME NEW m, Shape(m), NEW x1, NEW x2
  PROVE  Counted(m, x1, x2)
         = Fields(m.chip.eeprom_size, m.chip.eeprom_mode, m.chip.eeprom_address_length,
             m.chip.eeprom_address, x1, x2, m.mem, m.update, m.got)
<1> DEFINE s == m.chip.eeprom_size
           md == m.chip.eeprom_mode
           l == m.chip.eeprom_address_length
           a == m.chip.eeprom_address
           n == m.chip.eeprom_counter
           b == m.chip.eeprom_buffer
           mm == m.mem
           u == m.update
           g == m.got
<1>1. m = Fields(s, md, l, a, n, b, mm, u, g)
  BY DEF Shape
<1> HIDE DEF s, md, l, a, n, b, mm, u, g
<1> DEFINE k1 == Fields(s, md, l, a, x1, b, mm, u, g)
           k2 == Fields(s, md, l, a, x1, x2, mm, u, g)
<1>2. [m EXCEPT !.chip.eeprom_counter = x1] = k1
  BY <1>1 DEF Fields
<1>3. [k1 EXCEPT !.chip.eeprom_buffer = x2] = k2
  BY DEF Fields
<1> HIDE DEF k1, k2
<1>4. Counted(m, x1, x2) = k2
  BY <1>2, <1>3, Zenon DEF Counted
<1> QED
  BY <1>4 DEF k2, s, md, l, a, n, b, mm, u, g

Commanded(m, x1, x2, x3, x4) ==
  [m EXCEPT !.chip.eeprom_mode = x1, !.chip.eeprom_counter = x2,
              !.chip.eeprom_buffer = x3, !.chip.eeprom_address_length = x4]
(* A command is complete. *)
LEMMA SetCommand ==
  ASSUME NEW m, Shape(m), NEW x1, NEW x2, NEW x3, NEW x4
  PROVE  Commanded(m, x1, x2, x3, x4)
         = Fields(m.chip.eeprom_size, x1, x4, m.chip.eeprom_address, x2, x3, m.mem,
             m.update, m.got)
<1> DEFINE s == m.chip.eeprom_size
           md == m.chip.eeprom_mode
           l == m.chip.eeprom_address_length
           a == m.chip.eeprom_address
           n == m.chip.eeprom_counter
           b == m.chip.eeprom_buffer
           mm == m.mem
           u == m.update
           g == m.got
<1>1. m = Fields(s, md, l, a, n, b, mm, u, g)
  BY DEF Shape
<1> HIDE DEF s, md, l, a, n, b, mm, u, g
<1> DEFINE k1 == Fields(s, x1, l, a, n, b, mm, u, g)
           k2 == Fields(s, x1, l, a, x2, b, mm, u, g)
           k3 == Fields(s, x1, l, a, x2, x3, mm, u, g)
           k4 == Fields(s, x1, x4, a, x2, x3, mm, u, g)
<1>2. [m EXCEPT !.chip.eeprom_mode = x1] = k1
  BY <1>1 DEF Fields
<1>3. [k1 EXCEPT !.chip.eeprom_counter = x2] = k2
  BY DEF Fields
<1>4. [k2 EXCEPT !.chip.eeprom_buffer = x3] = k3
  BY DEF Fields
<1>5. [k3 EXCEPT !.chip.eeprom_address_length = x4] = k4
  BY DEF Fields
<1> HIDE DEF k1, k2, k3, k4
<1>6. Commanded(m, x1, x2, x3, x4) = k4
  BY <1>2, <1>3, <1>4, <1>5, Zenon DEF Commanded
<1> QED
  BY <1>6 DEF k4, s, md, l, a, n, b, mm, u, g

Addressed(m, x1, x2, x3, x4, x5) ==
  [m EXCEPT !.chip.eeprom_address = x1, !.chip.eeprom_counter = x2, !.chip.eeprom_mode = x3,
              !.chip.eeprom_buffer = x4, !.mem = x5]
(* An address is complete. *)
LEMMA SetAddressed ==
  ASSUME NEW m, Shape(m), NEW x1, NEW x2, NEW x3, NEW x4, NEW x5
  PROVE  Addressed(m, x1, x2, x3, x4, x5)
         = Fields(m.chip.eeprom_size, x3, m.chip.eeprom_address_length, x1, x2, x4, x5,
             m.update, m.got)
<1> DEFINE s == m.chip.eeprom_size
           md == m.chip.eeprom_mode
           l == m.chip.eeprom_address_length
           a == m.chip.eeprom_address
           n == m.chip.eeprom_counter
           b == m.chip.eeprom_buffer
           mm == m.mem
           u == m.update
           g == m.got
<1>1. m = Fields(s, md, l, a, n, b, mm, u, g)
  BY DEF Shape
<1> HIDE DEF s, md, l, a, n, b, mm, u, g
<1> DEFINE k1 == Fields(s, md, l, x1, n, b, mm, u, g)
           k2 == Fields(s, md, l, x1, x2, b, mm, u, g)
           k3 == Fields(s, x3, l, x1, x2, b, mm, u, g)
           k4 == Fields(s, x3, l, x1, x2, x4, mm, u, g)
           k5 == Fields(s, x3, l, x1, x2, x4, x5, u, g)
<1>2. [m EXCEPT !.chip.eeprom_address = x1] = k1
  BY <1>1 DEF Fields
<1>3. [k1 EXCEPT !.chip.eeprom_counter = x2] = k2
  BY DEF Fields
<1>4. [k2 EXCEPT !.chip.eeprom_mode = x3] = k3
  BY DEF Fields
<1>5. [k3 EXCEPT !.chip.eeprom_buffer = x4] = k4
  BY DEF Fields
<1>6. [k4 EXCEPT !.mem = x5] = k5
  BY DEF Fields
<1> HIDE DEF k1, k2, k3, k4, k5
<1>7. Addressed(m, x1, x2, x3, x4, x5) = k5
  BY <1>2, <1>3, <1>4, <1>5, <1>6, Zenon DEF Addressed
<1> QED
  BY <1>7 DEF k5, s, md, l, a, n, b, mm, u, g

Written(m, x1, x2, x3, x4) ==
  [m EXCEPT !.mem = x1, !.update = x2,
              !.chip.eeprom_counter = x3, !.chip.eeprom_mode = x4]
(* A bit is or-ed into the memory. *)
LEMMA SetWritten ==
  ASSUME NEW m, Shape(m), NEW x1, NEW x2, NEW x3, NEW x4
  PROVE  Written(m, x1, x2, x3, x4)
         = Fields(m.chip.eeprom_size, x4, m.chip.eeprom_address_length,
             m.chip.eeprom_address, x3, m.chip.eeprom_buffer, x1, x2, m.got)
<1> DEFINE s == m.chip.eeprom_size
           md == m.chip.eeprom_mode
           l == m.chip.eeprom_address_length
           a == m.chip.eeprom_address
           n == m.chip.eeprom_counter
           b == m.chip.eeprom_buffer
           mm == m.mem
           u == m.update
           g == m.got
<1>1. m = Fields(s, md, l, a, n, b, mm, u, g)
  BY DEF Shape
<1> HIDE DEF s, md, l, a, n, b, mm, u, g
<1> DEFINE k1 == Fields(s, md, l, a, n, b, x1, u, g)
           k2 == Fields(s, md, l, a, n, b, x1, x2, g)
           k3 == Fields(s, md, l, a, x3, b, x1, x2, g)
           k4 == Fields(s, x4, l, a, x3, b, x1, x2, g)
<1>2. [m EXCEPT !.mem = x1] = k1
  BY <1>1 DEF Fields
<1>3. [k1 EXCEPT !.update = x2] = k2
  BY DEF Fields
<1>4. [k2 EXCEPT !.chip.eeprom_counter = x3] = k3
  BY DEF Fields
<1>5. [k3 EXCEPT !.chip.eeprom_mode = x4] = k4
  BY DEF Fields
<1> HIDE DEF k1, k2, k3, k4
<1>6. Written(m, x1, x2, x3, x4) = k4
  BY <1>2, <1>3, <1>4, <1>5, Zenon DEF Written
<1> QED
  BY <1>6 DEF k4, s, md, l, a, n, b, mm, u, g

Ended(m, x1, x2) ==
  [m EXCEPT !.chip.eeprom_counter = x1, !.chip.eeprom_mode = x2]
(* A command ends. *)
LEMMA SetEnded ==
  ASSUME NEW m, Shape(m), NEW x1, NEW x2
  PROVE  Ended(m, x1, x2)
         = Fields(m.chip.eeprom_size, x2, m.chip.eeprom_address_length,
             m.chip.eeprom_address, x1, m.chip.eeprom_buffer, m.mem, m.update,
             m.got)
<1> DEFINE s == m.chip.eeprom_size
           md == m.chip.eeprom_mode
           l == m.chip.eeprom_address_length
           a == m.chip.eeprom_address
           n == m.chip.eeprom_counter
           b == m.chip.eeprom_buffer
           mm == m.mem
           u == m.update
           g == m.got
<1>1. m = Fields(s, md, l, a, n, b, mm, u, g)
  BY DEF Shape
<1> HIDE DEF s, md, l, a, n, b, mm, u, g
<1> DEFINE k1 == Fields(s, md, l, a, x1, b, mm, u, g)
           k2 == Fields(s, x2, l, a, x1, b, mm, u, g)
<1>2. [m EXCEPT !.chip.eeprom_counter = x1] = k1
  BY <1>1 DEF Fields
<1>3. [k1 EXCEPT !.chip.eeprom_mode = x2] = k2
  BY DEF Fields
<1> HIDE DEF k1, k2
<1>4. Ended(m, x1, x2) = k2
  BY <1>2, <1>3, Zenon DEF Ended
<1> QED
  BY <1>4 DEF k2, s, md, l, a, n, b, mm, u, g

ReadOn(m, x1, x2, x3) ==
  [m EXCEPT !.got = x1, !.chip.eeprom_counter = x2, !.chip.eeprom_mode = x3]
(* A bit is sent. *)
LEMMA SetRead ==
  ASSUME NEW m, Shape(m), NEW x1, NEW x2, NEW x3
  PROVE  ReadOn(m, x1, x2, x3)
         = Fields(m.chip.eeprom_size, x3, m.chip.eeprom_address_length,
             m.chip.eeprom_address, x2, m.chip.eeprom_buffer, m.mem, m.update, x1)
<1> DEFINE s == m.chip.eeprom_size
           md == m.chip.eeprom_mode
           l == m.chip.eeprom_address_length
           a == m.chip.eeprom_address
           n == m.chip.eeprom_counter
           b == m.chip.eeprom_buffer
           mm == m.mem
           u == m.update
           g == m.got
<1>1. m = Fields(s, md, l, a, n, b, mm, u, g)
  BY DEF Shape
<1> HIDE DEF s, md, l, a, n, b, mm, u, g
<1> DEFINE k1 == Fields(s, md, l, a, n, b, mm, u, x1)
           k2 == Fields(s, md, l, a, x2, b, mm, u, x1)
           k3 == Fields(s, x3, l, a, x2, b, mm, u, x1)
<1>2. [m EXCEPT !.got = x1] = k1
  BY <1>1 DEF Fields
<1>3. [k1 EXCEPT !.chip.eeprom_counter = x2] = k2
  BY DEF Fields
<1>4. [k2 EXCEPT !.chip.eeprom_mode = x3] = k3
  BY DEF Fields
<1> HIDE DEF k1, k2, k3
<1>5. ReadOn(m, x1, x2, x3) = k3
  BY <1>2, <1>3, <1>4, Zenon DEF ReadOn
<1> QED
  BY <1>5 DEF k3, s, md, l, a, n, b, mm, u, g

Got(m, x1) ==
  [m EXCEPT !.got = x1]
(* A bit is sent that changes nothing. *)
LEMMA SetGot ==
  ASSUME NEW m, Shape(m), NEW x1
  PROVE  Got(m, x1)
         = Fields(m.chip.eeprom_size, m.chip.eeprom_mode, m.chip.eeprom_address_length,
             m.chip.eeprom_address, m.chip.eeprom_counter, m.chip.eeprom_buffer,
             m.mem, m.update, x1)
<1> DEFINE s == m.chip.eeprom_size
           md == m.chip.eeprom_mode
           l == m.chip.eeprom_address_length
           a == m.chip.eeprom_address
           n == m.chip.eeprom_counter
           b == m.chip.eeprom_buffer
           mm == m.mem
           u == m.update
           g == m.got
<1>1. m = Fields(s, md, l, a, n, b, mm, u, g)
  BY DEF Shape
<1> HIDE DEF s, md, l, a, n, b, mm, u, g
<1> DEFINE k1 == Fields(s, md, l, a, n, b, mm, u, x1)
<1>2. [m EXCEPT !.got = x1] = k1
  BY <1>1 DEF Fields
<1> HIDE DEF k1
<1>3. Got(m, x1) = k1
  BY <1>2, Zenon DEF Got
<1> QED
  BY <1>3 DEF k1, s, md, l, a, n, b, mm, u, g

-----------------------------------------------------------------------------
(* What the chip does with a bit, for each mode it may be in. *)
LEMMA WriteDispatch ==
  ASSUME NEW m, NEW b
  PROVE  /\ m.chip.eeprom_mode = "base" => write_eeprom(m, b) = Command(m, b)
         /\ m.chip.eeprom_mode \in {"address", "write address"}
              => write_eeprom(m, b) = Address(m, b)
         /\ m.chip.eeprom_mode = "write" => write_eeprom(m, b) = Data(m, b)
         /\ m.chip.eeprom_mode \in {"address footer", "write footer"}
              => write_eeprom(m, b) = Footer(m)
BY Zenon DEF write_eeprom

(* The first bit of a command is kept in the buffer. *)
LEMMA FirstBit ==
  ASSUME NEW m, Shape(m), m.chip.eeprom_mode = BaseM,
         m.chip.eeprom_counter = 0, m.chip.eeprom_buffer = {}
  PROVE  write_eeprom(m, 1)
           = Fields(m.chip.eeprom_size, BaseM, m.chip.eeprom_address_length,
               m.chip.eeprom_address, 1, {6}, m.mem, m.update, m.got)
<1>1. write_eeprom(m, 1) = Command(m, 1)
  BY WriteDispatch DEF BaseM
<1>2. m.chip.eeprom_counter + 1 = 1 /\ m.chip.eeprom_counter + 1 # 2
  OBVIOUS
<1>3. m.chip.eeprom_buffer \cup Bit(1, 6 + m.chip.eeprom_counter) = {6}
  BY DEF Bit
<1>4. Command(m, 1) = Counted(m, 1, {6})
  BY <1>2, <1>3, Zenon DEF Command, Counted
<1> QED
  BY <1>1, <1>4, SetCounted, Zenon

(* The second one tells reads from writes. *)
LEMMA SecondBit ==
  ASSUME NEW m, Shape(m), m.chip.eeprom_mode = BaseM,
         m.chip.eeprom_counter = 1, m.chip.eeprom_buffer = {6}, NEW b \in {0, 1}
  PROVE  write_eeprom(m, b)
           = Fields(m.chip.eeprom_size, IF b = 1 THEN AddressM ELSE WriteAddressM,
               Width(m.chip.eeprom_size), m.chip.eeprom_address, 0, {},
               m.mem, m.update, m.got)
<1> DEFINE B == {6} \cup Bit(b, 7)
           md == IF 6 \notin B THEN "base" ELSE IF 7 \in B THEN "address" ELSE "write address"
           md2 == IF b = 1 THEN AddressM ELSE WriteAddressM
<1>1. write_eeprom(m, b) = Command(m, b)
  BY WriteDispatch DEF BaseM
<1>2. m.chip.eeprom_counter + 1 = 2 /\ 6 + m.chip.eeprom_counter = 7
  OBVIOUS
<1>3. m.chip.eeprom_buffer \cup Bit(b, 6 + m.chip.eeprom_counter) = B
  BY <1>2
<1>4. 6 \in B /\ (7 \in B <=> b = 1)
  BY DEF Bit
<1> HIDE DEF B
<1>5. Command(m, b) = Commanded(m, md, 0, {}, Width(m.chip.eeprom_size))
  BY <1>2, <1>3, Zenon DEF Command, Commanded, Width
<1>6. md = md2
  BY <1>4, Zenon DEF AddressM, WriteAddressM
<1> HIDE DEF md, md2
<1>7. Commanded(m, md2, 0, {}, Width(m.chip.eeprom_size))
           = Fields(m.chip.eeprom_size, md2, Width(m.chip.eeprom_size),
               m.chip.eeprom_address, 0, {}, m.mem, m.update, m.got)
  BY SetCommand
<1> QED
  BY <1>1, <1>5, <1>6, <1>7, Zenon DEF md2

(* A bit of the address is or-ed into the buffer, but for the last one. *)
LEMMA AddressBit ==
  ASSUME NEW m, Shape(m), m.chip.eeprom_mode \in {AddressM, WriteAddressM},
         m.chip.eeprom_counter + 1 # m.chip.eeprom_address_length, NEW x
  PROVE  write_eeprom(m, x)
           = Fields(m.chip.eeprom_size, m.chip.eeprom_mode, m.chip.eeprom_address_length,
               m.chip.eeprom_address, m.chip.eeprom_counter + 1,
               m.chip.eeprom_buffer \cup Bit(x, m.chip.eeprom_counter),
               m.mem, m.update, m.got)
<1>1. write_eeprom(m, x) = Address(m, x)
  BY WriteDispatch DEF AddressM, WriteAddressM
<1>2. Address(m, x) = Counted(m, m.chip.eeprom_counter + 1,
                              m.chip.eeprom_buffer \cup Bit(x, m.chip.eeprom_counter))
  BY Zenon DEF Address, Counted
<1> QED
  BY <1>1, <1>2, SetCounted, Zenon

(* The last one sends the chip on, with the memory ready for the word. *)
LEMMA LastAddressBit ==
  ASSUME NEW m, Shape(m), m.chip.eeprom_mode \in {AddressM, WriteAddressM},
         m.chip.eeprom_counter + 1 = m.chip.eeprom_address_length, NEW x, NEW w \in Nat,
         Decode(m.chip, m.chip.eeprom_buffer \cup Bit(x, m.chip.eeprom_counter)) = 8 * w
  PROVE  write_eeprom(m, x)
           = Fields(m.chip.eeprom_size,
               IF m.chip.eeprom_mode = AddressM THEN AddressFooterM ELSE WriteM,
               m.chip.eeprom_address_length, 8 * w, 0, {},
               IF m.chip.eeprom_mode = AddressM THEN m.mem ELSE Cleared(m, w),
               m.update, m.got)
<1> DEFINE md == IF m.chip.eeprom_mode = AddressM THEN AddressFooterM ELSE WriteM
           mm == IF m.chip.eeprom_mode = AddressM THEN m.mem ELSE Cleared(m, w)
           a == 8 * w
<1>1. write_eeprom(m, x) = Address(m, x)
  BY WriteDispatch DEF AddressM, WriteAddressM
<1>2. a \div 8 = w
  BY Eighth
<1>3. Decode(m.chip, m.chip.eeprom_buffer \cup Bit(x, m.chip.eeprom_counter)) = a
  OBVIOUS
<1> HIDE DEF a
<1>4. Address(m, x) = Addressed(m, a, 0, md, {}, mm)
  BY <1>2, <1>3, Zenon DEF Address, Addressed, AddressM, AddressFooterM, WriteM
<1> HIDE DEF md, mm
<1>5. Addressed(m, a, 0, md, {}, mm)
           = Fields(m.chip.eeprom_size, md, m.chip.eeprom_address_length, a, 0, {}, mm,
               m.update, m.got)
  BY SetAddressed
<1> QED
  BY <1>1, <1>4, <1>5, Zenon DEF md, mm, a

(* A bit of the word is or-ed into it. *)
LEMMA DataBit ==
  ASSUME NEW m, Shape(m), m.chip.eeprom_mode = WriteM, m.chip.eeprom_counter \in 0..62, NEW x
  PROVE  write_eeprom(m, x)
           = Fields(m.chip.eeprom_size, WriteM, m.chip.eeprom_address_length,
               m.chip.eeprom_address, m.chip.eeprom_counter + 1, m.chip.eeprom_buffer,
               Store(m, Word(m.chip),
                     Content(m, Word(m.chip)) \cup Bit(x, m.chip.eeprom_counter)),
               m.update, m.got)
<1> DEFINE mm == Store(m, Word(m.chip),
                       Content(m, Word(m.chip)) \cup Bit(x, m.chip.eeprom_counter))
<1>1. write_eeprom(m, x) = Data(m, x)
  BY WriteDispatch DEF WriteM
<1>2. m.chip.eeprom_counter + 1 # 64
  OBVIOUS
<1>3. Data(m, x) = Written(m, mm, m.update, m.chip.eeprom_counter + 1, WriteM)
  BY <1>2, Zenon DEF Data, Written, WriteM
<1> HIDE DEF mm
<1> QED
  BY <1>1, <1>3, SetWritten, Zenon DEF mm

(* The last one also schedules the write-back. *)
LEMMA LastDataBit ==
  ASSUME NEW m, Shape(m), m.chip.eeprom_mode = WriteM, m.chip.eeprom_counter = 63, NEW x
  PROVE  write_eeprom(m, x)
           = Fields(m.chip.eeprom_size, WriteFooterM, m.chip.eeprom_address_length,
               m.chip.eeprom_address, 0, m.chip.eeprom_buffer,
               Store(m, Word(m.chip), Content(m, Word(m.chip)) \cup Bit(x, 63)),
               Scheduled, m.got)
<1> DEFINE mm == Store(m, Word(m.chip), Content(m, Word(m.chip)) \cup Bit(x, 63))
<1>1. write_eeprom(m, x) = Data(m, x)
  BY WriteDispatch DEF WriteM
<1>2. m.chip.eeprom_counter + 1 = 64
  OBVIOUS
<1>3. Data(m, x) = Written(m, mm, Scheduled, 0, WriteFooterM)
  BY <1>2, Zenon DEF Data, Written, WriteFooterM, Scheduled
<1> HIDE DEF mm
<1> QED
  BY <1>1, <1>3, SetWritten, ZenonT(60) DEF mm

(* The bit after a command. *)
LEMMA FooterBit ==
  ASSUME NEW m, Shape(m), m.chip.eeprom_mode \in {AddressFooterM, WriteFooterM}, NEW x
  PROVE  write_eeprom(m, x)
           = Fields(m.chip.eeprom_size,
               IF m.chip.eeprom_mode = AddressFooterM THEN HeaderM ELSE BaseM,
               m.chip.eeprom_address_length, m.chip.eeprom_address, 0,
               m.chip.eeprom_buffer, m.mem, m.update, m.got)
<1> DEFINE md == IF m.chip.eeprom_mode = AddressFooterM THEN HeaderM ELSE BaseM
<1>1. write_eeprom(m, x) = Footer(m)
  BY WriteDispatch DEF AddressFooterM, WriteFooterM
<1>2. Footer(m) = Ended(m, 0, md)
  BY Zenon DEF Footer, Ended, AddressFooterM, HeaderM, BaseM
<1> HIDE DEF md
<1> QED
  BY <1>1, <1>2, SetEnded, Zenon DEF md

(* One of the four bits before a word that is read. *)
LEMMA HeaderBit ==
  ASSUME NEW m, Shape(m), m.chip.eeprom_mode = HeaderM, m.chip.eeprom_counter \in 0..3
  PROVE  read_eeprom(m)
           = Fields(m.chip.eeprom_size,
               IF m.chip.eeprom_counter = 3 THEN ReadM ELSE HeaderM,
               m.chip.eeprom_address_length, m.chip.eeprom_address,
               IF m.chip.eeprom_counter = 3 THEN 0 ELSE m.chip.eeprom_counter + 1,
               m.chip.eeprom_buffer, m.mem, m.update, Append(m.got, 0))
<1> DEFINE md == IF m.chip.eeprom_counter = 3 THEN ReadM ELSE HeaderM
           n == IF m.chip.eeprom_counter = 3 THEN 0 ELSE m.chip.eeprom_counter + 1
<1>1. (m.chip.eeprom_counter + 1 = 4) <=> (m.chip.eeprom_counter = 3)
  OBVIOUS
<1>2. read_eeprom(m) = ReadOn(m, Append(m.got, 0), n, md)
  BY <1>1, Zenon DEF read_eeprom, ReadOn, HeaderM, ReadM
<1> HIDE DEF md, n
<1> QED
  BY <1>2, SetRead, Zenon DEF md, n

(* One of the 64 bits of a word that is read. *)
LEMMA ReadBit ==
  ASSUME NEW m, Shape(m), m.chip.eeprom_mode = ReadM, m.chip.eeprom_counter \in 0..63
  PROVE  read_eeprom(m)
           = Fields(m.chip.eeprom_size,
               IF m.chip.eeprom_counter = 63 THEN BaseM ELSE ReadM,
               m.chip.eeprom_address_length, m.chip.eeprom_address,
               IF m.chip.eeprom_counter = 63 THEN 0 ELSE m.chip.eeprom_counter + 1,
               m.chip.eeprom_buffer, m.mem, m.update,
               Append(m.got, IF m.chip.eeprom_counter \in Content(m, Word(m.chip))
                             THEN 1 ELSE 0))
<1> DEFINE md == IF m.chip.eeprom_counter = 63 THEN BaseM ELSE ReadM
           n == IF m.chip.eeprom_counter = 63 THEN 0 ELSE m.chip.eeprom_counter + 1
           g == Append(m.got, IF m.chip.eeprom_counter \in Content(m, Word(m.chip))
                              THEN 1 ELSE 0)
<1>1. (m.chip.eeprom_counter + 1 = 64) <=> (m.chip.eeprom_counter = 63)
  OBVIOUS
<1>2. read_eeprom(m) = ReadData(m)
  BY Zenon DEF read_eeprom, ReadM
<1>3. ReadData(m) = ReadOn(m, g, n, md)
  BY <1>1, Zenon DEF ReadData, ReadOn, BaseM, ReadM
<1> HIDE DEF md, n, g
<1> QED
  BY <1>2, <1>3, SetRead, ZenonT(60) DEF md, n, g

(* A chip that waits for a command says so. *)
LEMMA IdleBit ==
  ASSUME NEW m, Shape(m), m.chip.eeprom_mode = BaseM
  PROVE  read_eeprom(m)
           = Fields(m.chip.eeprom_size, BaseM, m.chip.eeprom_address_length,
               m.chip.eeprom_address, m.chip.eeprom_counter, m.chip.eeprom_buffer,
               m.mem, m.update, Append(m.got, 1))
<1>1. read_eeprom(m) = Got(m, Append(m.got, 1))
  BY Zenon DEF read_eeprom, Got, BaseM
<1> QED
  BY <1>1, SetGot, Zenon

-----------------------------------------------------------------------------
(* A command, in four parts: two bits, the address, perhaps a word, and a  *)
(* last bit. After n bits of the address, but for the last one, the chip   *)
(* has those n in its buffer.                                              *)
LEMMA AddressPhase ==
  ASSUME NEW s, NEW md, md \in {AddressM, WriteAddressM}, NEW l \in Nat \ {0}, NEW a, NEW mm,
         NEW u, NEW g, NEW f, NEW bits, f[2] = Fields(s, md, l, a, 0, {}, mm, u, g),
         \A n \in 0..l - 2 : f[n + 3] = write_eeprom(f[n + 2], bits[n + 3])
  PROVE  f[l + 1] = Fields(s, md, l, a, l - 1, {p \in 0..l - 2 : bits[p + 3] = 1}, mm, u, g)
<1> DEFINE Pre(n) == {p \in 0..n - 1 : bits[p + 3] = 1}
           At(n) == Fields(s, md, l, a, n, Pre(n), mm, u, g)
           S == {n \in Nat : f[n + 2] = At(n)}
<1>1. 0 \in S
  <2>1. Pre(0) = {}
    OBVIOUS
  <2> HIDE DEF Pre
  <2>2. At(0) = Fields(s, md, l, a, 0, {}, mm, u, g)
    BY <2>1
  <2> HIDE DEF At
  <2> QED
    BY <2>2
<1>2. ASSUME NEW n \in 0..l - 1 - 1, n \in S PROVE n + 1 \in S
  <2>1. f[n + 2] = At(n) /\ n \in Nat /\ n \in 0..l - 2
    BY <1>2
  <2> HIDE DEF S
  <2>2. f[n + 3] = write_eeprom(At(n), bits[n + 3])
    <3> HIDE DEF At
    <3> QED
      BY <2>1
  <2>3. Pre(n + 1) = Pre(n) \cup Bit(bits[n + 3], n)
    <3> HIDE DEF At
    <3>1. n \in Nat
      BY <2>1
    <3>2. \A p : p \in 0..n + 1 - 1 <=> p \in 0..n - 1 \/ p = n
      BY <3>1
    <3> QED
      BY <3>2 DEF Bit
  <2> HIDE DEF Pre
  <2>4. n \in Nat /\ l \in Nat /\ n + 1 # l /\ md \in {AddressM, WriteAddressM}
    BY <2>1
  <2>5. write_eeprom(At(n), bits[n + 3])
          = Fields(s, md, l, a, n + 1, Pre(n) \cup Bit(bits[n + 3], n), mm, u, g)
    <3> DEFINE m == At(n)
               x == bits[n + 3]
    <3>1. /\ m.chip.eeprom_size = s /\ m.chip.eeprom_mode = md
          /\ m.chip.eeprom_address_length = l /\ m.chip.eeprom_address = a
          /\ m.chip.eeprom_counter = n /\ m.chip.eeprom_buffer = Pre(n)
          /\ m.mem = mm /\ m.update = u /\ m.got = g
      BY DEF Fields
    <3>2. Shape(m)
      BY DEF Fields, Shape
    <3> HIDE DEF m, x
    <3>3. /\ m.chip.eeprom_mode \in {AddressM, WriteAddressM}
          /\ m.chip.eeprom_counter + 1 # m.chip.eeprom_address_length
      BY <2>4, <3>1
    <3>4. write_eeprom(m, x)
           = Fields(m.chip.eeprom_size, m.chip.eeprom_mode, m.chip.eeprom_address_length,
               m.chip.eeprom_address, m.chip.eeprom_counter + 1,
               m.chip.eeprom_buffer \cup Bit(x, m.chip.eeprom_counter),
               m.mem, m.update, m.got)
      BY <3>2, <3>3, AddressBit, Zenon
    <3>5. write_eeprom(m, x) = Fields(s, md, l, a, n + 1, Pre(n) \cup Bit(x, n), mm, u, g)
      BY <3>1, <3>4, Zenon
    <3> QED
      BY <3>5 DEF m, x
  <2>6. f[n + 3] = At(n + 1)
    BY <2>2, <2>3, <2>5
  <2>7. n + 1 \in Nat /\ n + 1 + 2 = n + 3
    BY <2>1
  <2> HIDE DEF At
  <2> QED
    BY <2>6, <2>7 DEF S
<1> HIDE DEF S
<1>3. \A n \in 0..l - 1 : n \in S
  BY <1>1, <1>2, UpTo
<1>4. l - 1 \in S
  BY <1>3
<1>5. f[l - 1 + 2] = At(l - 1)
  BY <1>4 DEF S
<1>6. l - 1 + 2 = l + 1 /\ 0..l - 1 - 1 = 0..l - 2
  OBVIOUS
<1> QED
  BY <1>5, <1>6

(* The memory with the word w cleared. *)
Emptied(mm, w) == [x \in DOMAIN mm \cup {w} |-> IF x = w THEN {} ELSE mm[x]]

(* A run f of the chip in which the address of word w comes: l bits. *)
AddressComes(f, bits, w, l) ==
  /\ w \in Nat /\ l \in Nat \ {0} /\ Shape(f[2])
  /\ f[2].chip.eeprom_mode \in {AddressM, WriteAddressM}
  /\ f[2].chip.eeprom_counter = 0 /\ f[2].chip.eeprom_buffer = {}
  /\ f[2].chip.eeprom_address_length = l
  /\ \A n \in 0..l - 1 : f[n + 3] = write_eeprom(f[n + 2], bits[n + 3])
  /\ Decode(f[2].chip, {p \in 0..l - 1 : bits[p + 3] = 1}) = 8 * w

(* After the last one the chip has the address, and the memory is ready. *)
LEMMA AddressSent ==
  ASSUME NEW f, NEW bits, NEW w, NEW l, AddressComes(f, bits, w, l)
  PROVE  f[l + 2]
           = Fields(f[2].chip.eeprom_size,
               IF f[2].chip.eeprom_mode = AddressM THEN AddressFooterM ELSE WriteM,
               l, 8 * w, 0, {},
               IF f[2].chip.eeprom_mode = AddressM THEN f[2].mem
               ELSE Emptied(f[2].mem, w),
               f[2].update, f[2].got)
<1> USE DEF AddressComes
<1> DEFINE s == f[2].chip.eeprom_size
           md == f[2].chip.eeprom_mode
           a == f[2].chip.eeprom_address
           mm == f[2].mem
           u == f[2].update
           g == f[2].got
<1>a. f[2] = Fields(s, md, l, a, 0, {}, mm, u, g)
  BY DEF Shape
<1>b. md \in {AddressM, WriteAddressM}
  OBVIOUS
<1>c. \A c : c.eeprom_size = s => Decode(c, {p \in 0..l - 1 : bits[p + 3] = 1}) = 8 * w
  BY Zenon DEF Decode
<1> HIDE DEF s, md, a, mm, u, g
<1> DEFINE buffer == {p \in 0..l - 2 : bits[p + 3] = 1}
           m == Fields(s, md, l, a, l - 1, buffer, mm, u, g)
           x == bits[l + 2]
           cleared == Emptied(mm, w)
<1>1. f[l + 1] = m
  <2>1. \A n \in 0..l - 2 : n \in 0..l - 1
    OBVIOUS
  <2>2. \A n \in 0..l - 2 : f[n + 3] = write_eeprom(f[n + 2], bits[n + 3])
    BY <2>1
  <2> QED
    BY <1>a, <1>b, <2>2, AddressPhase
<1>2. f[l + 2] = write_eeprom(f[l + 1], x)
  <2>1. l - 1 \in 0..l - 1 /\ l - 1 + 3 = l + 2 /\ l - 1 + 2 = l + 1
    OBVIOUS
  <2> QED
    BY <2>1
<1>3. buffer \cup Bit(x, l - 1) = {p \in 0..l - 1 : bits[p + 3] = 1}
  <2>1. l - 1 + 3 = l + 2
    OBVIOUS
  <2>2. \A p : p \in 0..l - 1 <=> p \in 0..l - 2 \/ p = l - 1
    OBVIOUS
  <2> QED
    BY <2>1, <2>2 DEF Bit
<1>4. /\ m.chip.eeprom_size = s /\ m.chip.eeprom_mode = md
      /\ m.chip.eeprom_address_length = l /\ m.chip.eeprom_address = a
      /\ m.chip.eeprom_counter = l - 1 /\ m.chip.eeprom_buffer = buffer
      /\ m.mem = mm /\ m.update = u /\ m.got = g
  BY DEF Fields
<1>5. Shape(m)
  BY DEF Fields, Shape
<1> HIDE DEF m, x, buffer
<1>6. Decode(m.chip, m.chip.eeprom_buffer \cup Bit(x, m.chip.eeprom_counter)) = 8 * w
  BY <1>c, <1>3, <1>4
<1>7. m.chip.eeprom_counter + 1 = m.chip.eeprom_address_length
  BY <1>4
<1>8. Cleared(m, w) = cleared
  BY <1>4, Zenon DEF Cleared, Store, Emptied
<1>9. m.chip.eeprom_mode \in {AddressM, WriteAddressM}
  BY <1>b, <1>4
<1> HIDE DEF cleared
<1>10. write_eeprom(m, x)
           = Fields(m.chip.eeprom_size,
               IF m.chip.eeprom_mode = AddressM THEN AddressFooterM ELSE WriteM,
               m.chip.eeprom_address_length, 8 * w, 0, {},
               IF m.chip.eeprom_mode = AddressM THEN m.mem ELSE Cleared(m, w),
               m.update, m.got)
  BY ONLY <1>5, <1>6, <1>7, <1>9, LastAddressBit, w \in Nat
<1> QED
  BY <1>1, <1>2, <1>4, <1>8, <1>10, Zenon DEF cleared, s, md, mm, u, g

(* A run f in which the 64 bits of word w come, after k bits. *)
WordComes(f, bits, k, w, W) ==
  /\ k \in Nat /\ w \in Nat /\ w \in W /\ Shape(f[k])
  /\ f[k].chip.eeprom_mode = WriteM /\ f[k].chip.eeprom_counter = 0
  /\ f[k].chip.eeprom_buffer = {} /\ f[k].chip.eeprom_address = 8 * w
  /\ f[k].mem \in [W -> SUBSET Positions] /\ f[k].mem[w] = {}
  /\ \A n \in 0..63 : f[k + n + 1] = write_eeprom(f[k + n], bits[k + n + 1])

(* After n of its bits the memory holds those n; in the end, the word. *)
LEMMA DataPhase ==
  ASSUME NEW f, NEW bits, NEW k, NEW w, NEW W, WordComes(f, bits, k, w, W)
  PROVE  f[k + 64]
           = Fields(f[k].chip.eeprom_size, WriteFooterM, f[k].chip.eeprom_address_length,
               8 * w, 0, {},
               [x \in W |-> IF x = w THEN {p \in 0..63 : bits[k + p + 1] = 1}
                            ELSE f[k].mem[x]],
               Scheduled, f[k].got)
<1> USE DEF WordComes
<1> DEFINE s == f[k].chip.eeprom_size
           l == f[k].chip.eeprom_address_length
           mm == f[k].mem
           u == f[k].update
           g == f[k].got
<1>a. f[k] = Fields(s, WriteM, l, 8 * w, 0, {}, mm, u, g)
  BY DEF Shape
<1>b. mm \in [W -> SUBSET Positions] /\ mm[w] = {} /\ DOMAIN mm = W
  OBVIOUS
<1> HIDE DEF s, l, mm, u, g
<1> DEFINE Pre(n) == {p \in 0..n - 1 : bits[k + p + 1] = 1}
           Mem(n) == [x \in W |-> IF x = w THEN Pre(n) ELSE mm[x]]
           At(n) == Fields(s, WriteM, l, 8 * w, n, {}, Mem(n), u, g)
           S == {n \in Nat : f[k + n] = At(n)}
<1>0. \A n \in 0..63 : Pre(n + 1) = Pre(n) \cup Bit(bits[k + n + 1], n)
  <2>1. ASSUME NEW n \in 0..63 PROVE \A p : p \in 0..n + 1 - 1 <=> p \in 0..n - 1 \/ p = n
    OBVIOUS
  <2> QED
    BY <2>1 DEF Bit
<1>1. ASSUME NEW n \in 0..63
      PROVE  /\ At(n).chip.eeprom_size = s /\ At(n).chip.eeprom_mode = WriteM
             /\ At(n).chip.eeprom_address_length = l /\ At(n).chip.eeprom_address = 8 * w
             /\ At(n).chip.eeprom_counter = n /\ At(n).chip.eeprom_buffer = {}
             /\ At(n).mem = Mem(n) /\ At(n).update = u /\ At(n).got = g
             /\ Shape(At(n))
  <2> HIDE DEF Mem
  <2> QED
    BY DEF Fields, Shape
<1>2. ASSUME NEW n \in 0..63
      PROVE  Store(At(n), Word(At(n).chip),
                   Content(At(n), Word(At(n).chip)) \cup Bit(bits[k + n + 1], n)) = Mem(n + 1)
  <2> HIDE DEF At
  <2>1. Word(At(n).chip) = w
    <3>1. (8 * w) \div 8 = w
      BY Eighth
    <3> QED
      BY <1>1, <3>1 DEF Word
  <2>2. At(n).mem = Mem(n)
    BY <1>1
  <2> HIDE DEF Pre
  <2>3. DOMAIN Mem(n) \cup {w} = W /\ w \in DOMAIN Mem(n) /\ Mem(n)[w] = Pre(n)
        /\ \A x \in W : x # w => Mem(n)[x] = mm[x]
    OBVIOUS
  <2>4. Content(At(n), w) = Pre(n)
    <3> HIDE DEF Mem
    <3> QED
      BY <2>2, <2>3 DEF Content
  <2>5. Store(At(n), w, Pre(n + 1)) = Mem(n + 1)
    <3>1. Store(At(n), w, Pre(n + 1))
            = [x \in W |-> IF x = w THEN Pre(n + 1) ELSE Mem(n)[x]]
      <4> HIDE DEF Mem
      <4> QED
        BY <2>2, <2>3 DEF Store
    <3>2. \A x \in W : (IF x = w THEN Pre(n + 1) ELSE Mem(n)[x])
                                = (IF x = w THEN Pre(n + 1) ELSE mm[x])
      BY <2>3
    <3> QED
      BY <3>1, <3>2
  <2>6. Pre(n + 1) = Pre(n) \cup Bit(bits[k + n + 1], n)
    BY <1>0
  <2> QED
    BY <2>1, <2>4, <2>5, <2>6
<1>3. 0 \in S
  <2>1. Pre(0) = {}
    OBVIOUS
  <2> HIDE DEF Pre
  <2>2. Mem(0) = mm
    BY <1>b, <2>1
  <2> HIDE DEF Mem
  <2>3. At(0) = Fields(s, WriteM, l, 8 * w, 0, {}, mm, u, g)
    BY <2>2
  <2> HIDE DEF At
  <2> QED
    BY <1>a, <2>3
<1> HIDE DEF Mem
<1>4. ASSUME NEW n \in 0..63 - 1, n \in S PROVE n + 1 \in S
  <2> HIDE DEF At
  <2>1. f[k + n] = At(n) /\ n \in 0..63 /\ n \in 0..62 /\ n \in Nat
    BY <1>4
  <2> HIDE DEF S
  <2>2. f[k + n + 1] = write_eeprom(At(n), bits[k + n + 1])
    BY <2>1
  <2> DEFINE m == At(n)
             x == bits[k + n + 1]
  <2>3. /\ m.chip.eeprom_size = s /\ m.chip.eeprom_mode = WriteM
        /\ m.chip.eeprom_address_length = l /\ m.chip.eeprom_address = 8 * w
        /\ m.chip.eeprom_counter = n /\ m.chip.eeprom_buffer = {}
        /\ m.mem = Mem(n) /\ m.update = u /\ m.got = g
    BY <1>1, <2>1
  <2>4. Shape(m)
    BY <1>1, <2>1
  <2>5. Store(m, Word(m.chip), Content(m, Word(m.chip)) \cup Bit(x, n)) = Mem(n + 1)
    BY <1>2, <2>1
  <2> HIDE DEF m, x
  <2>6. m.chip.eeprom_counter \in 0..62
    BY <2>1, <2>3
  <2>7. write_eeprom(m, x)
           = Fields(m.chip.eeprom_size, WriteM, m.chip.eeprom_address_length,
               m.chip.eeprom_address, m.chip.eeprom_counter + 1, m.chip.eeprom_buffer,
               Store(m, Word(m.chip),
                     Content(m, Word(m.chip)) \cup Bit(x, m.chip.eeprom_counter)),
               m.update, m.got)
    BY <2>3, <2>4, <2>6, DataBit, Zenon
  <2>8. write_eeprom(m, x) = At(n + 1)
    BY <2>3, <2>5, <2>7, Zenon DEF At
  <2>9. k + (n + 1) = k + n + 1 /\ n + 1 \in Nat
    BY <2>1
  <2> QED
    BY <2>2, <2>8, <2>9 DEF m, x, S
<1> HIDE DEF At
<1>5. f[k + 63] = At(63)
  <2>1. \A n \in 0..63 : n \in S
    <3> HIDE DEF S
    <3> QED
      BY <1>3, <1>4, UpTo
  <2>2. 63 \in S
    <3> HIDE DEF S
    <3> QED
      BY <2>1
  <2> QED
    BY <2>2
<1>6. f[k + 64] = write_eeprom(At(63), bits[k + 63 + 1])
  <2>1. 63 \in 0..63 /\ k + 63 + 1 = k + 64
    OBVIOUS
  <2> QED
    BY <1>5, <2>1
<1> DEFINE m == At(63)
           x == bits[k + 63 + 1]
<1>7. /\ m.chip.eeprom_size = s /\ m.chip.eeprom_mode = WriteM
      /\ m.chip.eeprom_address_length = l /\ m.chip.eeprom_address = 8 * w
      /\ m.chip.eeprom_counter = 63 /\ m.chip.eeprom_buffer = {}
      /\ m.mem = Mem(63) /\ m.update = u /\ m.got = g
  BY ONLY <1>1
<1>8. Shape(m)
  BY ONLY <1>1
<1>9. Store(m, Word(m.chip), Content(m, Word(m.chip)) \cup Bit(x, 63)) = Mem(64)
  <2>1. 63 \in 0..63 /\ 63 + 1 = 64
    OBVIOUS
  <2> QED
    BY <1>2, <2>1
<1> HIDE DEF m, x
<1>10. write_eeprom(m, x)
           = Fields(m.chip.eeprom_size, WriteFooterM, m.chip.eeprom_address_length,
               m.chip.eeprom_address, 0, m.chip.eeprom_buffer,
               Store(m, Word(m.chip), Content(m, Word(m.chip)) \cup Bit(x, 63)),
               Scheduled, m.got)
  BY <1>7, <1>8, LastDataBit, Zenon
<1>11. write_eeprom(m, x) = Fields(s, WriteFooterM, l, 8 * w, 0, {}, Mem(64), Scheduled, g)
  BY <1>7, <1>9, <1>10, Zenon
<1>12. f[k + 64] = Fields(s, WriteFooterM, l, 8 * w, 0, {}, Mem(64), Scheduled, g)
  BY <1>6, <1>11 DEF m, x
<1>13. Mem(64) = [y \in W |-> IF y = w THEN {p \in 0..63 : bits[k + p + 1] = 1}
                              ELSE mm[y]]
  <2>1. 64 - 1 = 63
    OBVIOUS
  <2> QED
    BY <2>1 DEF Mem
<1> QED
  BY <1>12, <1>13, Zenon DEF s, l, mm, g

-----------------------------------------------------------------------------
(* Each transfer is a run of the chip: the machine after every bit of it. The *)
(* function that Received and Fetched choose exists.                          *)
LEMMA ReceivedRun ==
  ASSUME NEW m, NEW bits, Len(bits) \in Nat
  PROVE  \E f : /\ f[0] = m
                /\ \A i \in 1..Len(bits) : f[i] = write_eeprom(f[i - 1], bits[i])
                /\ Received(m, bits) = f[Len(bits)]
<1> DEFINE N == Len(bits)
           Step(g, i) == IF i = 0 THEN m ELSE write_eeprom(g[i - 1], bits[i])
           Run(g, n) == g = [i \in 0..n |-> Step(g, i)]
           S == {n \in 0..N : \E g : Run(g, n)}
<1>0. N \in Nat
  OBVIOUS
<1> HIDE DEF N
<1>1. 0 \in S
  <2> DEFINE g == [i \in 0..0 |-> m]
  <2>1. \A i \in 0..0 : Step(g, i) = m
    OBVIOUS
  <2> HIDE DEF Step
  <2>2. g = [i \in 0..0 |-> Step(g, i)]
    BY <2>1
  <2> HIDE DEF g
  <2> QED
    BY <1>0, <2>2
<1>2. ASSUME NEW n \in 0..N - 1, n \in S PROVE n + 1 \in S
  <2>1. PICK g : Run(g, n)
    BY <1>2
  <2>2. n \in Nat /\ n + 1 \in 0..N
    BY <1>0
  <2> DEFINE h == [i \in 0..n + 1 |-> IF i = n + 1 THEN write_eeprom(g[n], bits[n + 1])
                                      ELSE g[i]]
  <2>3. ASSUME NEW i \in 0..n PROVE g[i] = Step(h, i)
    <3>1. g[i] = Step(g, i)
      <4> HIDE DEF Step
      <4> QED
        BY <2>1
    <3>2. i # 0 => h[i - 1] = g[i - 1]
      BY <2>2
    <3> HIDE DEF h
    <3> QED
      BY <3>1, <3>2
  <2>4. Step(h, n + 1) = write_eeprom(g[n], bits[n + 1])
    <3>1. n + 1 # 0 /\ n + 1 - 1 = n
      BY <2>2
    <3>2. h[n] = g[n]
      BY <2>2
    <3> HIDE DEF h
    <3> QED
      BY <3>1, <3>2
  <2>5. ASSUME NEW i \in 0..n + 1 PROVE h[i] = Step(h, i)
    <3>1. CASE i = n + 1
      <4>1. h[n + 1] = write_eeprom(g[n], bits[n + 1])
        BY <2>2
      <4> HIDE DEF h, Step
      <4> QED
        BY <3>1, <4>1, <2>4
    <3>2. CASE i # n + 1
      <4>1. i \in 0..n /\ h[i] = g[i]
        BY <2>2, <3>2
      <4> HIDE DEF h, Step
      <4> QED
        BY <4>1, <2>3
    <3> QED
      BY <3>1, <3>2
  <2>6. h = [i \in 0..n + 1 |-> h[i]]
    OBVIOUS
  <2> HIDE DEF h, Step
  <2>7. Run(h, n + 1)
    BY <2>5, <2>6
  <2> HIDE DEF Run
  <2> QED
    BY <2>2, <2>7
<1> HIDE DEF S
<1>3. N \in S
  <2>1. \A n \in 0..N : n \in S
    BY <1>0, <1>1, <1>2, UpTo
  <2> QED
    BY <1>0, <2>1
<1>4. \E g : Run(g, N)
  <2> HIDE DEF Run
  <2> QED
    BY <1>3 DEF S
<1> DEFINE f == CHOOSE g : Run(g, N)
<1>5. Run(f, N)
  <2> HIDE DEF Run
  <2> QED
    BY <1>4
<1>6. Received(m, bits) = f[N]
  BY Zenon DEF Received, N
<1> HIDE DEF f
<1>7. \A i \in 0..N : f[i] = Step(f, i)
  <2> HIDE DEF Step
  <2> QED
    BY <1>5
<1>8. f[0] = m
  BY <1>0, <1>7
<1>9. \A i \in 1..N : f[i] = write_eeprom(f[i - 1], bits[i])
  BY <1>0, <1>7
<1> QED
  BY <1>6, <1>8, <1>9 DEF N

(* The same of the transfers that read. *)
LEMMA FetchedRun ==
  ASSUME NEW N \in Nat
  PROVE  \E f : /\ f[0] = Machine
                /\ \A i \in 1..N : f[i] = read_eeprom(f[i - 1])
                /\ Fetched(N) = f[N]
<1> DEFINE Step(g, i) == IF i = 0 THEN Machine ELSE read_eeprom(g[i - 1])
           Run(g, n) == g = [i \in 0..n |-> Step(g, i)]
           S == {n \in 0..N : \E g : Run(g, n)}
<1>1. 0 \in S
  <2> DEFINE g == [i \in 0..0 |-> Machine]
  <2>1. \A i \in 0..0 : Step(g, i) = Machine
    OBVIOUS
  <2> HIDE DEF Step
  <2>2. g = [i \in 0..0 |-> Step(g, i)]
    BY <2>1
  <2> HIDE DEF g
  <2> QED
    BY <2>2
<1>2. ASSUME NEW n \in 0..N - 1, n \in S PROVE n + 1 \in S
  <2>1. PICK g : Run(g, n)
    BY <1>2
  <2>2. n \in Nat /\ n + 1 \in 0..N
    OBVIOUS
  <2> DEFINE h == [i \in 0..n + 1 |-> IF i = n + 1 THEN read_eeprom(g[n]) ELSE g[i]]
  <2>3. ASSUME NEW i \in 0..n PROVE g[i] = Step(h, i)
    <3>1. g[i] = Step(g, i)
      <4> HIDE DEF Step
      <4> QED
        BY <2>1
    <3>2. i # 0 => h[i - 1] = g[i - 1]
      BY <2>2
    <3> HIDE DEF h
    <3> QED
      BY <3>1, <3>2
  <2>4. Step(h, n + 1) = read_eeprom(g[n])
    <3>1. n + 1 # 0 /\ n + 1 - 1 = n
      BY <2>2
    <3>2. h[n] = g[n]
      BY <2>2
    <3> HIDE DEF h
    <3> QED
      BY <3>1, <3>2
  <2>5. ASSUME NEW i \in 0..n + 1 PROVE h[i] = Step(h, i)
    <3>1. CASE i = n + 1
      <4>1. h[n + 1] = read_eeprom(g[n])
        BY <2>2
      <4> HIDE DEF h, Step
      <4> QED
        BY <3>1, <4>1, <2>4
    <3>2. CASE i # n + 1
      <4>1. i \in 0..n /\ h[i] = g[i]
        BY <2>2, <3>2
      <4> HIDE DEF h, Step
      <4> QED
        BY <4>1, <2>3
    <3> QED
      BY <3>1, <3>2
  <2>6. h = [i \in 0..n + 1 |-> h[i]]
    OBVIOUS
  <2> HIDE DEF h, Step
  <2>7. Run(h, n + 1)
    BY <2>5, <2>6
  <2> HIDE DEF Run
  <2> QED
    BY <2>2, <2>7
<1> HIDE DEF S
<1>3. N \in S
  <2>1. \A n \in 0..N : n \in S
    BY <1>1, <1>2, UpTo
  <2> QED
    BY <2>1
<1>4. \E g : Run(g, N)
  <2> HIDE DEF Run
  <2> QED
    BY <1>3 DEF S
<1> DEFINE f == CHOOSE g : Run(g, N)
<1>5. Run(f, N)
  <2> HIDE DEF Run
  <2> QED
    BY <1>4
<1>6. Fetched(N) = f[N]
  BY Zenon DEF Fetched
<1> HIDE DEF f
<1>7. \A i \in 0..N : f[i] = Step(f, i)
  <2> HIDE DEF Step
  <2> QED
    BY <1>5
<1>8. f[0] = Machine
  BY <1>7
<1>9. \A i \in 1..N : f[i] = read_eeprom(f[i - 1])
  BY <1>7
<1> QED
  BY <1>6, <1>8, <1>9

(* The two bits of the command come first. *)
LEMMA CommandSent ==
  ASSUME NEW f, NEW b \in {0, 1}, Shape(f[0]), f[0].chip.eeprom_mode = BaseM,
         f[0].chip.eeprom_counter = 0, f[0].chip.eeprom_buffer = {},
         f[1] = write_eeprom(f[0], 1), f[2] = write_eeprom(f[1], b)
  PROVE  f[2] = Fields(f[0].chip.eeprom_size, IF b = 1 THEN AddressM ELSE WriteAddressM,
                  Width(f[0].chip.eeprom_size), f[0].chip.eeprom_address, 0, {},
                  f[0].mem, f[0].update, f[0].got)
<1> DEFINE s == f[0].chip.eeprom_size
           l == f[0].chip.eeprom_address_length
           a == f[0].chip.eeprom_address
           mm == f[0].mem
           u == f[0].update
           g == f[0].got
           md == IF b = 1 THEN AddressM ELSE WriteAddressM
           m1 == Fields(s, BaseM, l, a, 1, {6}, mm, u, g)
<1>1. f[1] = m1
  BY FirstBit, Zenon
<1> HIDE DEF s, l, a, mm, u, g, md
<1>2. /\ m1.chip.eeprom_size = s /\ m1.chip.eeprom_mode = BaseM
      /\ m1.chip.eeprom_address_length = l /\ m1.chip.eeprom_address = a
      /\ m1.chip.eeprom_counter = 1 /\ m1.chip.eeprom_buffer = {6}
      /\ m1.mem = mm /\ m1.update = u /\ m1.got = g
  BY DEF Fields
<1>3. Shape(m1)
  BY DEF Fields, Shape
<1> HIDE DEF m1
<1>4. write_eeprom(m1, b)
           = Fields(m1.chip.eeprom_size, md, Width(m1.chip.eeprom_size),
               m1.chip.eeprom_address, 0, {}, m1.mem, m1.update, m1.got)
  BY <1>2, <1>3, SecondBit, Zenon DEF md
<1>5. write_eeprom(m1, b) = Fields(s, md, Width(s), a, 0, {}, mm, u, g)
  BY <1>2, <1>4, Zenon
<1> QED
  BY <1>1, <1>5, Zenon DEF s, a, mm, u, g, md

(* The address comes next, of as many bits as the chip expects. *)
LEMMA AddressReceived ==
  ASSUME NEW f, NEW bits, NEW w \in Nat, NEW n \in Nat \ {0}, Shape(f[0]),
         f[0].chip.eeprom_mode = BaseM, f[0].chip.eeprom_counter = 0,
         f[0].chip.eeprom_buffer = {}, n = Width(f[0].chip.eeprom_size),
         bits[1] = 1, bits[2] \in {0, 1},
         \A i \in 1..n + 2 : f[i] = write_eeprom(f[i - 1], bits[i]),
         \A c : c.eeprom_size = f[0].chip.eeprom_size
                  => Decode(c, {p \in 0..n - 1 : bits[p + 3] = 1}) = 8 * w
  PROVE  f[n + 2]
           = Fields(f[0].chip.eeprom_size, IF bits[2] = 1 THEN AddressFooterM ELSE WriteM,
               n, 8 * w, 0, {},
               IF bits[2] = 1 THEN f[0].mem
               ELSE Emptied(f[0].mem, w),
               f[0].update, f[0].got)
<1> DEFINE s == f[0].chip.eeprom_size
           a == f[0].chip.eeprom_address
           mm == f[0].mem
           u == f[0].update
           g == f[0].got
           b == bits[2]
           md == IF b = 1 THEN AddressM ELSE WriteAddressM
           m2 == Fields(s, md, n, a, 0, {}, mm, u, g)
           buffer == {p \in 0..n - 1 : bits[p + 3] = 1}
<1>1. f[1] = write_eeprom(f[0], 1) /\ f[2] = write_eeprom(f[1], b)
  <2>1. 1 \in 1..n + 2 /\ 2 \in 1..n + 2 /\ 1 - 1 = 0 /\ 2 - 1 = 1
    OBVIOUS
  <2> QED
    BY <2>1
<1>2. f[2] = m2
  BY <1>1, CommandSent, Zenon
<1>3. \A i \in 0..n - 1 : f[i + 3] = write_eeprom(f[i + 2], bits[i + 3])
  <2>1. ASSUME NEW i \in 0..n - 1 PROVE i + 3 \in 1..n + 2 /\ i + 3 - 1 = i + 2
    OBVIOUS
  <2> QED
    BY <2>1
<1>4. md \in {AddressM, WriteAddressM} /\ (md = AddressM <=> b = 1)
  <2>1. WriteAddressM # AddressM
    BY Zenon DEF WriteAddressM, AddressM
  <2> QED
    BY <2>1, Zenon
<1>5. \A c : c.eeprom_size = s => Decode(c, buffer) = 8 * w
  OBVIOUS
<1> HIDE DEF s, a, mm, u, g, b, md
<1>6. /\ m2.chip.eeprom_size = s /\ m2.chip.eeprom_mode = md
      /\ m2.chip.eeprom_address_length = n
      /\ m2.chip.eeprom_counter = 0 /\ m2.chip.eeprom_buffer = {}
      /\ m2.mem = mm /\ m2.update = u /\ m2.got = g
  BY DEF Fields
<1>7. Shape(m2)
  BY ShapeOfFields
<1> HIDE DEF m2
<1>8. Decode(m2.chip, buffer) = 8 * w
  BY <1>5, <1>6, Zenon
<1>9. f[2].chip.eeprom_mode \in {AddressM, WriteAddressM} /\ Shape(f[2])
      /\ f[2].chip.eeprom_counter = 0 /\ f[2].chip.eeprom_buffer = {}
      /\ f[2].chip.eeprom_address_length = n /\ Decode(f[2].chip, buffer) = 8 * w
  BY <1>2, <1>4, <1>6, <1>7, <1>8, Zenon
<1>10. f[n + 2]
           = Fields(f[2].chip.eeprom_size,
               IF f[2].chip.eeprom_mode = AddressM THEN AddressFooterM ELSE WriteM,
               n, 8 * w, 0, {},
               IF f[2].chip.eeprom_mode = AddressM THEN f[2].mem
               ELSE Emptied(f[2].mem, w),
               f[2].update, f[2].got)
  <2>1. AddressComes(f, bits, w, n)
    BY ONLY w \in Nat, n \in Nat \ {0}, <1>3, <1>9, Zenon DEF AddressComes
  <2> QED
    BY ONLY <2>1, AddressSent, Zenon
<1>11. f[n + 2]
           = Fields(s, IF b = 1 THEN AddressFooterM ELSE WriteM, n, 8 * w, 0, {},
               IF b = 1 THEN mm
               ELSE Emptied(mm, w),
               u, g)
  BY <1>2, <1>4, <1>6, <1>10, Zenon
<1> QED
  BY <1>11, Zenon DEF s, mm, u, g, b

(* A command with the address of word w, for a machine that waits for one. *)
CommandComes(m, bits, w, n) ==
  /\ Shape(m) /\ m.chip.eeprom_mode = BaseM /\ m.chip.eeprom_counter = 0
  /\ m.chip.eeprom_buffer = {} /\ w \in Nat
  /\ n \in Nat \ {0} /\ n = Width(m.chip.eeprom_size) /\ bits[1] = 1
  /\ \A c : c.eeprom_size = m.chip.eeprom_size
              => Decode(c, {p \in 0..n - 1 : bits[p + 3] = 1}) = 8 * w

(* The request for a word leaves the chip about to send it. *)
LEMMA RequestReceived ==
  ASSUME NEW m, NEW bits, NEW w, NEW n, CommandComes(m, bits, w, n),
         Len(bits) = n + 3, bits[2] = 1
  PROVE  Received(m, bits)
           = Fields(m.chip.eeprom_size, HeaderM, n, 8 * w, 0, {}, m.mem, m.update, m.got)
<1>0. w \in Nat /\ n \in Nat \ {0}
  BY DEF CommandComes
<1> USE DEF CommandComes
<1> DEFINE s == m.chip.eeprom_size
           mm == m.mem
           u == m.update
           g == m.got
           r == Fields(s, AddressFooterM, n, 8 * w, 0, {}, mm, u, g)
<1>1. PICK f : /\ f[0] = m
               /\ \A i \in 1..n + 3 : f[i] = write_eeprom(f[i - 1], bits[i])
               /\ Received(m, bits) = f[n + 3]
  <2>1. Len(bits) \in Nat
    OBVIOUS
  <2>2. \E f : /\ f[0] = m
               /\ \A i \in 1..Len(bits) : f[i] = write_eeprom(f[i - 1], bits[i])
               /\ Received(m, bits) = f[Len(bits)]
    BY ONLY <2>1, ReceivedRun, Zenon
  <2> QED
    BY <2>2
<1>2. /\ \A i \in 1..n + 2 : f[i] = write_eeprom(f[i - 1], bits[i])
      /\ f[n + 3] = write_eeprom(f[n + 2], bits[n + 3])
  <2>1. n + 3 \in 1..n + 3 /\ n + 3 - 1 = n + 2 /\ 1..n + 2 \subseteq 1..n + 3
    OBVIOUS
  <2> QED
    BY <1>1, <2>1
<1>3. f[n + 2]
           = Fields(f[0].chip.eeprom_size, IF bits[2] = 1 THEN AddressFooterM ELSE WriteM,
               n, 8 * w, 0, {},
               IF bits[2] = 1 THEN f[0].mem
               ELSE Emptied(f[0].mem, w),
               f[0].update, f[0].got)
  <2>1. Shape(f[0]) /\ f[0].chip.eeprom_mode = BaseM /\ f[0].chip.eeprom_counter = 0
        /\ f[0].chip.eeprom_buffer = {} /\ n = Width(f[0].chip.eeprom_size)
        /\ bits[1] = 1 /\ bits[2] \in {0, 1}
        /\ \A c : c.eeprom_size = f[0].chip.eeprom_size
                    => Decode(c, {p \in 0..n - 1 : bits[p + 3] = 1}) = 8 * w
    BY <1>1, Zenon
  <2> QED
    BY ONLY <1>0, <1>2, <2>1, AddressReceived, ZenonT(60)
<1>4. f[n + 2] = r
  BY <1>1, <1>3, Zenon
<1> HIDE DEF s, mm, u, g
<1>5. /\ r.chip.eeprom_size = s /\ r.chip.eeprom_mode = AddressFooterM
      /\ r.chip.eeprom_address_length = n /\ r.chip.eeprom_address = 8 * w
      /\ r.chip.eeprom_counter = 0 /\ r.chip.eeprom_buffer = {}
      /\ r.mem = mm /\ r.update = u /\ r.got = g
  BY DEF Fields
<1>6. Shape(r)
  BY ShapeOfFields
<1> HIDE DEF r
<1>7. write_eeprom(r, bits[n + 3])
        = Fields(r.chip.eeprom_size,
            IF r.chip.eeprom_mode = AddressFooterM THEN HeaderM ELSE BaseM,
            r.chip.eeprom_address_length, r.chip.eeprom_address, 0,
            r.chip.eeprom_buffer, r.mem, r.update, r.got)
  BY <1>5, <1>6, FooterBit, Zenon
<1>8. write_eeprom(r, bits[n + 3]) = Fields(s, HeaderM, n, 8 * w, 0, {}, mm, u, g)
  BY <1>5, <1>7, Zenon
<1> QED
  BY <1>1, <1>2, <1>4, <1>8, Zenon DEF s, mm, u, g

(* The word in a transfer that writes one, and the memory with it. *)
WordOf(bits, n) == {p \in 0..63 : bits[n + 2 + p + 1] = 1}
Stored(mm, W, w, v) == [x \in W |-> IF x = w THEN v ELSE mm[x]]

(* A written word is in the memory, whole, and the write-back is scheduled. *)
LEMMA WordReceived ==
  ASSUME NEW m, NEW bits, NEW w, NEW n, CommandComes(m, bits, w, n),
         Len(bits) = n + 67, bits[2] = 0, NEW W, w \in W, m.mem \in [W -> SUBSET Positions]
  PROVE  Received(m, bits)
           = Fields(m.chip.eeprom_size, BaseM, n, 8 * w, 0, {},
               Stored(m.mem, W, w, WordOf(bits, n)), Scheduled, m.got)
<1>0. w \in Nat /\ n \in Nat \ {0}
  BY DEF CommandComes
<1> USE DEF CommandComes
<1> DEFINE s == m.chip.eeprom_size
           mm == m.mem
           u == m.update
           g == m.got
           cleared == [x \in W |-> IF x = w THEN {} ELSE mm[x]]
           k == n + 2
           word == {p \in 0..63 : bits[k + p + 1] = 1}
           full == [x \in W |-> IF x = w THEN word ELSE mm[x]]
           m2 == Fields(s, WriteM, n, 8 * w, 0, {}, cleared, u, g)
           r == Fields(s, WriteFooterM, n, 8 * w, 0, {}, full, Scheduled, g)
<1>1. PICK f : /\ f[0] = m
               /\ \A i \in 1..n + 67 : f[i] = write_eeprom(f[i - 1], bits[i])
               /\ Received(m, bits) = f[n + 67]
  <2>1. Len(bits) \in Nat
    OBVIOUS
  <2>2. \E f : /\ f[0] = m
               /\ \A i \in 1..Len(bits) : f[i] = write_eeprom(f[i - 1], bits[i])
               /\ Received(m, bits) = f[Len(bits)]
    BY ONLY <2>1, ReceivedRun, Zenon
  <2> QED
    BY <2>2
<1>2. /\ \A i \in 1..n + 2 : f[i] = write_eeprom(f[i - 1], bits[i])
      /\ f[n + 67] = write_eeprom(f[k + 64], bits[n + 67])
  <2>1. n + 67 \in 1..n + 67 /\ n + 67 - 1 = k + 64 /\ 1..n + 2 \subseteq 1..n + 67
    OBVIOUS
  <2> HIDE DEF k
  <2> QED
    BY <1>1, <2>1
<1>3. \A i \in 0..63 : f[k + i + 1] = write_eeprom(f[k + i], bits[k + i + 1])
  <2>1. ASSUME NEW i \in 0..63 PROVE f[k + i + 1] = write_eeprom(f[k + i], bits[k + i + 1])
    <3>1. k + i + 1 \in 1..n + 67 /\ k + i + 1 - 1 = k + i
      OBVIOUS
    <3> DEFINE j == k + i + 1
    <3>2. j \in 1..n + 67 /\ j - 1 = k + i
      BY <3>1
    <3> HIDE DEF j
    <3>3. f[j] = write_eeprom(f[j - 1], bits[j])
      BY <1>1, <3>2
    <3> QED
      BY <3>2, <3>3 DEF j
  <2> QED
    BY <2>1
<1>4. f[n + 2]
           = Fields(f[0].chip.eeprom_size, IF bits[2] = 1 THEN AddressFooterM ELSE WriteM,
               n, 8 * w, 0, {},
               IF bits[2] = 1 THEN f[0].mem
               ELSE Emptied(f[0].mem, w),
               f[0].update, f[0].got)
  <2>1. Shape(f[0]) /\ f[0].chip.eeprom_mode = BaseM /\ f[0].chip.eeprom_counter = 0
        /\ f[0].chip.eeprom_buffer = {} /\ n = Width(f[0].chip.eeprom_size)
        /\ bits[1] = 1 /\ bits[2] \in {0, 1}
        /\ \A c : c.eeprom_size = f[0].chip.eeprom_size
                    => Decode(c, {p \in 0..n - 1 : bits[p + 3] = 1}) = 8 * w
    BY <1>1, Zenon
  <2> QED
    BY ONLY <1>0, <1>2, <2>1, AddressReceived, ZenonT(60)
<1>5. mm \in [W -> SUBSET Positions] /\ DOMAIN mm = W /\ W \cup {w} = W
  OBVIOUS
<1>6. f[k] = m2
  <2>1. bits[2] # 1
    OBVIOUS
  <2> QED
    BY <1>1, <1>4, <1>5, <2>1, Zenon DEF Emptied
<1> HIDE DEF s, mm, u, g
<1>7. /\ cleared \in [W -> SUBSET Positions] /\ cleared[w] = {} /\ k \in Nat
      /\ \A x \in W : x # w => cleared[x] = mm[x]
  BY <1>5
<1> HIDE DEF cleared, k, full, word
<1>8. /\ m2.chip.eeprom_size = s /\ m2.chip.eeprom_mode = WriteM
      /\ m2.chip.eeprom_address_length = n /\ m2.chip.eeprom_address = 8 * w
      /\ m2.chip.eeprom_counter = 0 /\ m2.chip.eeprom_buffer = {}
      /\ m2.mem = cleared /\ m2.update = u /\ m2.got = g
  BY DEF Fields
<1>9. /\ r.chip.eeprom_size = s /\ r.chip.eeprom_mode = WriteFooterM
      /\ r.chip.eeprom_address_length = n /\ r.chip.eeprom_address = 8 * w
      /\ r.chip.eeprom_counter = 0 /\ r.chip.eeprom_buffer = {}
      /\ r.mem = full /\ r.update = Scheduled /\ r.got = g
  BY DEF Fields
<1>10. Shape(m2) /\ Shape(r)
  BY ShapeOfFields
<1> HIDE DEF m2, r
<1>11. f[k + 64]
           = Fields(f[k].chip.eeprom_size, WriteFooterM, f[k].chip.eeprom_address_length,
               8 * w, 0, {},
               [x \in W |-> IF x = w THEN {p \in 0..63 : bits[k + p + 1] = 1}
                            ELSE f[k].mem[x]],
               Scheduled, f[k].got)
  <2>1. Shape(f[k]) /\ f[k].chip.eeprom_mode = WriteM /\ f[k].chip.eeprom_counter = 0
        /\ f[k].chip.eeprom_buffer = {} /\ f[k].chip.eeprom_address = 8 * w
        /\ f[k].mem \in [W -> SUBSET Positions] /\ f[k].mem[w] = {}
    BY <1>6, <1>7, <1>8, <1>10, Zenon
  <2>2. k \in Nat /\ w \in Nat /\ w \in W
    BY <1>7
  <2> QED
    <3>1. WordComes(f, bits, k, w, W)
      BY ONLY <2>1, <2>2, <1>3, Zenon DEF WordComes
    <3> QED
      BY ONLY <3>1, DataPhase
<1>12. [x \in W |-> IF x = w THEN word ELSE cleared[x]] = full
  <2>1. \A x \in W : (IF x = w THEN word ELSE cleared[x]) = (IF x = w THEN word ELSE mm[x])
    BY <1>7
  <2> QED
    BY <2>1 DEF full
<1>13. f[k + 64] = r
  BY <1>6, <1>8, <1>11, <1>12, Zenon DEF r, word
<1>14. write_eeprom(r, bits[n + 67])
        = Fields(r.chip.eeprom_size,
            IF r.chip.eeprom_mode = AddressFooterM THEN HeaderM ELSE BaseM,
            r.chip.eeprom_address_length, r.chip.eeprom_address, 0,
            r.chip.eeprom_buffer, r.mem, r.update, r.got)
  BY <1>9, <1>10, FooterBit, Zenon
<1>15. WriteFooterM # AddressFooterM
  BY Zenon DEF WriteFooterM, AddressFooterM
<1>16. write_eeprom(r, bits[n + 67]) = Fields(s, BaseM, n, 8 * w, 0, {}, full, Scheduled, g)
  BY <1>9, <1>14, <1>15, Zenon
<1> QED
  BY <1>1, <1>2, <1>13, <1>16, Zenon DEF s, mm, g, full, word, k, Stored, WordOf

-----------------------------------------------------------------------------
(* The bits of a number, one power of two after the other. *)
LEMMA Halves ==
  ASSUME NEW w \in Nat, NEW d \in Nat \ {0}
  PROVE  w \div d = 2 * (w \div (2 * d)) + ((w \div d) % 2)
<1> DEFINE e == 2 * d
           x == w \div d
           r == w % d
           y == w \div e
           s == w % e
           z == x \div 2
           t == x % 2
<1>1. e \in Nat \ {0}
  OBVIOUS
<1>2. x \in Nat /\ r \in 0..d - 1 /\ w = d * x + r
  OBVIOUS
<1>3. y \in Nat /\ s \in 0..e - 1 /\ w = e * y + s
  <2> HIDE DEF e
  <2> QED
    BY <1>1
<1> HIDE DEF x, r, y, s
<1>4. z \in Nat /\ t \in 0..1 /\ x = 2 * z + t
  BY <1>2
<1> HIDE DEF z, t
<1>5. w = e * z + (d * t + r)
  <2>1. d * x = d * (2 * z) + d * t
    BY <1>4
  <2>2. d * (2 * z) = e * z
    BY <1>4
  <2> QED
    BY <1>2, <2>1, <2>2, <1>4
<1>6. d * t + r \in 0..e - 1
  <2>1. CASE t = 0
    BY <2>1, <1>2
  <2>2. CASE t = 1
    BY <2>2, <1>2
  <2> QED
    BY <2>1, <2>2, <1>4
<1>7. z = y
  <2> DEFINE q == d * t + r
  <2>1. e * z + q = e * y + s /\ q \in 0..e - 1
    BY <1>3, <1>5, <1>6
  <2> HIDE DEF e, q
  <2>2. CASE z < y
    <3>1. e * y = e * z + e * (y - z)
      BY <1>1, <1>3, <1>4
    <3>2. e * (y - z) >= e
      BY <1>1, <1>3, <1>4, <2>2
    <3> QED
      BY <1>1, <1>3, <1>4, <2>1, <3>1, <3>2
  <2>3. CASE y < z
    <3>1. e * z = e * y + e * (z - y)
      BY <1>1, <1>3, <1>4
    <3>2. e * (z - y) >= e
      BY <1>1, <1>3, <1>4, <2>3
    <3> QED
      BY <1>1, <1>3, <1>4, <2>1, <3>1, <3>2
  <2> QED
    BY <2>2, <2>3, <1>3, <1>4
<1>8. x = 2 * y + t
  BY <1>4, <1>7
<1> QED
  BY <1>8 DEF x, y, e, t

(* The ten bits of a number below 1024. *)
BitOf(w, d) == (w \div d) % 2
(* A bit is 0 or 1. *)
LEMMA BitRange ==
  ASSUME NEW w \in Nat, NEW d \in Nat \ {0}
  PROVE  BitOf(w, d) \in {0, 1}
<1>1. w \div d \in Nat
  OBVIOUS
<1>2. ASSUME NEW q \in Nat PROVE q % 2 \in {0, 1}
  OBVIOUS
<1> QED
  BY <1>1, <1>2 DEF BitOf

(* A number below 1024 is the sum of its bits. *)
LEMMA TenBits ==
  ASSUME NEW w \in 0..1023
  PROVE  w = 512 * BitOf(w, 512) + 256 * BitOf(w, 256) + 128 * BitOf(w, 128)
              + 64 * BitOf(w, 64) + 32 * BitOf(w, 32) + 16 * BitOf(w, 16)
              + 8 * BitOf(w, 8) + 4 * BitOf(w, 4) + 2 * BitOf(w, 2) + BitOf(w, 1)
<1>1. w \in Nat /\ w < 1024
  OBVIOUS
<1>4. /\ w \div 1 = 2 * (w \div 2) + BitOf(w, 1)
      /\ w \div 2 = 2 * (w \div 4) + BitOf(w, 2)
      /\ w \div 4 = 2 * (w \div 8) + BitOf(w, 4)
      /\ w \div 8 = 2 * (w \div 16) + BitOf(w, 8)
      /\ w \div 16 = 2 * (w \div 32) + BitOf(w, 16)
      /\ w \div 32 = 2 * (w \div 64) + BitOf(w, 32)
      /\ w \div 64 = 2 * (w \div 128) + BitOf(w, 64)
      /\ w \div 128 = 2 * (w \div 256) + BitOf(w, 128)
      /\ w \div 256 = 2 * (w \div 512) + BitOf(w, 256)
      /\ w \div 512 = 2 * (w \div 1024) + BitOf(w, 512)
  <2>1. w \div 1 = 2 * (w \div (2 * 1)) + BitOf(w, 1)
    BY Halves, <1>1 DEF BitOf
  <2>2. w \div 2 = 2 * (w \div (2 * 2)) + BitOf(w, 2)
    BY Halves, <1>1 DEF BitOf
  <2>3. w \div 4 = 2 * (w \div (2 * 4)) + BitOf(w, 4)
    BY Halves, <1>1 DEF BitOf
  <2>4. w \div 8 = 2 * (w \div (2 * 8)) + BitOf(w, 8)
    BY Halves, <1>1 DEF BitOf
  <2>5. w \div 16 = 2 * (w \div (2 * 16)) + BitOf(w, 16)
    BY Halves, <1>1 DEF BitOf
  <2>6. w \div 32 = 2 * (w \div (2 * 32)) + BitOf(w, 32)
    BY Halves, <1>1 DEF BitOf
  <2>7. w \div 64 = 2 * (w \div (2 * 64)) + BitOf(w, 64)
    BY Halves, <1>1 DEF BitOf
  <2>8. w \div 128 = 2 * (w \div (2 * 128)) + BitOf(w, 128)
    BY Halves, <1>1 DEF BitOf
  <2>9. w \div 256 = 2 * (w \div (2 * 256)) + BitOf(w, 256)
    BY Halves, <1>1 DEF BitOf
  <2>10. w \div 512 = 2 * (w \div (2 * 512)) + BitOf(w, 512)
    BY Halves, <1>1 DEF BitOf
  <2>11. /\ 2 * 1 = 2 /\ 2 * 2 = 4 /\ 2 * 4 = 8 /\ 2 * 8 = 16 /\ 2 * 16 = 32 /\ 2 * 32 = 64
         /\ 2 * 64 = 128 /\ 2 * 128 = 256 /\ 2 * 256 = 512 /\ 2 * 512 = 1024
    OBVIOUS
  <2> QED
    BY <2>1, <2>2, <2>3, <2>4, <2>5, <2>6, <2>7, <2>8, <2>9, <2>10, <2>11
<1>5. w \div 1 = w /\ w \div 1024 = 0
  BY <1>1
<1>6. /\ w \div 2 \in Nat /\ w \div 4 \in Nat /\ w \div 8 \in Nat /\ w \div 16 \in Nat
      /\ w \div 32 \in Nat /\ w \div 64 \in Nat /\ w \div 128 \in Nat /\ w \div 256 \in Nat
      /\ w \div 512 \in Nat
  BY <1>1
<1>7. /\ BitOf(w, 1) \in {0, 1} /\ BitOf(w, 2) \in {0, 1}
      /\ BitOf(w, 4) \in {0, 1} /\ BitOf(w, 8) \in {0, 1}
      /\ BitOf(w, 16) \in {0, 1} /\ BitOf(w, 32) \in {0, 1} /\ BitOf(w, 64) \in {0, 1}
      /\ BitOf(w, 128) \in {0, 1} /\ BitOf(w, 256) \in {0, 1} /\ BitOf(w, 512) \in {0, 1}
  BY <1>1, BitRange
<1> DEFINE b1 == BitOf(w, 1)
           b2 == BitOf(w, 2)
           b4 == BitOf(w, 4)
           b8 == BitOf(w, 8)
           b16 == BitOf(w, 16)
           b32 == BitOf(w, 32)
           b64 == BitOf(w, 64)
           b128 == BitOf(w, 128)
           b256 == BitOf(w, 256)
           b512 == BitOf(w, 512)
           q2 == w \div 2
           q4 == w \div 4
           q8 == w \div 8
           q16 == w \div 16
           q32 == w \div 32
           q64 == w \div 64
           q128 == w \div 128
           q256 == w \div 256
           q512 == w \div 512
<1>8. /\ w = 2 * q2 + b1 /\ q2 = 2 * q4 + b2 /\ q4 = 2 * q8 + b4 /\ q8 = 2 * q16 + b8
      /\ q16 = 2 * q32 + b16 /\ q32 = 2 * q64 + b32 /\ q64 = 2 * q128 + b64
      /\ q128 = 2 * q256 + b128 /\ q256 = 2 * q512 + b256 /\ q512 = b512
  BY <1>4, <1>5, <1>7
<1>9. /\ q2 \in Nat /\ q4 \in Nat /\ q8 \in Nat /\ q16 \in Nat /\ q32 \in Nat
      /\ q64 \in Nat /\ q128 \in Nat /\ q256 \in Nat /\ q512 \in Nat
  BY <1>6
<1>10. /\ b1 \in {0, 1} /\ b2 \in {0, 1} /\ b4 \in {0, 1} /\ b8 \in {0, 1}
      /\ b16 \in {0, 1} /\ b32 \in {0, 1} /\ b64 \in {0, 1} /\ b128 \in {0, 1}
      /\ b256 \in {0, 1} /\ b512 \in {0, 1}
  BY <1>7
<1> HIDE DEF b1, b2, b4, b8, b16, b32, b64, b128, b256, b512,
             q2, q4, q8, q16, q32, q64, q128, q256, q512
<1>11. w = 512 * b512 + 256 * b256 + 128 * b128 + 64 * b64 + 32 * b32 + 16 * b16
           + 8 * b8 + 4 * b4 + 2 * b2 + b1
  BY <1>8, <1>9, <1>10
<1> QED
  BY <1>11 DEF b1, b2, b4, b8, b16, b32, b64, b128, b256, b512

(* The powers of two that an address of 14 bits needs. *)
LEMMA Powers ==
  /\ 2 ^ 0 = 1 /\ 2 ^ 1 = 2 /\ 2 ^ 2 = 4 /\ 2 ^ 3 = 8 /\ 2 ^ 4 = 16 /\ 2 ^ 5 = 32 /\ 2 ^ 6 = 64
  /\ 2 ^ 7 = 128 /\ 2 ^ 8 = 256 /\ 2 ^ 9 = 512 /\ 2 ^ 10 = 1024 /\ 2 ^ 11 = 2048
  /\ 2 ^ 12 = 4096 /\ 2 ^ 13 = 8192
OBVIOUS

(* The address a game sends, bit by bit, is the one the chip decodes, for    *)
(* either size of the chip.                                                  *)
LEMMA DecodeSmall ==
  ASSUME NEW c, c.eeprom_size = "512B", NEW w \in 0..63, NEW buffer,
         buffer = {p \in 0..5 : (w \div 2 ^ (6 - (p + 1))) % 2 = 1}
  PROVE  Decode(c, buffer) = 8 * w
<1> DEFINE In(p) == IF p \in buffer THEN 1 ELSE 0
<1>1. w = 512 * BitOf(w, 512) + 256 * BitOf(w, 256) + 128 * BitOf(w, 128)
           + 64 * BitOf(w, 64) + 32 * BitOf(w, 32) + 16 * BitOf(w, 16)
           + 8 * BitOf(w, 8) + 4 * BitOf(w, 4) + 2 * BitOf(w, 2) + BitOf(w, 1)
  <2>1. w \in 0..1023
    OBVIOUS
  <2> QED
    BY <2>1, TenBits
<1>2. BitOf(w, 512) = 0 /\ BitOf(w, 256) = 0 /\ BitOf(w, 128) = 0 /\ BitOf(w, 64) = 0
  BY DEF BitOf
<1>3. /\ BitOf(w, 32) \in {0, 1} /\ BitOf(w, 16) \in {0, 1} /\ BitOf(w, 8) \in {0, 1}
      /\ BitOf(w, 4) \in {0, 1} /\ BitOf(w, 2) \in {0, 1} /\ BitOf(w, 1) \in {0, 1}
  BY BitRange
<1>4. /\ 0 \in buffer <=> BitOf(w, 32) = 1
      /\ 1 \in buffer <=> BitOf(w, 16) = 1
      /\ 2 \in buffer <=> BitOf(w, 8) = 1
      /\ 3 \in buffer <=> BitOf(w, 4) = 1
      /\ 4 \in buffer <=> BitOf(w, 2) = 1
      /\ 5 \in buffer <=> BitOf(w, 1) = 1
  BY Powers DEF BitOf
<1>5. \A p \in 6..15 : p \notin buffer
  OBVIOUS
<1>6. /\ In(0) = BitOf(w, 32) /\ In(1) = BitOf(w, 16) /\ In(2) = BitOf(w, 8)
      /\ In(3) = BitOf(w, 4) /\ In(4) = BitOf(w, 2) /\ In(5) = BitOf(w, 1)
      /\ In(6) = 0 /\ In(7) = 0
      /\ In(8) = 0 /\ In(9) = 0 /\ In(10) = 0 /\ In(11) = 0
      /\ In(12) = 0 /\ In(13) = 0 /\ In(14) = 0 /\ In(15) = 0
  BY <1>3, <1>4, <1>5
<1>7. Byte(buffer, 0) = 128 * In(0) + 64 * In(1) + 32 * In(2) + 16 * In(3)
                          + 8 * In(4) + 4 * In(5) + 2 * In(6) + In(7)
  BY DEF Byte
<1>8. Byte(buffer, 1) = 128 * In(8) + 64 * In(9) + 32 * In(10) + 16 * In(11)
                          + 8 * In(12) + 4 * In(13) + 2 * In(14) + In(15)
  BY DEF Byte
<1> HIDE DEF In
<1>9. Byte(buffer, 1) = 0
  BY <1>6, <1>8
<1>10. Byte(buffer, 0) = 4 * w
  BY <1>1, <1>2, <1>3, <1>6, <1>7
<1>11. (4 * w + 256 * 0) \div 4 = w
  OBVIOUS
<1>12. ((Byte(buffer, 0) + 256 * Byte(buffer, 1)) \div 4) * 8 = 8 * w
  BY <1>9, <1>10, <1>11
<1> QED
  BY <1>12 DEF Decode

(* The same for 14 bits, of which the first four are 0. *)
LEMMA DecodeLarge ==
  ASSUME NEW c, c.eeprom_size = "8KB", NEW w \in 0..1023, NEW buffer,
         buffer = {p \in 0..13 : (w \div 2 ^ (14 - (p + 1))) % 2 = 1}
  PROVE  Decode(c, buffer) = 8 * w
<1> DEFINE In(p) == IF p \in buffer THEN 1 ELSE 0
           low == 32 * BitOf(w, 32) + 16 * BitOf(w, 16) + 8 * BitOf(w, 8) + 4 * BitOf(w, 4)
                    + 2 * BitOf(w, 2) + BitOf(w, 1)
           high == 8 * BitOf(w, 512) + 4 * BitOf(w, 256) + 2 * BitOf(w, 128) + BitOf(w, 64)
<1>1. w = 512 * BitOf(w, 512) + 256 * BitOf(w, 256) + 128 * BitOf(w, 128)
           + 64 * BitOf(w, 64) + 32 * BitOf(w, 32) + 16 * BitOf(w, 16)
           + 8 * BitOf(w, 8) + 4 * BitOf(w, 4) + 2 * BitOf(w, 2) + BitOf(w, 1)
  BY TenBits
<1>0. /\ BitOf(w, 1024) = 0 /\ BitOf(w, 2048) = 0 /\ BitOf(w, 4096) = 0 /\ BitOf(w, 8192) = 0
  BY DEF BitOf
<1>2. /\ BitOf(w, 512) \in {0, 1} /\ BitOf(w, 256) \in {0, 1}
      /\ BitOf(w, 128) \in {0, 1} /\ BitOf(w, 64) \in {0, 1}
  BY BitRange
<1>3. /\ BitOf(w, 32) \in {0, 1} /\ BitOf(w, 16) \in {0, 1} /\ BitOf(w, 8) \in {0, 1}
      /\ BitOf(w, 4) \in {0, 1} /\ BitOf(w, 2) \in {0, 1} /\ BitOf(w, 1) \in {0, 1}
  BY BitRange
<1>4. /\ 0 \in buffer <=> BitOf(w, 8192) = 1
      /\ 1 \in buffer <=> BitOf(w, 4096) = 1
      /\ 2 \in buffer <=> BitOf(w, 2048) = 1
      /\ 3 \in buffer <=> BitOf(w, 1024) = 1
      /\ 4 \in buffer <=> BitOf(w, 512) = 1
      /\ 5 \in buffer <=> BitOf(w, 256) = 1
      /\ 6 \in buffer <=> BitOf(w, 128) = 1
      /\ 7 \in buffer <=> BitOf(w, 64) = 1
  BY Powers DEF BitOf
<1>5. /\ 8 \in buffer <=> BitOf(w, 32) = 1
      /\ 9 \in buffer <=> BitOf(w, 16) = 1
      /\ 10 \in buffer <=> BitOf(w, 8) = 1
      /\ 11 \in buffer <=> BitOf(w, 4) = 1
      /\ 12 \in buffer <=> BitOf(w, 2) = 1
      /\ 13 \in buffer <=> BitOf(w, 1) = 1
      /\ 14 \notin buffer /\ 15 \notin buffer
  BY Powers DEF BitOf
<1>6. /\ In(0) = 0 /\ In(1) = 0 /\ In(2) = 0 /\ In(3) = 0
      /\ In(4) = BitOf(w, 512) /\ In(5) = BitOf(w, 256)
      /\ In(6) = BitOf(w, 128) /\ In(7) = BitOf(w, 64)
  BY <1>0, <1>2, <1>4
<1>7. /\ In(8) = BitOf(w, 32) /\ In(9) = BitOf(w, 16) /\ In(10) = BitOf(w, 8)
      /\ In(11) = BitOf(w, 4) /\ In(12) = BitOf(w, 2) /\ In(13) = BitOf(w, 1)
      /\ In(14) = 0 /\ In(15) = 0
  BY <1>3, <1>5
<1>8. Byte(buffer, 0) = 128 * In(0) + 64 * In(1) + 32 * In(2) + 16 * In(3)
                          + 8 * In(4) + 4 * In(5) + 2 * In(6) + In(7)
  BY DEF Byte
<1>9. Byte(buffer, 1) = 128 * In(8) + 64 * In(9) + 32 * In(10) + 16 * In(11)
                          + 8 * In(12) + 4 * In(13) + 2 * In(14) + In(15)
  BY DEF Byte
<1> HIDE DEF In
<1>10. Byte(buffer, 0) = high /\ high \in Nat
  BY <1>2, <1>6, <1>8
<1>11. Byte(buffer, 1) = 4 * low /\ low \in Nat
  BY <1>3, <1>7, <1>9
<1>12. w = low + high * 64
  BY <1>1, <1>2, <1>3
<1> HIDE DEF low, high
<1>13. (4 * low) \div 4 = low
  BY <1>11
<1>14. (Byte(buffer, 1) \div 4 + Byte(buffer, 0) * 64) * 8 = 8 * w
  BY <1>10, <1>11, <1>12, <1>13
<1> QED
  BY <1>14 DEF Decode

-----------------------------------------------------------------------------
(* The answer: four bits to be ignored, and the word.                      *)

(* A run in which the chip sends the word w: 68 bits. *)
WordLeaves(f, w) ==
  /\ w \in Nat /\ Shape(f[0])
  /\ f[0].chip.eeprom_mode = HeaderM /\ f[0].chip.eeprom_counter = 0
  /\ f[0].chip.eeprom_address = 8 * w /\ f[0].got = <<>>
  /\ \A i \in 0..67 : f[i + 1] = read_eeprom(f[i])

(* A sequence of bits grows by one. *)
LEMMA Longer ==
  ASSUME NEW g \in Seq({0, 1}), NEW b \in {0, 1}
  PROVE  /\ Append(g, b) \in Seq({0, 1}) /\ Len(Append(g, b)) = Len(g) + 1
         /\ \A i \in 1..Len(g) : Append(g, b)[i] = g[i]
         /\ Append(g, b)[Len(g) + 1] = b
BY AppendProperties

(* The four bits before the word. *)
LEMMA HeaderSent ==
  ASSUME NEW f, NEW w, WordLeaves(f, w)
  PROVE  \E g \in Seq({0, 1}) :
           /\ Len(g) = 4
           /\ f[4] = Fields(f[0].chip.eeprom_size, ReadM, f[0].chip.eeprom_address_length, 8 * w, 0,
                       f[0].chip.eeprom_buffer, f[0].mem, f[0].update, g)
<1> USE DEF WordLeaves
<1> DEFINE s == f[0].chip.eeprom_size
           l == f[0].chip.eeprom_address_length
           a == 8 * w
           b == f[0].chip.eeprom_buffer
           mm == f[0].mem
           u == f[0].update
           At(i, g) == Fields(s, HeaderM, l, a, i, b, mm, u, g)
           S == {i \in 0..3 : \E g \in Seq({0, 1}) : Len(g) = i /\ f[i] = At(i, g)}
<1>1. f[0] = At(0, <<>>)
  BY Zenon DEF Shape
<1>0. \A i \in 0..67 : f[i + 1] = read_eeprom(f[i])
  OBVIOUS
<1> HIDE DEF s, l, a, b, mm, u
<1>2. ASSUME NEW i \in 0..3, NEW g
      PROVE  /\ At(i, g).chip.eeprom_size = s /\ At(i, g).chip.eeprom_mode = HeaderM
             /\ At(i, g).chip.eeprom_address_length = l /\ At(i, g).chip.eeprom_address = a
             /\ At(i, g).chip.eeprom_counter = i /\ At(i, g).chip.eeprom_buffer = b
             /\ At(i, g).mem = mm /\ At(i, g).update = u /\ At(i, g).got = g
             /\ Shape(At(i, g))
  BY ShapeOfFields DEF Fields
<1>3. ASSUME NEW i \in 0..3, NEW g
      PROVE  read_eeprom(At(i, g))
               = Fields(s, IF i = 3 THEN ReadM ELSE HeaderM, l, a,
                   IF i = 3 THEN 0 ELSE i + 1, b, mm, u, Append(g, 0))
  <2> DEFINE m == At(i, g)
  <2>1. /\ m.chip.eeprom_size = s /\ m.chip.eeprom_mode = HeaderM
        /\ m.chip.eeprom_address_length = l /\ m.chip.eeprom_address = a
        /\ m.chip.eeprom_counter = i /\ m.chip.eeprom_buffer = b
        /\ m.mem = mm /\ m.update = u /\ m.got = g /\ Shape(m)
    BY <1>2
  <2> HIDE DEF m
  <2>2. m.chip.eeprom_counter \in 0..3
    BY <2>1
  <2>3. read_eeprom(m)
          = Fields(m.chip.eeprom_size,
              IF m.chip.eeprom_counter = 3 THEN ReadM ELSE HeaderM,
              m.chip.eeprom_address_length, m.chip.eeprom_address,
              IF m.chip.eeprom_counter = 3 THEN 0 ELSE m.chip.eeprom_counter + 1,
              m.chip.eeprom_buffer, m.mem, m.update, Append(m.got, 0))
    BY <2>1, <2>2, HeaderBit, Zenon
  <2>4. read_eeprom(m) = Fields(s, IF i = 3 THEN ReadM ELSE HeaderM, l, a,
                           IF i = 3 THEN 0 ELSE i + 1, b, mm, u, Append(g, 0))
    BY <2>1, <2>3, Zenon
  <2> QED
    BY <2>4 DEF m
<1> HIDE DEF At
<1>4. 0 \in S
  <2>1. <<>> \in Seq({0, 1}) /\ Len(<<>>) = 0 /\ 0 \in 0..3
    OBVIOUS
  <2> QED
    BY <1>1, <2>1
<1>5. ASSUME NEW i \in 0..3 - 1, i \in S PROVE i + 1 \in S
  <2>1. PICK g \in Seq({0, 1}) : Len(g) = i /\ f[i] = At(i, g)
    BY <1>5
  <2>2. i # 3 /\ i \in 0..3 /\ i + 1 \in 0..3 /\ i \in 0..67
    BY ONLY i \in 0..3 - 1
  <2>3. f[i + 1] = read_eeprom(f[i])
    BY ONLY <1>0, <2>2, Zenon
  <2>4. f[i + 1] = At(i + 1, Append(g, 0))
    <3>1. read_eeprom(At(i, g)) = Fields(s, IF i = 3 THEN ReadM ELSE HeaderM, l, a,
                                    IF i = 3 THEN 0 ELSE i + 1, b, mm, u, Append(g, 0))
      BY ONLY <1>3, <2>2, Zenon
    <3> QED
      BY ONLY <2>1, <2>2, <2>3, <3>1, Zenon DEF At
  <2>5. Append(g, 0) \in Seq({0, 1}) /\ Len(Append(g, 0)) = i + 1
    <3>1. Len(g) = i /\ 0 \in {0, 1}
      BY <2>1
    <3> QED
      BY ONLY <3>1, g \in Seq({0, 1}), Longer
  <2> QED
    BY <2>2, <2>4, <2>5, Zenon
<1> HIDE DEF S
<1>6. 3 \in S
  <2>1. \A i \in 0..3 : i \in S
    BY <1>4, <1>5, UpTo
  <2> QED
    BY <2>1
<1>7. PICK g \in Seq({0, 1}) : Len(g) = 3 /\ f[3] = At(3, g)
  BY <1>6 DEF S
<1>8. f[4] = read_eeprom(f[3])
  <2>1. 3 \in 0..67 /\ 3 + 1 = 4
    OBVIOUS
  <2>2. f[3 + 1] = read_eeprom(f[3])
    BY ONLY <1>0, <2>1, Zenon
  <2> QED
    BY ONLY <2>1, <2>2, Zenon
<1>9. f[4] = Fields(s, ReadM, l, a, 0, b, mm, u, Append(g, 0))
  <2>1. 3 \in 0..3
    OBVIOUS
  <2> QED
    BY <1>3, <1>7, <1>8, <2>1, ZenonT(60)
<1>10. Append(g, 0) \in Seq({0, 1}) /\ Len(Append(g, 0)) = 4
  <2>1. Len(g) = 3 /\ 0 \in {0, 1} /\ 3 + 1 = 4
    BY <1>7
  <2> QED
    BY ONLY <2>1, g \in Seq({0, 1}), Longer
<1> QED
  BY <1>9, <1>10, Zenon DEF s, l, a, b, mm, u

(* The word itself; then the chip waits for a command again. *)
LEMMA WordSent ==
  ASSUME NEW f, NEW w, WordLeaves(f, w), NEW word, Content(f[0], w) = word
  PROVE  \E g : /\ \A p \in Positions : g[p + 5] = IF p \in word THEN 1 ELSE 0
                /\ f[68] = Fields(f[0].chip.eeprom_size, BaseM, f[0].chip.eeprom_address_length,
                             8 * w, 0, f[0].chip.eeprom_buffer, f[0].mem, f[0].update, g)
<1> DEFINE s == f[0].chip.eeprom_size
           l == f[0].chip.eeprom_address_length
           a == 8 * w
           b == f[0].chip.eeprom_buffer
           mm == f[0].mem
           u == f[0].update
           bit(p) == IF p \in word THEN 1 ELSE 0
           Pre(g, j) == /\ g \in Seq({0, 1}) /\ Len(g) = 4 + j
                        /\ \A p \in 0..j - 1 : g[p + 5] = bit(p)
           At(j, g) == Fields(s, ReadM, l, a, j, b, mm, u, g)
           S == {j \in 0..63 : \E g : Pre(g, j) /\ f[4 + j] = At(j, g)}
<1>1. PICK g4 \in Seq({0, 1}) : Len(g4) = 4 /\ f[4] = At(0, g4)
  BY HeaderSent, Zenon
<1>2. /\ w \in Nat /\ a \div 8 = w
      /\ \A i \in 0..67 : f[i + 1] = read_eeprom(f[i])
  BY Eighth DEF WordLeaves
<1>3. word = IF w \in DOMAIN mm THEN mm[w] ELSE Blank
  BY Zenon DEF Content
<1> HIDE DEF s, l, a, b, mm, u, bit
<1>4. ASSUME NEW j \in 0..63, NEW g
      PROVE  /\ At(j, g).chip.eeprom_size = s /\ At(j, g).chip.eeprom_mode = ReadM
             /\ At(j, g).chip.eeprom_address_length = l /\ At(j, g).chip.eeprom_address = a
             /\ At(j, g).chip.eeprom_counter = j /\ At(j, g).chip.eeprom_buffer = b
             /\ At(j, g).mem = mm /\ At(j, g).update = u /\ At(j, g).got = g
             /\ Shape(At(j, g))
  BY ShapeOfFields DEF Fields
<1>5. ASSUME NEW j \in 0..63, NEW g
      PROVE  read_eeprom(At(j, g))
               = Fields(s, IF j = 63 THEN BaseM ELSE ReadM, l, a,
                   IF j = 63 THEN 0 ELSE j + 1, b, mm, u, Append(g, bit(j)))
  <2> DEFINE m == At(j, g)
  <2>1. /\ m.chip.eeprom_size = s /\ m.chip.eeprom_mode = ReadM
        /\ m.chip.eeprom_address_length = l /\ m.chip.eeprom_address = a
        /\ m.chip.eeprom_counter = j /\ m.chip.eeprom_buffer = b
        /\ m.mem = mm /\ m.update = u /\ m.got = g /\ Shape(m)
    BY <1>4
  <2> HIDE DEF m
  <2>2. m.chip.eeprom_counter \in 0..63
    BY <2>1
  <2>3. read_eeprom(m)
          = Fields(m.chip.eeprom_size,
              IF m.chip.eeprom_counter = 63 THEN BaseM ELSE ReadM,
              m.chip.eeprom_address_length, m.chip.eeprom_address,
              IF m.chip.eeprom_counter = 63 THEN 0 ELSE m.chip.eeprom_counter + 1,
              m.chip.eeprom_buffer, m.mem, m.update,
              Append(m.got, IF m.chip.eeprom_counter \in Content(m, Word(m.chip))
                            THEN 1 ELSE 0))
    BY <2>1, <2>2, ReadBit, Zenon
  <2>4. Word(m.chip) = w
    BY <1>2, <2>1, Zenon DEF Word
  <2>5. Content(m, w) = word
    BY <1>3, <2>1, Zenon DEF Content
  <2>6. read_eeprom(m) = Fields(s, IF j = 63 THEN BaseM ELSE ReadM, l, a,
                           IF j = 63 THEN 0 ELSE j + 1, b, mm, u, Append(g, bit(j)))
    BY <2>1, <2>3, <2>4, <2>5, Zenon DEF bit
  <2> QED
    BY <2>6 DEF m
<1> HIDE DEF At
<1>6. ASSUME NEW j \in 0..63, NEW g, Pre(g, j) PROVE Pre(Append(g, bit(j)), j + 1)
  <2>0. g \in Seq({0, 1}) /\ Len(g) = 4 + j
    BY <1>6
  <2>1. bit(j) \in {0, 1}
    BY DEF bit
  <2> DEFINE h == Append(g, bit(j))
  <2>2. /\ h \in Seq({0, 1}) /\ Len(h) = 4 + (j + 1) /\ h[4 + j + 1] = bit(j)
        /\ \A i \in 1..4 + j : h[i] = g[i]
    BY ONLY j \in 0..63, <2>1, <2>0, Longer
  <2> HIDE DEF h
  <2>3. ASSUME NEW p \in 0..(j + 1) - 1 PROVE h[p + 5] = bit(p)
    <3>1. CASE p = j
      <4>1. p + 5 = 4 + j + 1
        BY <3>1
      <4> QED
        BY <2>2, <3>1, <4>1
    <3>2. CASE p # j
      <4>1. p \in 0..j - 1 /\ p + 5 \in 1..4 + j
        BY <3>2
      <4> QED
        BY <1>6, <2>2, <4>1
    <3> QED
      BY <3>1, <3>2
  <2>4. Pre(h, j + 1)
    <3>1. \A p \in 0..(j + 1) - 1 : h[p + 5] = bit(p)
      BY ONLY <2>3, Zenon
    <3>2. h \in Seq({0, 1}) /\ Len(h) = 4 + (j + 1)
      BY <2>2
    <3> QED
      BY ONLY <3>1, <3>2, Zenon
  <2> QED
    BY <2>4 DEF h
<1>7. 0 \in S
  <2>1. Pre(g4, 0) /\ 4 + 0 = 4 /\ 0 \in 0..63
    BY <1>1
  <2> HIDE DEF Pre
  <2> QED
    BY <1>1, <2>1
<1> HIDE DEF Pre
<1>8. ASSUME NEW j \in 0..63 - 1, j \in S PROVE j + 1 \in S
  <2>1. PICK g : Pre(g, j) /\ f[4 + j] = At(j, g)
    BY <1>8
  <2>2. /\ j # 63 /\ j \in 0..63 /\ j + 1 \in 0..63 /\ 4 + j \in 0..67
        /\ 4 + (j + 1) = 4 + j + 1
    BY ONLY j \in 0..63 - 1
  <2>3. f[4 + (j + 1)] = read_eeprom(f[4 + j])
    <3>1. f[4 + j + 1] = read_eeprom(f[4 + j])
      BY ONLY <1>2, <2>2, Zenon
    <3> QED
      BY ONLY <2>2, <3>1, Zenon
  <2>4. f[4 + (j + 1)] = At(j + 1, Append(g, bit(j)))
    BY <1>5, <2>1, <2>2, <2>3, Zenon DEF At
  <2>5. Pre(Append(g, bit(j)), j + 1)
    BY <1>6, <2>1, <2>2
  <2> QED
    BY <2>2, <2>4, <2>5, Zenon
<1> HIDE DEF S
<1>9. 63 \in S
  <2>1. \A j \in 0..63 : j \in S
    BY <1>7, <1>8, UpTo
  <2> QED
    BY <2>1
<1>10. PICK g : Pre(g, 63) /\ f[67] = At(63, g)
  <2>1. 4 + 63 = 67
    OBVIOUS
  <2> QED
    BY <1>9, <2>1 DEF S
<1>11. 63 \in 0..63 /\ 63 + 1 = 64 /\ 67 \in 0..67 /\ 67 + 1 = 68
  OBVIOUS
<1>12. f[68] = Fields(s, BaseM, l, a, 0, b, mm, u, Append(g, bit(63)))
  <2>1. f[68] = read_eeprom(f[67])
    <3>1. f[67 + 1] = read_eeprom(f[67])
      BY ONLY <1>2, <1>11, Zenon
    <3> QED
      BY ONLY <1>11, <3>1, Zenon
  <2> QED
    <3>1. read_eeprom(At(63, g))
            = Fields(s, IF 63 = 63 THEN BaseM ELSE ReadM, l, a,
                IF 63 = 63 THEN 0 ELSE 63 + 1, b, mm, u, Append(g, bit(63)))
      BY <1>5, <1>11, ZenonT(60)
    <3> QED
      BY ONLY <1>10, <2>1, <3>1, Zenon
<1>13. \A p \in Positions : Append(g, bit(63))[p + 5] = bit(p)
  <2>1. Pre(Append(g, bit(63)), 64)
    BY <1>6, <1>10, <1>11
  <2>2. 64 - 1 = 63
    OBVIOUS
  <2> QED
    BY <2>1, <2>2 DEF Pre, Positions
<1> QED
  BY <1>12, <1>13, Zenon DEF s, l, a, b, mm, u, bit

-----------------------------------------------------------------------------
(* What the game sends, bit by bit: the command and the address, and after *)
(* them, the word.                                                         *)
Heading(w, c) == <<1, c>> \o AddressBits(w)

(* The address is sent with the highest bit first. *)
LEMMA AddressBitsOf ==
  ASSUME kind \in Sizes, NEW w \in Nat
  PROVE  /\ AddressBits(w) \in Seq({0, 1}) /\ Len(AddressBits(w)) = Width(kind)
         /\ \A i \in 1..Width(kind) :
              AddressBits(w)[i] = (w \div 2 ^ (Width(kind) - i)) % 2
<1> DEFINE n == Width(kind)
<1>1. n \in {6, 14}
  BY Zenon DEF Width
<1>2. AddressBits(w) = [i \in 1..n |-> (w \div 2 ^ (n - i)) % 2]
  BY Zenon DEF AddressBits, Width
<1> HIDE DEF n
<1>3. ASSUME NEW i \in 1..n PROVE (w \div 2 ^ (n - i)) % 2 \in {0, 1}
  <2> DEFINE e == n - i
  <2>1. e \in 0..13
    BY <1>1
  <2> HIDE DEF e
  <2>2. 2 ^ e \in Nat \ {0}
    <3>1. CASE e = 0
      BY ONLY <3>1, Powers
    <3>2. CASE e = 1
      BY ONLY <3>2, Powers
    <3>3. CASE e = 2
      BY ONLY <3>3, Powers
    <3>4. CASE e = 3
      BY ONLY <3>4, Powers
    <3>5. CASE e = 4
      BY ONLY <3>5, Powers
    <3>6. CASE e = 5
      BY ONLY <3>6, Powers
    <3>7. CASE e = 6
      BY ONLY <3>7, Powers
    <3>8. CASE e = 7
      BY ONLY <3>8, Powers
    <3>9. CASE e = 8
      BY ONLY <3>9, Powers
    <3>10. CASE e = 9
      BY ONLY <3>10, Powers
    <3>11. CASE e = 10
      BY ONLY <3>11, Powers
    <3>12. CASE e = 11
      BY ONLY <3>12, Powers
    <3>13. CASE e = 12
      BY ONLY <3>13, Powers
    <3>14. CASE e = 13
      BY ONLY <3>14, Powers
    <3>15. e = 0 \/ e = 1 \/ e = 2 \/ e = 3 \/ e = 4 \/ e = 5 \/ e = 6
           \/ e = 7 \/ e = 8 \/ e = 9 \/ e = 10 \/ e = 11 \/ e = 12 \/ e = 13
      BY ONLY <2>1
    <3> QED
      BY ONLY <3>1, <3>2, <3>3, <3>4, <3>5, <3>6, <3>7, <3>8, <3>9, <3>10, <3>11,
              <3>12, <3>13, <3>14, <3>15, Zenon
  <2> QED
    BY <2>2, BitRange DEF BitOf, e
<1>4. n \in Nat
  BY <1>1
<1> DEFINE A == [i \in 1..n |-> (w \div 2 ^ (n - i)) % 2]
<1>5. A \in [1..n -> {0, 1}]
  BY <1>3
<1>6. A \in Seq({0, 1}) /\ Len(A) = n
  <2> HIDE DEF A
  <2> QED
    BY <1>4, <1>5
<1> QED
  BY <1>2, <1>6 DEF n

(* A command and an address. *)
LEMMA HeadBits ==
  ASSUME kind \in Sizes, NEW w \in Nat, NEW c \in {0, 1}, NEW n, n = Width(kind)
  PROVE  /\ n \in {6, 14} /\ Heading(w, c) \in Seq({0, 1}) /\ Len(Heading(w, c)) = n + 2
         /\ Heading(w, c)[1] = 1 /\ Heading(w, c)[2] = c
         /\ \A p \in 0..n - 1 : Heading(w, c)[p + 3] = (w \div 2 ^ (n - (p + 1))) % 2
<1> DEFINE A == AddressBits(w)
           C == <<1, c>>
<1>1. n \in {6, 14}
  BY Zenon DEF Width
<1>2. A \in Seq({0, 1}) /\ Len(A) = n
      /\ \A i \in 1..n : A[i] = (w \div 2 ^ (n - i)) % 2
  BY AddressBitsOf
<1>3. C \in Seq({0, 1}) /\ Len(C) = 2 /\ C[1] = 1 /\ C[2] = c
  OBVIOUS
<1> HIDE DEF A, C
<1>4. /\ C \o A \in Seq({0, 1}) /\ Len(C \o A) = 2 + n
      /\ \A i \in 1..2 + n : (C \o A)[i] = IF i <= 2 THEN C[i] ELSE A[i - 2]
  <2>1. /\ C \o A \in Seq({0, 1}) /\ Len(C \o A) = Len(C) + Len(A)
        /\ \A i \in 1..Len(C) + Len(A) : (C \o A)[i] = IF i <= Len(C) THEN C[i] ELSE A[i - Len(C)]
    BY ONLY <1>2, <1>3, ConcatProperties
  <2>2. Len(C) = 2 /\ Len(A) = n
    BY ONLY <1>2, <1>3
  <2> QED
    BY ONLY <2>1, <2>2
<1> DEFINE H == C \o A
<1>5. H \in Seq({0, 1}) /\ Len(H) = n + 2 /\ H[1] = 1 /\ H[2] = c
  BY ONLY <1>1, <1>3, <1>4
<1>6. ASSUME NEW p \in 0..n - 1 PROVE H[p + 3] = (w \div 2 ^ (n - (p + 1))) % 2
  <2>1. p + 3 \in 1..2 + n /\ ~(p + 3 <= 2) /\ (p + 3) - 2 = p + 1 /\ p + 1 \in 1..n
    BY ONLY <1>1, p \in 0..n - 1
  <2>2. H[p + 3] = A[p + 1]
    BY ONLY <1>4, <2>1
  <2>3. A[p + 1] = (w \div 2 ^ (n - (p + 1))) % 2
    BY ONLY <1>2, <2>1, Zenon
  <2> QED
    BY ONLY <2>2, <2>3
<1>7. Heading(w, c) = H
  BY DEF Heading, A, C
<1> HIDE DEF H
<1> QED
  BY ONLY <1>1, <1>5, <1>6, <1>7, Zenon

(* A transfer that carries a command with the n bits of the address of w. *)
Carries(bits, w, n) ==
  /\ n \in {6, 14} /\ bits[1] = 1
  /\ \A p \in 0..n - 1 : bits[p + 3] = (w \div 2 ^ (n - (p + 1))) % 2

RequestOf(w) == <<1, 1>> \o AddressBits(w) \o <<0>>
WriteOf(w, v) == <<1, 0>> \o AddressBits(w) \o DataBits(v) \o <<0>>

(* The request for a word. *)
LEMMA RequestBits ==
  ASSUME kind \in Sizes, NEW w \in Nat
  PROVE  /\ Carries(RequestOf(w), w, Width(kind))
         /\ Len(RequestOf(w)) = Width(kind) + 3 /\ RequestOf(w)[2] = 1
<1> DEFINE n == Width(kind)
           bits == RequestOf(w)
<1>0. n = Width(kind)
  OBVIOUS
<1> HIDE DEF n
<1> DEFINE H == Heading(w, 1)
           E == <<0>>
<1>1. /\ n \in {6, 14} /\ H \in Seq({0, 1}) /\ Len(H) = n + 2
      /\ H[1] = 1 /\ H[2] = 1
      /\ \A p \in 0..n - 1 : H[p + 3] = (w \div 2 ^ (n - (p + 1))) % 2
  BY <1>0, HeadBits
<1>2. E \in Seq({0, 1}) /\ Len(E) = 1
  OBVIOUS
<1>3. bits = H \o E
  BY Zenon DEF Heading, RequestOf
<1> HIDE DEF H, E, bits
<1>4. /\ Len(bits) = n + 3
      /\ \A i \in 1..n + 2 : bits[i] = H[i]
  <2>1. /\ Len(H \o E) = Len(H) + Len(E)
        /\ \A i \in 1..Len(H) + Len(E) : (H \o E)[i] = IF i <= Len(H) THEN H[i] ELSE E[i - Len(H)]
    BY ONLY <1>1, <1>2, ConcatProperties
  <2>2. Len(H) = n + 2 /\ Len(E) = 1 /\ n \in {6, 14}
    BY ONLY <1>1, <1>2
  <2> QED
    BY ONLY <1>3, <2>1, <2>2
<1>5. ASSUME NEW p \in 0..n - 1 PROVE bits[p + 3] = H[p + 3]
  <2>1. p + 3 \in 1..n + 2
    BY ONLY <1>1, p \in 0..n - 1
  <2> QED
    BY ONLY <1>4, <2>1
<1>6. 1 \in 1..n + 2 /\ 2 \in 1..n + 2
  BY ONLY <1>1
<1> QED
  BY <1>0, <1>1, <1>4, <1>5, <1>6, Zenon DEF bits, Carries

(* The transfer that writes one. *)
LEMMA WriteBits ==
  ASSUME kind \in Sizes, NEW w \in Nat, NEW v \in SUBSET Positions
  PROVE  /\ Carries(WriteOf(w, v), w, Width(kind))
         /\ Len(WriteOf(w, v)) = Width(kind) + 67 /\ WriteOf(w, v)[2] = 0
         /\ WordOf(WriteOf(w, v), Width(kind)) = v
<1> DEFINE n == Width(kind)
           bits == WriteOf(w, v)
<1>0. n = Width(kind)
  OBVIOUS
<1> HIDE DEF n
<1> DEFINE H == Heading(w, 0)
           D == DataBits(v)
           E == <<0>>
<1>1. /\ n \in {6, 14} /\ H \in Seq({0, 1}) /\ Len(H) = n + 2
      /\ H[1] = 1 /\ H[2] = 0
      /\ \A p \in 0..n - 1 : H[p + 3] = (w \div 2 ^ (n - (p + 1))) % 2
  BY <1>0, HeadBits
<1>2. E \in Seq({0, 1}) /\ Len(E) = 1
  OBVIOUS
<1>3. D \in Seq({0, 1}) /\ Len(D) = 64 /\ \A p \in 0..63 : D[p + 1] = 1 <=> p \in v
  <2>1. D \in [1..64 -> {0, 1}]
    BY DEF DataBits
  <2>2. ASSUME NEW p \in 0..63 PROVE D[p + 1] = 1 <=> p \in v
    <3>1. p + 1 \in 1..64 /\ (p + 1) - 1 = p
      OBVIOUS
    <3> QED
      BY <3>1 DEF DataBits
  <2> HIDE DEF D
  <2>3. D \in Seq({0, 1}) /\ Len(D) = 64
    <3>1. ASSUME NEW k \in Nat, NEW d \in [1..k -> {0, 1}]
          PROVE  d \in Seq({0, 1}) /\ Len(d) = k
      OBVIOUS
    <3>2. 64 \in Nat
      OBVIOUS
    <3> QED
      BY ONLY <2>1, <3>1, <3>2, Zenon
  <2> QED
    BY <2>2, <2>3
<1>4. bits = H \o D \o E
  BY Zenon DEF Heading, WriteOf
<1> HIDE DEF H, D, E, bits
<1> DEFINE HD == H \o D
<1>5. /\ HD \in Seq({0, 1}) /\ Len(HD) = n + 66
      /\ \A i \in 1..n + 66 : HD[i] = IF i <= n + 2 THEN H[i] ELSE D[i - (n + 2)]
  <2>1. /\ H \o D \in Seq({0, 1}) /\ Len(H \o D) = Len(H) + Len(D)
        /\ \A i \in 1..Len(H) + Len(D) : (H \o D)[i] = IF i <= Len(H) THEN H[i] ELSE D[i - Len(H)]
    BY ONLY <1>1, <1>3, ConcatProperties, ZenonT(60)
  <2>2. Len(H) = n + 2 /\ Len(D) = 64 /\ n \in {6, 14} /\ Len(H) + Len(D) = n + 66
    BY ONLY <1>1, <1>3
  <2> QED
    BY ONLY <2>1, <2>2
<1>6. bits = HD \o E
  BY <1>4, Zenon
<1> HIDE DEF HD
<1>7. /\ Len(bits) = n + 67
      /\ \A i \in 1..n + 66 : bits[i] = HD[i]
  <2>1. /\ Len(HD \o E) = Len(HD) + Len(E)
        /\ \A i \in 1..Len(HD) + Len(E) :
             (HD \o E)[i] = IF i <= Len(HD) THEN HD[i] ELSE E[i - Len(HD)]
    BY ONLY <1>2, <1>5, ConcatProperties
  <2>2. Len(HD) = n + 66 /\ Len(E) = 1 /\ n \in {6, 14}
    BY ONLY <1>1, <1>2, <1>5
  <2> QED
    BY ONLY <1>6, <2>1, <2>2
<1>8. \A i \in 1..n + 2 : bits[i] = H[i]
  <2>1. n \in {6, 14}
    BY <1>1
  <2> QED
    BY ONLY <1>5, <1>7, <2>1
<1>9. ASSUME NEW p \in 0..n - 1 PROVE bits[p + 3] = H[p + 3]
  <2>1. p + 3 \in 1..n + 2
    BY ONLY <1>1, p \in 0..n - 1
  <2> QED
    BY ONLY <1>8, <2>1
<1>10. ASSUME NEW p \in 0..63 PROVE bits[n + 2 + p + 1] = D[p + 1]
  <2> DEFINE i == n + 2 + p + 1
  <2>1. i \in 1..n + 66 /\ ~(i <= n + 2) /\ i - (n + 2) = p + 1
    BY ONLY <1>1, p \in 0..63
  <2> HIDE DEF i
  <2>2. bits[i] = D[p + 1]
    BY ONLY <1>5, <1>7, <2>1
  <2> QED
    BY <2>2 DEF i
<1>11. WordOf(bits, n) = v
  <2>1. \A p \in 0..63 : bits[n + 2 + p + 1] = 1 <=> p \in v
    BY ONLY <1>3, <1>10, ZenonT(60)
  <2>2. v \subseteq 0..63
    BY DEF Positions
  <2> QED
    BY ONLY <2>1, <2>2 DEF WordOf
<1>12. 1 \in 1..n + 2 /\ 2 \in 1..n + 2
  BY ONLY <1>1
<1> QED
  BY <1>0, <1>1, <1>7, <1>8, <1>9, <1>11, <1>12, Zenon DEF bits, Carries

(* The chip of the game's size decodes the address of the word. *)
LEMMA Decoded ==
  ASSUME kind \in Sizes, NEW w \in WordsOf[kind], NEW bits, NEW n, n = Width(kind),
         Carries(bits, w, n)
  PROVE  \A c : c.eeprom_size = kind
                  => Decode(c, {p \in 0..n - 1 : bits[p + 3] = 1}) = 8 * w
<1> USE DEF Carries
<1> SUFFICES ASSUME NEW c, c.eeprom_size = kind
             PROVE  Decode(c, {p \in 0..n - 1 : bits[p + 3] = 1}) = 8 * w
  OBVIOUS
<1> DEFINE buffer == {p \in 0..n - 1 : bits[p + 3] = 1}
<1>1. CASE kind = "512B"
  <2>1. n = 6 /\ n - 1 = 5
    BY <1>1 DEF Width
  <2>2. w \in 0..63
    BY <1>1, EepromAssumption
  <2>3. buffer = {p \in 0..5 : (w \div 2 ^ (6 - (p + 1))) % 2 = 1}
    BY <2>1
  <2>4. c.eeprom_size = "512B"
    BY <1>1
  <2> HIDE DEF buffer
  <2> QED
    BY ONLY <2>2, <2>3, <2>4, DecodeSmall DEF buffer
<1>2. CASE kind = "8KB"
  <2>1. n = 14 /\ n - 1 = 13
    BY <1>2 DEF Width
  <2>2. w \in 0..1023
    BY <1>2, EepromAssumption
  <2>3. buffer = {p \in 0..13 : (w \div 2 ^ (14 - (p + 1))) % 2 = 1}
    BY <2>1
  <2>4. c.eeprom_size = "8KB"
    BY <1>2
  <2> HIDE DEF buffer
  <2> QED
    BY ONLY <2>2, <2>3, <2>4, DecodeLarge DEF buffer
<1> QED
  BY <1>1, <1>2 DEF Sizes

-----------------------------------------------------------------------------
(* A chip of a game for the chip k that has asked for the word w, or for   *)
(* nothing: between two transfers it is in one of two modes, with nothing  *)
(* in its buffer. Only the chip of an 8KB game is taken for a 512B one,    *)
(* after a reset and until its first command.                              *)
Sound(k, c, w) ==
  /\ c \in Chips /\ c.eeprom_buffer = {} /\ c.eeprom_counter = 0
  /\ k = "512B" => c.eeprom_size = "512B"
  /\ w \in WordsOf[k] \cup {Nothing}
  /\ w = Nothing => c.eeprom_mode = BaseM
  /\ w # Nothing => c.eeprom_mode = HeaderM /\ c.eeprom_address = 8 * w

(* The inductive invariant. TypeOK says of the words which they may be, but *)
(* not that they are those the game wrote; and what a savestate brings back *)
(* is a chip in step with the game only if it was in step when it was saved. *)
IInv ==
  /\ kind \in Sizes
  /\ Sound(kind, chip, waiting)
  /\ snap = Nothing \/ Sound(kind, snap.chip, snap.waiting)
  /\ mem \in [WordsOf[kind] -> Values \cup {Blank}]
  /\ written = mem
  /\ backup_update \in {"idle", "set"}
  /\ answer = Nothing \/ answer \in Values \cup {Blank}

(* The words of a game are numbers. *)
LEMMA WordsAreNumbers ==
  ASSUME kind \in Sizes
  PROVE  /\ WordsOf[kind] \subseteq Nat /\ Nothing \notin WordsOf[kind]
         /\ WordsOf[kind] \subseteq AllWords
         /\ Values \cup {Blank} \subseteq SUBSET Positions
BY EepromAssumption DEF Sizes, AllWords, Blank

(* A chip is its fields. *)
LEMMA ChipFields ==
  ASSUME NEW c \in Chips
  PROVE  c = [eeprom_size |-> c.eeprom_size, eeprom_mode |-> c.eeprom_mode,
              eeprom_address_length |-> c.eeprom_address_length,
              eeprom_address |-> c.eeprom_address, eeprom_counter |-> c.eeprom_counter,
              eeprom_buffer |-> c.eeprom_buffer]
BY DEF Chips

(* A machine is a chip and what comes with it. *)
LEMMA MachineIs ==
  ASSUME NEW c \in Chips, NEW mm, NEW u, NEW g
  PROVE  LET m == [chip |-> c, mem |-> mm, update |-> u, got |-> g]
         IN Shape(m) /\ m.chip = c /\ m.mem = mm /\ m.update = u /\ m.got = g
<1> DEFINE m == [chip |-> c, mem |-> mm, update |-> u, got |-> g]
           s == c.eeprom_size
           md == c.eeprom_mode
           l == c.eeprom_address_length
           a == c.eeprom_address
           n == c.eeprom_counter
           b == c.eeprom_buffer
<1>1. c = [eeprom_size |-> s, eeprom_mode |-> md, eeprom_address_length |-> l,
           eeprom_address |-> a, eeprom_counter |-> n, eeprom_buffer |-> b]
  BY ChipFields
<1>2. m.chip = c /\ m.mem = mm /\ m.update = u /\ m.got = g
  OBVIOUS
<1>3. m = Fields(s, md, l, a, n, b, mm, u, g)
  BY <1>1, Zenon DEF Fields
<1> HIDE DEF m
<1>4. Shape(m)
  BY <1>2, <1>3, Zenon DEF Shape
<1> QED
  BY <1>2, <1>4 DEF m

(* The first command after a reset tells the size of the chip, by its length. *)
LEMMA Detected ==
  ASSUME NEW k \in Sizes, NEW c \in Chips, k = "512B" => c.eeprom_size = "512B",
         NEW n \in Nat, (n % 32 = 17) <=> k = "8KB"
  PROVE  /\ Detect(c, n) \in Chips /\ Detect(c, n).eeprom_size = k
         /\ Detect(c, n).eeprom_mode = c.eeprom_mode
         /\ Detect(c, n).eeprom_address = c.eeprom_address
         /\ Detect(c, n).eeprom_counter = c.eeprom_counter
         /\ Detect(c, n).eeprom_buffer = c.eeprom_buffer
<1>1. CASE k = "8KB"
  <2>1. Detect(c, n) = [c EXCEPT !.eeprom_size = "8KB"]
    BY <1>1 DEF Detect
  <2>2. [c EXCEPT !.eeprom_size = "8KB"] \in Chips
    BY DEF Chips, Sizes
  <2>3. LET d == [c EXCEPT !.eeprom_size = "8KB"]
        IN /\ d.eeprom_size = "8KB" /\ d.eeprom_mode = c.eeprom_mode
           /\ d.eeprom_address = c.eeprom_address
           /\ d.eeprom_counter = c.eeprom_counter /\ d.eeprom_buffer = c.eeprom_buffer
    BY DEF Chips
  <2> QED
    BY <1>1, <2>1, <2>2, <2>3, Zenon
<1>2. CASE k = "512B"
  BY <1>2 DEF Detect
<1> QED
  BY <1>1, <1>2 DEF Sizes

(* The machine that a transfer of n bits meets. *)
Met(n) == [Machine EXCEPT !.chip = Detect(@, n)]
(* Between two transfers it is ready for a command, with the right size. *)
LEMMA MachineMet ==
  ASSUME IInv, waiting = Nothing, NEW n \in Nat, (n % 32 = 17) <=> kind = "8KB"
  PROVE  /\ Shape(Met(n)) /\ Met(n).chip.eeprom_size = kind
         /\ Met(n).chip.eeprom_mode = BaseM /\ Met(n).chip.eeprom_counter = 0
         /\ Met(n).chip.eeprom_buffer = {} /\ Met(n).mem = mem
         /\ Met(n).update = backup_update /\ Met(n).got = <<>>
<1> DEFINE d == Detect(chip, n)
           m == [chip |-> d, mem |-> mem, update |-> backup_update, got |-> <<>>]
<1>1. /\ kind \in Sizes /\ chip \in Chips
      /\ (kind = "512B" => chip.eeprom_size = "512B")
      /\ chip.eeprom_counter = 0 /\ chip.eeprom_buffer = {} /\ chip.eeprom_mode = BaseM
  BY Zenon DEF IInv, Sound
<1>2. /\ d \in Chips /\ d.eeprom_size = kind /\ d.eeprom_mode = chip.eeprom_mode
      /\ d.eeprom_counter = chip.eeprom_counter /\ d.eeprom_buffer = chip.eeprom_buffer
  BY <1>1, Detected
<1> HIDE DEF d
<1>3. Shape(m) /\ m.chip = d /\ m.mem = mem /\ m.update = backup_update /\ m.got = <<>>
  BY <1>2, MachineIs, Zenon
<1>4. Met(n) = m
  BY DEF Met, Machine, d
<1> HIDE DEF m
<1> QED
  BY <1>1, <1>2, <1>3, <1>4, Zenon

-----------------------------------------------------------------------------
(* What each operation of the game does to the chip, the memory and the game. *)

(* A chip that a transfer leaves. *)
LEMMA LeftSound ==
  ASSUME NEW k \in Sizes, NEW s \in Sizes, k = "512B" => s = "512B",
         NEW md, NEW l \in {0, 6, 14}, NEW a \in Nat, NEW mm, NEW u, NEW g,
         NEW w \in WordsOf[k] \cup {Nothing},
         w = Nothing => md = BaseM, w # Nothing => md = HeaderM /\ a = 8 * w
  PROVE  Sound(k, Fields(s, md, l, a, 0, {}, mm, u, g).chip, w)
<1> DEFINE c == Fields(s, md, l, a, 0, {}, mm, u, g).chip
<1>1. c = [eeprom_size |-> s, eeprom_mode |-> md, eeprom_address_length |-> l,
           eeprom_address |-> a, eeprom_counter |-> 0, eeprom_buffer |-> {}]
  BY Zenon DEF Fields
<1> HIDE DEF c
<1>2. /\ c.eeprom_size = s /\ c.eeprom_mode = md /\ c.eeprom_address = a
      /\ c.eeprom_counter = 0 /\ c.eeprom_buffer = {}
  BY <1>1
<1>3. md \in {"base", "read header"}
  BY Zenon DEF BaseM, HeaderM
<1>4. c \in Chips
  <2>1. md \in Modes
    BY <1>3 DEF Modes
  <2>2. 0 \in 0..63 /\ {} \in SUBSET (0..15)
    OBVIOUS
  <2> HIDE DEF Modes
  <2> QED
    BY <1>1, <2>1, <2>2 DEF Chips
<1>5. Sound(k, c, w)
  BY <1>2, <1>4, Zenon DEF Sound
<1> QED
  BY <1>5 DEF c

(* After a request the chip is about to send the word. *)
LEMMA Requested ==
  ASSUME IInv, NEW w \in WordsOf[kind], Request(w)
  PROVE  Sound(kind, chip', w) /\ mem' = mem /\ backup_update' = backup_update
<1> DEFINE bits == RequestOf(w)
           n == Width(kind)
           m == Met(Len(bits))
           after == Fields(kind, HeaderM, n, 8 * w, 0, {}, mem, backup_update, <<>>)
<1>1. kind \in Sizes /\ w \in Nat /\ w # Nothing /\ waiting = Nothing
  <2>1. kind \in Sizes /\ waiting = Nothing
    BY Zenon DEF IInv, Request
  <2> QED
    BY <2>1, WordsAreNumbers
<1>2. Becomes(Received(m, bits))
  BY Zenon DEF Request, Send, Met, RequestOf
<1>a. n = Width(kind) /\ bits = RequestOf(w)
  BY Zenon
<1> HIDE DEF bits, n
<1>b. Carries(bits, w, n) /\ Len(bits) = n + 3 /\ bits[2] = 1
  BY ONLY <1>a, <1>1, RequestBits, Zenon
<1>3. n \in {6, 14} /\ Len(bits) = n + 3 /\ bits[1] = 1 /\ bits[2] = 1
  BY ONLY <1>b, Zenon DEF Carries
<1>4. Len(bits) \in Nat /\ ((Len(bits) % 32 = 17) <=> kind = "8KB") /\ n \in Nat \ {0}
  <2>1. kind = "8KB" => n = 14
    BY ONLY Zenon DEF n, Width
  <2>2. kind = "512B" => n = 6
    BY ONLY Zenon DEF n, Width
  <2>3. kind = "8KB" \/ kind = "512B"
    BY <1>1 DEF Sizes
  <2>5. n \in Nat \ {0} /\ n + 3 \in Nat
    BY ONLY <1>3
  <2>7. ((n + 3) % 32 = 17) <=> kind = "8KB"
    <3>1. CASE n = 14 /\ kind = "8KB"
      BY ONLY <3>1
    <3>2. CASE n = 6 /\ kind = "512B"
      BY ONLY <3>2
    <3> QED
      BY ONLY <2>1, <2>2, <2>3, <3>1, <3>2, Zenon
  <2> QED
    BY ONLY <1>3, <2>5, <2>7, Zenon
<1>5. /\ Shape(m) /\ m.chip.eeprom_size = kind
      /\ m.chip.eeprom_mode = BaseM /\ m.chip.eeprom_counter = 0
      /\ m.chip.eeprom_buffer = {} /\ m.mem = mem
      /\ m.update = backup_update /\ m.got = <<>>
  BY <1>1, <1>4, MachineMet, Zenon
<1> HIDE DEF m
<1>6. \A c : c.eeprom_size = kind => Decode(c, {p \in 0..n - 1 : bits[p + 3] = 1}) = 8 * w
  BY ONLY <1>a, <1>b, <1>1, w \in WordsOf[kind], Decoded
<1>7. Received(m, bits) = after
  <2>1. Received(m, bits)
          = Fields(m.chip.eeprom_size, HeaderM, n, 8 * w, 0, {}, m.mem, m.update, m.got)
    <3>1. n = Width(m.chip.eeprom_size)
      BY ONLY <1>5, Zenon DEF n
    <3>2. \A c : c.eeprom_size = m.chip.eeprom_size
                   => Decode(c, {p \in 0..n - 1 : bits[p + 3] = 1}) = 8 * w
      BY ONLY <1>5, <1>6, Zenon
    <3>3. CommandComes(m, bits, w, n)
      BY ONLY <1>1, <1>3, <1>4, <1>5, <3>1, <3>2, Zenon DEF CommandComes
    <3> QED
      BY ONLY <1>3, <3>3, RequestReceived, Zenon
  <2> QED
    BY ONLY <1>5, <2>1, Zenon
<1>8. chip' = after.chip /\ mem' = after.mem /\ backup_update' = after.update
  BY ONLY <1>2, <1>7, Zenon DEF Becomes
<1>9. after.mem = mem /\ after.update = backup_update
  BY ONLY Zenon DEF Fields
<1>10. Sound(kind, after.chip, w)
  <2>1. 8 * w \in Nat /\ n \in {0, 6, 14}
    BY ONLY <1>1, <1>3
  <2>2. w \in WordsOf[kind] \cup {Nothing}
    OBVIOUS
  <2> QED
    BY ONLY <1>1, <1>3, <2>1, <2>2, LeftSound, Zenon
<1> QED
  BY ONLY <1>8, <1>9, <1>10, Zenon

(* After a write the memory has the word, and the write-back is scheduled. *)
LEMMA WordWritten ==
  ASSUME IInv, NEW w \in WordsOf[kind], NEW v \in Values, WriteWord(w, v)
  PROVE  /\ Sound(kind, chip', Nothing) /\ backup_update' = "set"
         /\ mem' = [mem EXCEPT ![w] = v]
<1> DEFINE bits == WriteOf(w, v)
           n == Width(kind)
           m == Met(Len(bits))
           W == WordsOf[kind]
           word == WordOf(bits, n)
           full == Stored(mem, W, w, word)
           after == Fields(kind, BaseM, n, 8 * w, 0, {}, full, Scheduled, <<>>)
<1>1. kind \in Sizes /\ w \in Nat /\ waiting = Nothing
  <2>1. kind \in Sizes /\ waiting = Nothing
    BY Zenon DEF IInv, WriteWord
  <2> QED
    BY <2>1, WordsAreNumbers
<1>2. Becomes(Received(m, bits))
  BY Zenon DEF WriteWord, Send, Met, WriteOf
<1>0. /\ mem \in [W -> Values \cup {Blank}] /\ mem \in [W -> SUBSET Positions]
      /\ v \in SUBSET Positions /\ w \in W
  <2>1. Values \cup {Blank} \subseteq SUBSET Positions
    BY <1>1, WordsAreNumbers
  <2> QED
    BY <2>1 DEF IInv
<1>a. n = Width(kind) /\ bits = WriteOf(w, v)
      /\ w \in WordsOf[kind]
  BY Zenon
<1> HIDE DEF bits, n, W
<1>b. Carries(bits, w, n) /\ Len(bits) = n + 67 /\ bits[2] = 0 /\ word = v
  BY ONLY <1>a, <1>0, <1>1, WriteBits, Zenon
<1>3. n \in {6, 14} /\ Len(bits) = n + 67 /\ bits[1] = 1 /\ bits[2] = 0 /\ word = v
  BY ONLY <1>b, Zenon DEF Carries
<1> HIDE DEF word, full
<1>4. Len(bits) \in Nat /\ ((Len(bits) % 32 = 17) <=> kind = "8KB") /\ n \in Nat \ {0}
  <2>1. kind = "8KB" => n = 14
    BY ONLY Zenon DEF n, Width
  <2>2. kind = "512B" => n = 6
    BY ONLY Zenon DEF n, Width
  <2>3. kind = "8KB" \/ kind = "512B"
    BY <1>1 DEF Sizes
  <2>5. n \in Nat \ {0} /\ n + 67 \in Nat
    BY ONLY <1>3
  <2>7. ((n + 67) % 32 = 17) <=> kind = "8KB"
    <3>1. CASE n = 14 /\ kind = "8KB"
      BY ONLY <3>1
    <3>2. CASE n = 6 /\ kind = "512B"
      BY ONLY <3>2
    <3> QED
      BY ONLY <2>1, <2>2, <2>3, <3>1, <3>2, Zenon
  <2> QED
    BY ONLY <1>3, <2>5, <2>7, Zenon
<1>5. /\ Shape(m) /\ m.chip.eeprom_size = kind
      /\ m.chip.eeprom_mode = BaseM /\ m.chip.eeprom_counter = 0
      /\ m.chip.eeprom_buffer = {} /\ m.mem = mem
      /\ m.update = backup_update /\ m.got = <<>>
  BY <1>1, <1>4, MachineMet, Zenon
<1> HIDE DEF m
<1>6. \A c : c.eeprom_size = kind => Decode(c, {p \in 0..n - 1 : bits[p + 3] = 1}) = 8 * w
  BY ONLY <1>a, <1>b, <1>1, Decoded
<1>7. Received(m, bits) = after
  <2>1. Received(m, bits)
          = Fields(m.chip.eeprom_size, BaseM, n, 8 * w, 0, {},
              Stored(m.mem, W, w, WordOf(bits, n)), Scheduled, m.got)
    <3>1. n = Width(m.chip.eeprom_size) /\ m.mem \in [W -> SUBSET Positions]
      BY ONLY <1>0, <1>5, Zenon DEF n
    <3>2. \A c : c.eeprom_size = m.chip.eeprom_size
                   => Decode(c, {p \in 0..n - 1 : bits[p + 3] = 1}) = 8 * w
      BY ONLY <1>5, <1>6, Zenon
    <3>3. CommandComes(m, bits, w, n)
      BY ONLY <1>1, <1>3, <1>4, <1>5, <3>1, <3>2, Zenon DEF CommandComes
    <3> QED
      BY ONLY <1>0, <1>3, <3>1, <3>3, WordReceived
  <2> QED
    BY ONLY <1>5, <2>1, Zenon DEF full, word
<1>8. chip' = after.chip /\ mem' = after.mem /\ backup_update' = after.update
  BY ONLY <1>2, <1>7, Zenon DEF Becomes
<1>9. after.mem = full /\ after.update = Scheduled
  BY ONLY Zenon DEF Fields
<1>10. Sound(kind, after.chip, Nothing)
  <2>1. 8 * w \in Nat /\ n \in {0, 6, 14}
    BY ONLY <1>1, <1>3
  <2>2. Nothing \in WordsOf[kind] \cup {Nothing}
    OBVIOUS
  <2> QED
    BY ONLY <1>1, <1>3, <2>1, <2>2, LeftSound, Zenon
<1>11. full = [mem EXCEPT ![w] = v]
  BY ONLY <1>0, <1>3 DEF full, Stored
<1> QED
  BY ONLY <1>8, <1>9, <1>10, <1>11, Zenon DEF Scheduled

(* The machine that a transfer which reads meets. *)
LEMMA MachineNow ==
  ASSUME IInv
  PROVE  /\ Shape(Machine) /\ Machine.chip = chip /\ Machine.mem = mem
         /\ Machine.update = backup_update /\ Machine.got = <<>>
<1>1. chip \in Chips
  BY Zenon DEF IInv, Sound
<1> QED
  BY <1>1, MachineIs, Zenon DEF Machine

(* After a fetch the game has the word and the chip waits for a command. *)
LEMMA WordFetched ==
  ASSUME IInv, Fetch
  PROVE  /\ Sound(kind, chip', Nothing) /\ mem' = mem /\ backup_update' = backup_update
         /\ waiting \in WordsOf[kind] /\ answer' = mem[waiting]
<1> DEFINE w == waiting
           word == mem[w]
           m == Fetched(68)
<1>1. /\ kind \in Sizes /\ chip \in Chips /\ chip.eeprom_buffer = {} /\ chip.eeprom_counter = 0
      /\ (kind = "512B" => chip.eeprom_size = "512B")
      /\ chip.eeprom_mode = HeaderM /\ chip.eeprom_address = 8 * w /\ w \in WordsOf[kind]
  <2>1. w # Nothing
    BY Zenon DEF Fetch
  <2> QED
    BY <2>1, Zenon DEF IInv, Sound
<1>2. w \in Nat /\ word \in SUBSET Positions /\ w \in DOMAIN mem
  <2>1. mem \in [WordsOf[kind] -> Values \cup {Blank}]
    BY Zenon DEF IInv
  <2>2. Values \cup {Blank} \subseteq SUBSET Positions /\ WordsOf[kind] \subseteq Nat
    BY <1>1, WordsAreNumbers
  <2> QED
    BY ONLY <1>1, <2>1, <2>2
<1>3. chip.eeprom_size \in Sizes /\ chip.eeprom_address_length \in {0, 6, 14}
  BY ONLY <1>1 DEF Chips
<1>4. PICK f : /\ f[0] = Machine
               /\ \A i \in 1..68 : f[i] = read_eeprom(f[i - 1])
               /\ m = f[68]
  <2>1. 68 \in Nat
    OBVIOUS
  <2> QED
    BY ONLY <2>1, FetchedRun, Zenon
<1>5. \A i \in 0..67 : f[i + 1] = read_eeprom(f[i])
  <2> SUFFICES ASSUME NEW i \in 0..67 PROVE f[i + 1] = read_eeprom(f[i])
    OBVIOUS
  <2> DEFINE j == i + 1
  <2>1. j \in 1..68 /\ j - 1 = i
    BY ONLY i \in 0..67
  <2> HIDE DEF j
  <2>2. f[j] = read_eeprom(f[j - 1])
    BY ONLY <1>4, <2>1, Zenon
  <2> QED
    BY ONLY <2>1, <2>2, Zenon DEF j
<1>6. /\ Shape(f[0]) /\ f[0].chip = chip /\ f[0].mem = mem
      /\ f[0].update = backup_update /\ f[0].got = <<>>
  BY <1>4, MachineNow, Zenon
<1>7. WordLeaves(f, w)
  BY ONLY <1>1, <1>2, <1>5, <1>6, Zenon DEF WordLeaves
<1>8. Content(f[0], w) = word
  BY ONLY <1>2, <1>6, Zenon DEF Content
<1> HIDE DEF word, w
<1>9. PICK g : /\ \A p \in Positions : g[p + 5] = IF p \in word THEN 1 ELSE 0
               /\ f[68] = Fields(f[0].chip.eeprom_size, BaseM, f[0].chip.eeprom_address_length,
                            8 * w, 0, f[0].chip.eeprom_buffer, f[0].mem, f[0].update, g)
  BY ONLY <1>7, <1>8, WordSent
<1> DEFINE after == Fields(chip.eeprom_size, BaseM, chip.eeprom_address_length, 8 * w, 0, {},
                      mem, backup_update, g)
<1>10. m = after
  BY ONLY <1>1, <1>4, <1>6, <1>9, Zenon
<1>11. after.mem = mem /\ after.update = backup_update /\ after.got = g
  BY ONLY Zenon DEF Fields
<1>12. Sound(kind, after.chip, Nothing)
  <2>1. 8 * w \in Nat
    BY ONLY <1>2
  <2>2. Nothing \in WordsOf[kind] \cup {Nothing}
    OBVIOUS
  <2> QED
    BY ONLY <1>1, <1>3, <2>1, <2>2, LeftSound, Zenon
<1> HIDE DEF m, after
<1>13. Becomes(m) /\ answer' = {p \in Positions : m.got[p + 5] = 1}
  BY Zenon DEF Fetch, m
<1>14. chip' = after.chip /\ mem' = mem /\ backup_update' = backup_update
  BY ONLY <1>10, <1>11, <1>13, Zenon DEF Becomes
<1>15. answer' = word
  <2>1. answer' = {p \in Positions : g[p + 5] = 1}
    BY ONLY <1>10, <1>11, <1>13, Zenon
  <2>2. \A p \in Positions : g[p + 5] = 1 <=> p \in word
    BY ONLY <1>9
  <2>3. word \subseteq Positions
    BY ONLY <1>2
  <2>4. {p \in Positions : g[p + 5] = 1} = word
    BY ONLY <2>2, <2>3
  <2> QED
    BY ONLY <2>1, <2>4, Zenon
<1> QED
  BY <1>1, <1>12, <1>14, <1>15, Zenon DEF w, word

(* A reset leaves a chip that waits for a command. *)
LEMMA ResetSound ==
  ASSUME NEW k \in Sizes, NEW c, NEW w, Sound(k, c, w)
  PROVE  Sound(k, ResetChip(c), Nothing)
<1> DEFINE d == ResetChip(c)
<1>1. c \in Chips /\ c.eeprom_buffer = {}
  BY Zenon DEF Sound
<1>2. d = [eeprom_size |-> "512B", eeprom_mode |-> "base",
           eeprom_address_length |-> c.eeprom_address_length, eeprom_address |-> 0,
           eeprom_counter |-> 0, eeprom_buffer |-> c.eeprom_buffer]
  <2> DEFINE s == c.eeprom_size
             md == c.eeprom_mode
             l == c.eeprom_address_length
             a == c.eeprom_address
             n == c.eeprom_counter
             b == c.eeprom_buffer
             R(s2, md2, a2, n2) ==
               [eeprom_size |-> s2, eeprom_mode |-> md2, eeprom_address_length |-> l,
                eeprom_address |-> a2, eeprom_counter |-> n2, eeprom_buffer |-> b]
  <2>1. c = R(s, md, a, n)
    BY <1>1, ChipFields
  <2> HIDE DEF s, md, l, a, n, b
  <2>2. [c EXCEPT !.eeprom_size = "512B"] = R("512B", md, a, n)
    BY ONLY <2>1
  <2>3. [R("512B", md, a, n) EXCEPT !.eeprom_mode = "base"] = R("512B", "base", a, n)
    BY ONLY TRUE
  <2>4. [R("512B", "base", a, n) EXCEPT !.eeprom_address = 0] = R("512B", "base", 0, n)
    BY ONLY TRUE
  <2>5. [R("512B", "base", 0, n) EXCEPT !.eeprom_counter = 0] = R("512B", "base", 0, 0)
    BY ONLY TRUE
  <2> HIDE DEF R
  <2>6. d = R("512B", "base", 0, 0)
    BY ONLY <2>2, <2>3, <2>4, <2>5, Zenon DEF d, ResetChip
  <2> QED
    BY ONLY <2>6, Zenon DEF R, l, b
<1>3. c.eeprom_address_length \in {0, 6, 14} /\ c.eeprom_buffer \in SUBSET (0..15)
  BY ONLY <1>1 DEF Chips
<1> HIDE DEF d
<1>4. /\ d.eeprom_size = "512B" /\ d.eeprom_mode = BaseM /\ d.eeprom_counter = 0
      /\ d.eeprom_buffer = {}
  BY <1>1, <1>2 DEF BaseM
<1>5. d \in Chips
  <2>1. "512B" \in Sizes /\ "base" \in Modes /\ 0 \in Nat /\ 0 \in 0..63
    BY DEF Sizes, Modes
  <2> QED
    BY ONLY <1>2, <1>3, <2>1 DEF Chips
<1>6. Nothing \in WordsOf[k] \cup {Nothing}
  OBVIOUS
<1>7. Sound(k, d, Nothing)
  BY ONLY <1>4, <1>5, <1>6, Zenon DEF Sound
<1> QED
  BY <1>7 DEF d

-----------------------------------------------------------------------------
(* The invariant is inductive. *)
LEMMA InitInv == Init => IInv
<1> SUFFICES ASSUME Init PROVE IInv
  OBVIOUS
<1>1. kind \in Sizes /\ chip = InitChip /\ waiting = Nothing /\ snap = Nothing
      /\ answer = Nothing /\ backup_update = "idle" /\ written = mem
      /\ mem = [w \in WordsOf[kind] |-> Blank]
  BY DEF Init
<1>2. Sound(kind, chip, waiting)
  <2>1. InitChip \in Chips
    BY DEF InitChip, Chips, Sizes, Modes
  <2>2. /\ InitChip.eeprom_size = "512B" /\ InitChip.eeprom_mode = BaseM
        /\ InitChip.eeprom_counter = 0 /\ InitChip.eeprom_buffer = {}
    BY DEF InitChip, BaseM
  <2>3. Nothing \in WordsOf[kind] \cup {Nothing}
    OBVIOUS
  <2> QED
    BY ONLY <1>1, <2>1, <2>2, <2>3, Zenon DEF Sound
<1>3. mem \in [WordsOf[kind] -> Values \cup {Blank}]
  BY ONLY <1>1
<1> QED
  BY <1>1, <1>2, <1>3 DEF IInv

(* Each operation preserves it. *)
LEMMA NextInv == IInv /\ [Next]_vars => IInv'
<1> SUFFICES ASSUME IInv, [Next]_vars PROVE IInv'
  OBVIOUS
<1>1. /\ kind \in Sizes /\ Sound(kind, chip, waiting)
      /\ (snap = Nothing \/ Sound(kind, snap.chip, snap.waiting))
      /\ mem \in [WordsOf[kind] -> Values \cup {Blank}] /\ written = mem
      /\ backup_update \in {"idle", "set"}
      /\ (answer = Nothing \/ answer \in Values \cup {Blank})
  BY Zenon DEF IInv
<1>2. ASSUME NEW w \in WordsOf[kind], Request(w) PROVE IInv'
  <2>1. Sound(kind, chip', w) /\ mem' = mem /\ backup_update' = backup_update
    BY <1>2, Requested
  <2>2. /\ waiting' = w /\ kind' = kind /\ answer' = answer /\ snap' = snap
        /\ written' = written
    BY <1>2, Zenon DEF Request
  <2> QED
    BY ONLY <1>1, <2>1, <2>2, Zenon DEF IInv
<1>3. ASSUME NEW w \in WordsOf[kind], NEW v \in Values, WriteWord(w, v) PROVE IInv'
  <2>1. /\ Sound(kind, chip', Nothing) /\ backup_update' = "set"
        /\ mem' = [mem EXCEPT ![w] = v]
    BY <1>3, WordWritten
  <2>2. /\ waiting = Nothing /\ waiting' = waiting /\ kind' = kind /\ answer' = answer
        /\ snap' = snap /\ written' = [written EXCEPT ![w] = v]
    BY <1>3, Zenon DEF WriteWord
  <2>3. mem' \in [WordsOf[kind] -> Values \cup {Blank}]
    BY ONLY <1>1, <2>1, v \in Values, w \in WordsOf[kind]
  <2>4. backup_update' \in {"idle", "set"}
    BY ONLY <2>1
  <2> QED
    BY ONLY <1>1, <2>1, <2>2, <2>3, <2>4, Zenon DEF IInv
<1>4. CASE Fetch
  <2>1. /\ Sound(kind, chip', Nothing) /\ mem' = mem /\ backup_update' = backup_update
        /\ waiting \in WordsOf[kind] /\ answer' = mem[waiting]
    BY <1>4, WordFetched
  <2>2. waiting' = Nothing /\ kind' = kind /\ snap' = snap /\ written' = written
    BY <1>4, Zenon DEF Fetch
  <2>3. answer' \in Values \cup {Blank}
    BY ONLY <1>1, <2>1
  <2> QED
    BY ONLY <1>1, <2>1, <2>2, <2>3, Zenon DEF IInv
<1>5. CASE WriteBack
  <2>1. /\ backup_update' = "idle" /\ kind' = kind /\ chip' = chip /\ mem' = mem
        /\ waiting' = waiting /\ answer' = answer /\ snap' = snap /\ written' = written
    BY <1>5, Zenon DEF WriteBack
  <2>2. backup_update' \in {"idle", "set"}
    BY ONLY <2>1
  <2> QED
    BY ONLY <1>1, <2>1, <2>2, Zenon DEF IInv
<1>6. CASE Reset
  <2>1. /\ chip' = ResetChip(chip) /\ waiting' = Nothing /\ kind' = kind /\ mem' = mem
        /\ backup_update' = backup_update /\ answer' = answer /\ snap' = snap
        /\ written' = written
    BY <1>6, Zenon DEF Reset
  <2>2. Sound(kind, ResetChip(chip), Nothing)
    BY ONLY <1>1, ResetSound, Zenon
  <2> QED
    BY ONLY <1>1, <2>1, <2>2, Zenon DEF IInv
<1>7. CASE SaveState
  <2> DEFINE r == [chip |-> chip, waiting |-> waiting]
  <2>1. /\ snap' = r /\ kind' = kind /\ chip' = chip /\ mem' = mem
        /\ backup_update' = backup_update /\ waiting' = waiting /\ answer' = answer
        /\ written' = written
    BY <1>7, Zenon DEF SaveState
  <2>2. r.chip = chip /\ r.waiting = waiting
    OBVIOUS
  <2> HIDE DEF r
  <2> QED
    BY ONLY <1>1, <2>1, <2>2, Zenon DEF IInv
<1>8. CASE LoadState
  <2>1. /\ snap # Nothing /\ chip' = snap.chip /\ waiting' = snap.waiting /\ kind' = kind
        /\ mem' = mem /\ backup_update' = backup_update /\ answer' = answer /\ snap' = snap
        /\ written' = written
    BY <1>8, Zenon DEF LoadState
  <2> QED
    BY ONLY <1>1, <2>1, Zenon DEF IInv
<1>9. CASE UNCHANGED vars
  <2>1. /\ kind' = kind /\ chip' = chip /\ mem' = mem /\ backup_update' = backup_update
        /\ waiting' = waiting /\ answer' = answer /\ snap' = snap /\ written' = written
    BY <1>9, Zenon DEF vars
  <2> QED
    BY ONLY <1>1, <2>1, Zenon DEF IInv
<1> QED
  BY <1>2, <1>3, <1>4, <1>5, <1>6, <1>7, <1>8, <1>9, Zenon DEF Next

-----------------------------------------------------------------------------
(* Every word of the memory is whole: blank, or a value the game wrote. The  *)
(* 64 bits of a word are or-ed into it one by one, by write_eeprom.          *)
THEOREM TypeIsCorrect == Spec => []TypeOK
<1>1. IInv => TypeOK
  <2> SUFFICES ASSUME IInv PROVE TypeOK
    OBVIOUS
  <2>1. /\ kind \in Sizes /\ Sound(kind, chip, waiting)
        /\ (snap = Nothing \/ Sound(kind, snap.chip, snap.waiting))
        /\ backup_update \in {"idle", "set"}
        /\ (answer = Nothing \/ answer \in Values \cup {Blank})
    BY Zenon DEF IInv
  <2>2. DOMAIN mem = WordsOf[kind] /\ \A w \in WordsOf[kind] : mem[w] \in Values \cup {Blank}
    <3>1. mem \in [WordsOf[kind] -> Values \cup {Blank}]
      BY Zenon DEF IInv
    <3> QED
      BY ONLY <3>1
  <2> QED
    BY ONLY <2>1, <2>2, Zenon DEF TypeOK, Sound
<1> QED
  BY <1>1, InitInv, NextInv, PTL DEF Spec

(* A chip that is not being read says that it is ready, with a 1.            *)
LEMMA Polled ==
  ASSUME IInv, waiting = Nothing
  PROVE  Fetched(1).got = <<1>>
<1>1. PICK f : /\ f[0] = Machine
               /\ \A i \in 1..1 : f[i] = read_eeprom(f[i - 1])
               /\ Fetched(1) = f[1]
  <2>1. 1 \in Nat
    OBVIOUS
  <2> QED
    BY ONLY <2>1, FetchedRun, Zenon
<1>2. f[1] = read_eeprom(Machine)
  <2>1. 1 \in 1..1 /\ 1 - 1 = 0
    OBVIOUS
  <2>2. f[1] = read_eeprom(f[1 - 1])
    BY ONLY <1>1, <2>1, Zenon
  <2> QED
    BY ONLY <1>1, <2>1, <2>2, Zenon
<1>3. Shape(Machine) /\ Machine.chip.eeprom_mode = BaseM /\ Machine.got = <<>>
  BY MachineNow, Zenon DEF IInv, Sound
<1>4. read_eeprom(Machine)
        = Fields(Machine.chip.eeprom_size, BaseM, Machine.chip.eeprom_address_length,
            Machine.chip.eeprom_address, Machine.chip.eeprom_counter,
            Machine.chip.eeprom_buffer, Machine.mem, Machine.update, Append(Machine.got, 1))
  BY ONLY <1>3, IdleBit, Zenon
<1>5. read_eeprom(Machine).got = Append(<<>>, 1)
  <2>1. read_eeprom(Machine).got = Append(Machine.got, 1)
    BY ONLY <1>4 DEF Fields
  <2> QED
    BY ONLY <1>3, <2>1, Zenon
<1>6. Append(<<>>, 1) = <<1>>
  OBVIOUS
<1> QED
  BY <1>1, <1>2, <1>5, <1>6, Zenon

(* Between two transfers the chip is where the game believes it to be,       *)
(* whatever resets and savestates came between them.                         *)
THEOREM ChipInStep == Spec => []InStep
<1>1. IInv => InStep
  <2> SUFFICES ASSUME IInv PROVE InStep
    OBVIOUS
  <2>1. kind \in Sizes /\ Sound(kind, chip, waiting)
    BY Zenon DEF IInv
  <2>2. CASE waiting = Nothing
    <3>1. Fetched(1).got = <<1>>
      BY <2>2, Polled
    <3> QED
      BY ONLY <2>1, <2>2, <3>1, Zenon DEF InStep, Sound, BaseM
  <2>3. CASE waiting # Nothing
    <3>1. waiting \in WordsOf[kind] /\ chip.eeprom_address = 8 * waiting
      BY ONLY <2>1, <2>3, Zenon DEF Sound
    <3>2. waiting \in Nat
      BY <2>1, <3>1, WordsAreNumbers
    <3>3. Word(chip) = waiting
      BY ONLY <3>1, <3>2, Eighth, Zenon DEF Word
    <3> QED
      BY ONLY <2>1, <2>3, <3>3, Zenon DEF InStep, Sound, HeaderM
  <2> QED
    BY <2>2, <2>3
<1> QED
  BY <1>1, InitInv, NextInv, PTL DEF Spec

(* The bits on the wire are a store of words: what the game fetches is what  *)
(* it last wrote, in a memory of either size.                                *)
THEOREM StoreOfWords == Spec => WordStore
<1> DEFINE Stores(h) == [w \in AllWords |-> IF w \in DOMAIN h THEN h[w] ELSE Blank]
<1>1. Init => Chip!Init
  <2> SUFFICES ASSUME Init PROVE Chip!Init
    OBVIOUS
  <2>1. written = [w \in WordsOf[kind] |-> Blank] /\ waiting = Nothing /\ answer = Nothing
    BY Zenon DEF Init
  <2>2. Stores(written) = [w \in AllWords |-> Blank]
    BY ONLY <2>1
  <2> QED
    BY ONLY <2>1, <2>2, Zenon DEF Chip!Init
<1>2. IInv /\ [Next]_vars => [Chip!Next]_(Chip!vars)
  <2> SUFFICES ASSUME IInv, [Next]_vars PROVE [Chip!Next]_(Chip!vars)
    OBVIOUS
  <2>1. kind \in Sizes /\ Sound(kind, chip, waiting) /\ written = mem
        /\ (snap = Nothing \/ Sound(kind, snap.chip, snap.waiting))
        /\ mem \in [WordsOf[kind] -> Values \cup {Blank}]
    BY Zenon DEF IInv
  <2>2. WordsOf[kind] \subseteq AllWords /\ Nothing \notin WordsOf[kind]
    BY <2>1, WordsAreNumbers
  <2>3. ASSUME written' = written, answer' = answer, waiting' = waiting
        PROVE  [Chip!Next]_(Chip!vars)
    BY ONLY <2>3, Zenon DEF Chip!vars
  <2>4. ASSUME written' = written, answer' = answer, waiting' \in AllWords \cup {Nothing}
        PROVE  [Chip!Next]_(Chip!vars)
    <3>1. Chip!Turn
      BY ONLY <2>4, Zenon DEF Chip!Turn
    <3> QED
      BY ONLY <3>1, Zenon DEF Chip!Next
  <2>5. ASSUME NEW w \in WordsOf[kind], Request(w) PROVE [Chip!Next]_(Chip!vars)
    <3>1. /\ waiting = Nothing /\ waiting' = w /\ answer' = answer /\ written' = written
      BY <2>5, Zenon DEF Request
    <3>2. w \in AllWords
      BY ONLY <2>2, w \in WordsOf[kind]
    <3>3. Chip!Ask(w)
      BY ONLY <3>1, Zenon DEF Chip!Ask
    <3> QED
      BY ONLY <3>2, <3>3, Zenon DEF Chip!Next
  <2>6. ASSUME NEW w \in WordsOf[kind], NEW v \in Values, WriteWord(w, v)
        PROVE  [Chip!Next]_(Chip!vars)
    <3>1. /\ waiting = Nothing /\ waiting' = waiting /\ answer' = answer
          /\ written' = [written EXCEPT ![w] = v]
      BY <2>6, Zenon DEF WriteWord
    <3>2. w \in AllWords
      BY ONLY <2>2, w \in WordsOf[kind]
    <3>3. Stores(written') = [Stores(written) EXCEPT ![w] = v]
      <4>1. w \in DOMAIN written /\ DOMAIN written' = DOMAIN written
            /\ written'[w] = v
            /\ \A x \in DOMAIN written : x # w => written'[x] = written[x]
        BY ONLY <2>1, <3>1, w \in WordsOf[kind]
      <4>2. [Stores(written) EXCEPT ![w] = v]
              = [x \in AllWords |-> IF x = w THEN v ELSE Stores(written)[x]]
        BY ONLY <3>2
      <4>3. \A x \in AllWords : (IF x \in DOMAIN written' THEN written'[x] ELSE Blank)
                                  = (IF x = w THEN v ELSE Stores(written)[x])
        BY ONLY <4>1
      <4> QED
        BY ONLY <4>2, <4>3
    <3>4. Chip!Put(w, v)
      BY ONLY <3>1, <3>3, Zenon DEF Chip!Put
    <3> QED
      BY ONLY <3>2, <3>4, v \in Values, Zenon DEF Chip!Next
  <2>7. CASE Fetch
    <3>1. waiting \in WordsOf[kind] /\ answer' = mem[waiting]
      BY <2>7, WordFetched, Zenon
    <3>2. waiting # Nothing /\ waiting' = Nothing /\ written' = written
      BY <2>7, Zenon DEF Fetch
    <3>3. answer' = Stores(written)[waiting]
      BY ONLY <2>1, <2>2, <3>1
    <3>4. Chip!Answer
      BY ONLY <3>2, <3>3, Zenon DEF Chip!Answer
    <3> QED
      BY ONLY <3>4, Zenon DEF Chip!Next
  <2>8. CASE WriteBack
    BY <2>3, <2>8, Zenon DEF WriteBack
  <2>9. CASE SaveState
    BY <2>3, <2>9, Zenon DEF SaveState
  <2>10. CASE Reset
    <3>1. Nothing \in AllWords \cup {Nothing}
      OBVIOUS
    <3> QED
      BY <2>4, <2>10, <3>1, Zenon DEF Reset
  <2>11. CASE LoadState
    <3>1. /\ snap # Nothing /\ waiting' = snap.waiting /\ answer' = answer
          /\ written' = written
      BY <2>11, Zenon DEF LoadState
    <3>2. snap.waiting \in WordsOf[kind] \cup {Nothing}
      BY ONLY <2>1, <3>1, Zenon DEF Sound
    <3>3. waiting' \in AllWords \cup {Nothing}
      BY ONLY <2>2, <3>1, <3>2
    <3> QED
      BY ONLY <2>4, <3>1, <3>3, Zenon
  <2>12. CASE UNCHANGED vars
    BY <2>3, <2>12, Zenon DEF vars
  <2> QED
    BY <2>5, <2>6, <2>7, <2>8, <2>9, <2>10, <2>11, <2>12, Zenon DEF Next
<1> QED
  BY <1>1, <1>2, InitInv, NextInv, PTL DEF Spec, WordStore, Chip!Spec
=============================================================================
