------------------------------ MODULE Limits ------------------------------
(***************************************************************************)
(* The limits EC2 puts on an instance type (pkg/aws/vpc/limits.go), which  *)
(* the controller compiles in: how many interfaces it may have and on      *)
(* which network cards, how many addresses an interface, how many branch   *)
(* interfaces.  The table has 1423 instance types; a type matters only by  *)
(* its limits, so each of its families is the set of the limits its types  *)
(* have.                                                                   *)
(***************************************************************************)
EXTENDS Naturals, Sequences

\* VPCLimits.  cards[c + 1] is MaximumNetworkInterfaces of the network card with
\* index c; nitro is what IsNitroInstance answers.
VPCLimits(interface, ipv4, branch, cards, isNitro) ==
  [Interface |-> interface, IPv4PerInterface |-> ipv4,
   IsTrunkingCompatible |-> branch > 0, BranchInterface |-> branch,
   NetworkCards |-> cards, DefaultNetworkCardIndex |-> 0, nitro |-> isNitro]

\* Types that take a trunk, types that do not, and types on the old hypervisor.
Trunking(interface, ipv4, branch, cards) == VPCLimits(interface, ipv4, branch, cards, TRUE)
Nitro(interface, ipv4, cards) == VPCLimits(interface, ipv4, 0, cards, TRUE)
Xen(interface, ipv4, cards) == VPCLimits(interface, ipv4, 0, cards, FALSE)

Uniform(n, max) == [c \in 1 .. n |-> max]

-----------------------------------------------------------------------------
A1 ==
  {Trunking(2, 4, 10, <<2>>), Trunking(3, 10, 9, <<3>>), Trunking(4, 15, 18, <<4>>),
   Trunking(4, 15, 38, <<4>>), Trunking(8, 30, 54, <<8>>)}
C1 == {Xen(2, 6, <<2>>), Xen(4, 15, <<4>>)}
C3 == {Xen(3, 10, <<3>>), Xen(4, 15, <<4>>), Xen(8, 30, <<8>>)}
C4 == C3
C5 ==
  {Trunking(3, 10, 9, <<3>>), Trunking(4, 15, 18, <<4>>), Trunking(4, 15, 38, <<4>>),
   Trunking(8, 30, 54, <<8>>), Trunking(15, 50, 107, <<15>>)}
C5a == C5
C5ad == C5
C5d == C5
C5n == C5
C6a ==
  {Trunking(3, 10, 9, <<3>>), Trunking(4, 15, 18, <<4>>), Trunking(4, 15, 38, <<4>>),
   Trunking(8, 30, 54, <<8>>), Trunking(8, 30, 84, <<8>>), Trunking(8, 30, 114, <<8>>),
   Trunking(15, 50, 107, <<15>>)}
C6g ==
  {Trunking(2, 4, 4, <<2>>), Trunking(3, 10, 9, <<3>>), Trunking(4, 15, 18, <<4>>),
   Trunking(4, 15, 38, <<4>>), Trunking(8, 30, 54, <<8>>), Trunking(15, 50, 107, <<15>>)}
C6gd == C6g
C6gn == C6g
C6i == C6a
C6id == C6a
C6in ==
  {Trunking(3, 10, 9, <<3>>), Trunking(4, 15, 18, <<4>>), Trunking(4, 15, 38, <<4>>),
   Trunking(8, 30, 54, <<8>>), Trunking(8, 30, 84, <<8>>), Trunking(8, 30, 114, <<8>>),
   Trunking(15, 50, 107, <<15>>), Trunking(16, 50, 106, <<8, 8>>)}
C7a ==
  {Trunking(2, 4, 4, <<2>>), Trunking(3, 10, 9, <<3>>), Trunking(4, 15, 18, <<4>>),
   Trunking(4, 15, 38, <<4>>), Trunking(8, 30, 54, <<8>>), Trunking(8, 30, 84, <<8>>),
   Trunking(8, 30, 114, <<8>>), Trunking(15, 50, 107, <<15>>)}
C7g_flex ==
  {Trunking(2, 4, 1, <<2>>), Trunking(3, 10, 3, <<3>>), Trunking(4, 15, 8, <<4>>),
   Trunking(4, 15, 18, <<4>>), Trunking(8, 30, 34, <<8>>), Trunking(8, 30, 54, <<8>>)}
C7g == C6g
C7gd == C6g
C7gn == C6g
C7i_flex ==
  {Trunking(3, 10, 3, <<3>>), Trunking(4, 15, 8, <<4>>), Trunking(4, 15, 18, <<4>>),
   Trunking(8, 30, 34, <<8>>), Trunking(8, 30, 54, <<8>>), Trunking(8, 30, 114, <<8>>),
   Trunking(15, 50, 107, <<15>>)}
C7i == C6a
C8a ==
  {Trunking(2, 4, 4, <<2>>), Trunking(3, 20, 9, <<3>>), Trunking(4, 20, 18, <<4>>),
   Trunking(4, 40, 38, <<4>>), Trunking(8, 40, 54, <<8>>), Trunking(10, 40, 82, <<10>>),
   Trunking(12, 64, 110, <<12>>), Trunking(16, 64, 106, <<16>>), Trunking(24, 64, 98, <<24>>)}
C8g_flex ==
  {Trunking(2, 4, 1, <<2>>), Trunking(3, 10, 3, <<3>>), Trunking(4, 15, 8, <<4>>),
   Trunking(4, 15, 18, <<4>>), Trunking(8, 30, 34, <<8>>), Trunking(8, 30, 54, <<8>>),
   Trunking(15, 50, 47, <<15>>)}
C8g == C6g
C8gb ==
  {Trunking(2, 4, 4, <<2>>), Trunking(3, 10, 9, <<3>>), Trunking(4, 15, 18, <<4>>),
   Trunking(4, 15, 38, <<4>>), Trunking(8, 30, 54, <<8>>), Trunking(10, 30, 52, <<10>>),
   Trunking(12, 30, 50, <<12>>), Trunking(16, 50, 106, <<16>>), Trunking(24, 50, 98, <<24>>),
   Trunking(24, 50, 98, <<12, 12>>)}
C8gd == C6g
C8gn == C8gb
C8i_flex ==
  {Trunking(3, 20, 3, <<3>>), Trunking(4, 30, 8, <<4>>), Trunking(4, 30, 18, <<4>>),
   Trunking(8, 50, 34, <<8>>), Trunking(10, 50, 52, <<10>>), Trunking(12, 50, 110, <<12>>),
   Trunking(16, 64, 106, <<16>>)}
C8i ==
  {Trunking(3, 20, 9, <<3>>), Trunking(4, 30, 18, <<4>>), Trunking(4, 30, 38, <<4>>),
   Trunking(8, 50, 54, <<8>>), Trunking(10, 50, 82, <<10>>), Trunking(12, 50, 110, <<12>>),
   Trunking(16, 64, 106, <<16>>), Trunking(24, 64, 98, <<24>>)}
C8ib ==
  {Trunking(4, 20, 8, <<4>>), Trunking(4, 30, 18, <<4>>), Trunking(4, 30, 38, <<4>>),
   Trunking(8, 50, 54, <<8>>), Trunking(8, 50, 84, <<8>>), Trunking(12, 50, 110, <<12>>),
   Trunking(16, 64, 106, <<16>>), Trunking(24, 64, 98, <<24>>), Trunking(24, 64, 98, <<12, 12>>)}
C8id == C8i
C8in == C8ib
C8ine ==
  {Trunking(4, 20, 8, <<4>>), Trunking(4, 30, 18, <<4>>), Trunking(4, 30, 38, <<4>>),
   Trunking(8, 50, 54, <<8>>), Trunking(8, 50, 84, <<8>>), Trunking(12, 50, 110, <<12>>)}
C9g ==
  {Trunking(2, 20, 4, <<2>>), Trunking(3, 20, 9, <<3>>), Trunking(4, 30, 18, <<4>>),
   Trunking(4, 30, 38, <<4>>), Trunking(8, 50, 54, <<8>>), Trunking(10, 50, 52, <<10>>),
   Trunking(12, 50, 50, <<12>>), Trunking(16, 64, 106, <<16>>), Trunking(24, 64, 98, <<24>>)}
C9gd == C9g
D2 == {Xen(4, 15, <<4>>), Xen(8, 30, <<8>>)}
D3 ==
  {Trunking(3, 20, 119, <<3>>), Trunking(4, 3, 42, <<4>>), Trunking(4, 5, 92, <<4>>),
   Trunking(4, 10, 118, <<4>>)}
D3en ==
  {Trunking(3, 30, 119, <<3>>), Trunking(4, 3, 24, <<4>>), Trunking(4, 5, 58, <<4>>),
   Trunking(4, 10, 118, <<4>>), Trunking(4, 15, 118, <<4>>), Trunking(4, 20, 118, <<4>>)}
Dl1 == {Trunking(60, 50, 62, Uniform(4, 15))}
Dl2q == {Trunking(15, 50, 107, <<15>>)}
F1 == {Xen(4, 15, <<4>>), Xen(8, 30, <<8>>), Xen(8, 50, <<8>>)}
F2 == {Trunking(8, 30, 84, <<8>>), Trunking(8, 30, 114, <<8>>), Trunking(15, 50, 107, <<15>>)}
G4ad ==
  {Trunking(2, 4, 12, <<2>>), Trunking(3, 10, 11, <<3>>), Trunking(4, 15, 10, <<4>>),
   Trunking(8, 30, 6, <<8>>)}
G4dn ==
  {Trunking(3, 10, 39, <<3>>), Trunking(3, 10, 59, <<3>>), Trunking(4, 15, 58, <<4>>),
   Trunking(4, 15, 118, <<4>>), Trunking(8, 30, 54, <<8>>), Trunking(15, 50, 107, <<15>>)}
G5 ==
  {Trunking(4, 15, 4, <<4>>), Trunking(4, 15, 17, <<4>>), Trunking(7, 50, 115, <<7>>),
   Trunking(8, 30, 34, <<8>>), Trunking(8, 30, 84, <<8>>), Trunking(8, 30, 114, <<8>>),
   Trunking(15, 50, 107, <<15>>)}
G5g ==
  {Trunking(4, 15, 18, <<4>>), Trunking(4, 15, 38, <<4>>), Trunking(8, 30, 54, <<8>>),
   Trunking(15, 50, 107, <<15>>)}
G6 ==
  {Trunking(4, 15, 18, <<4>>), Trunking(4, 15, 38, <<4>>), Trunking(8, 30, 54, <<8>>),
   Trunking(8, 30, 84, <<8>>), Trunking(8, 30, 114, <<8>>), Trunking(15, 50, 107, <<15>>)}
G6e ==
  {Trunking(4, 15, 18, <<4>>), Trunking(4, 15, 38, <<4>>), Trunking(8, 30, 54, <<8>>),
   Trunking(8, 30, 84, <<8>>), Trunking(10, 30, 112, <<10>>), Trunking(15, 50, 107, <<15>>),
   Trunking(20, 50, 102, <<10, 10>>), Trunking(40, 50, 82, Uniform(4, 10))}
G6f ==
  {Trunking(2, 10, 10, <<2>>), Trunking(4, 15, 18, <<4>>), Trunking(4, 15, 38, <<4>>),
   Trunking(8, 30, 54, <<8>>)}
G7 ==
  {Trunking(4, 64, 38, <<4>>), Trunking(8, 64, 54, <<8>>), Trunking(10, 64, 82, <<10>>),
   Trunking(12, 64, 110, <<12>>), Trunking(24, 64, 98, <<24>>), Trunking(24, 64, 98, <<12, 12>>)}
G7e ==
  {Trunking(4, 64, 120, <<4>>), Trunking(8, 64, 120, <<8>>), Trunking(10, 64, 120, <<10>>),
   Trunking(20, 64, 120, <<10, 10>>), Trunking(40, 64, 120, Uniform(4, 10))}
Gr6 == {Trunking(8, 30, 54, <<8>>), Trunking(8, 30, 84, <<8>>)}
Gr6f == {Trunking(8, 30, 54, <<8>>)}
H1 == F1
Hpc7g == {Trunking(4, 50, 118, <<4>>)}
I2 == D2
I3 ==
  {Trunking(15, 50, 120, <<15>>), Xen(3, 10, <<3>>), Xen(4, 15, <<4>>), Xen(8, 30, <<8>>),
   Xen(15, 50, <<15>>)}
I3en ==
  {Trunking(3, 10, 5, <<3>>), Trunking(4, 15, 12, <<4>>), Trunking(4, 15, 28, <<4>>),
   Trunking(4, 15, 38, <<4>>), Trunking(8, 30, 54, <<8>>), Trunking(15, 50, 107, <<15>>)}
I4g == C5
I4i ==
  {Trunking(3, 10, 9, <<3>>), Trunking(4, 15, 6, <<4>>), Trunking(4, 15, 26, <<4>>),
   Trunking(8, 30, 52, <<8>>), Trunking(8, 30, 112, <<8>>), Trunking(15, 30, 105, <<15>>),
   Trunking(15, 50, 120, <<15>>)}
I7i ==
  {Trunking(3, 10, 9, <<3>>), Trunking(4, 15, 18, <<4>>), Trunking(4, 15, 38, <<4>>),
   Trunking(8, 30, 54, <<8>>), Trunking(8, 30, 84, <<8>>), Trunking(15, 50, 107, <<15>>)}
I7ie ==
  {Trunking(3, 10, 19, <<3>>), Trunking(4, 15, 27, <<4>>), Trunking(8, 30, 54, <<8>>),
   Trunking(8, 50, 54, <<8>>), Trunking(15, 50, 107, <<15>>), Trunking(15, 50, 107, <<8, 7>>)}
I8g == C5
I8ge ==
  {Trunking(3, 10, 19, <<3>>), Trunking(4, 15, 27, <<4>>), Trunking(6, 30, 25, <<6>>),
   Trunking(10, 30, 52, <<10>>), Trunking(12, 30, 50, <<12>>), Trunking(16, 50, 106, <<16>>),
   Trunking(24, 50, 98, <<12, 12>>)}
Im4gn == C5
Inf1 == {Trunking(4, 10, 38, <<4>>), Trunking(8, 30, 54, <<8>>), Trunking(11, 30, 111, <<11>>)}
Inf2 == {Trunking(4, 15, 18, <<4>>), Trunking(8, 30, 84, <<8>>), Trunking(15, 50, 107, <<15>>)}
Is4gen ==
  {Trunking(2, 4, 4, <<2>>), Trunking(3, 10, 9, <<3>>), Trunking(4, 15, 18, <<4>>),
   Trunking(4, 15, 38, <<4>>), Trunking(8, 30, 54, <<8>>)}
M1 == {Xen(2, 4, <<2>>), Xen(2, 6, <<2>>), Xen(3, 10, <<3>>), Xen(4, 15, <<4>>)}
M2 == {Xen(4, 15, <<4>>), Xen(4, 30, <<4>>), Xen(8, 30, <<8>>)}
M3 == {Xen(2, 6, <<2>>), Xen(3, 10, <<3>>), Xen(4, 15, <<4>>), Xen(4, 30, <<4>>)}
M4 == {Xen(2, 10, <<2>>), Xen(4, 15, <<4>>), Xen(8, 30, <<8>>)}
M5 ==
  {Trunking(3, 10, 9, <<3>>), Trunking(4, 15, 18, <<4>>), Trunking(4, 15, 38, <<4>>),
   Trunking(8, 30, 54, <<8>>), Trunking(15, 50, 107, <<15>>), Trunking(15, 50, 120, <<15>>)}
M5a == C5
M5ad == C5
M5d == C5
M5dn == C5
M5n == C5
M5zn ==
  {Trunking(3, 10, 13, <<3>>), Trunking(4, 15, 29, <<4>>), Trunking(4, 15, 62, <<4>>),
   Trunking(8, 30, 92, <<8>>), Trunking(8, 30, 114, <<8>>), Trunking(15, 50, 107, <<15>>)}
M6a == C6a
M6g == C6g
M6gd == C6g
M6i == C6a
M6id == C6a
M6idn == C6in
M6in == C6in
M7a == C7a
M7g_flex == C7g_flex
M7g == C6g
M7gd == C6g
M7i_flex == C7i_flex
M7i == C6a
M8a == C8a
M8azn ==
  {Trunking(3, 4, 3, <<3>>), Trunking(4, 20, 8, <<4>>), Trunking(4, 20, 18, <<4>>),
   Trunking(8, 40, 34, <<8>>), Trunking(8, 40, 54, <<8>>), Trunking(16, 64, 106, <<16>>)}
M8g_flex == C8g_flex
M8g == C6g
M8gb == C8gb
M8gd == C6g
M8gn == C8gb
M8i_flex == C8i_flex
M8i == C8i
M8ib == C8ib
M8id == C8i
M8idb == C8ib
M8idn == C8ib
M8in == C8ib
M8ine == C8ine
M9g == C9g
M9gd == C9g
Mac_m3ultra == {Trunking(8, 30, 6, <<8>>)}
Mac_m4 == {Trunking(8, 30, 6, <<8>>)}
Mac_m4max == {Trunking(8, 30, 6, <<8>>)}
Mac_m4pro == {Trunking(8, 30, 6, <<8>>)}
Mac1 == {Trunking(8, 30, 6, <<8>>)}
Mac2_m1ultra == {Trunking(8, 30, 6, <<8>>)}
Mac2_m2 == {Trunking(8, 30, 6, <<8>>)}
Mac2_m2pro == {Trunking(8, 30, 6, <<8>>)}
Mac2 == {Trunking(8, 30, 6, <<8>>)}
P3 == D2
P3dn == {Trunking(15, 50, 107, <<15>>)}
P4d == {Trunking(60, 50, 62, Uniform(4, 15))}
P4de == {Trunking(60, 50, 62, Uniform(4, 15))}
P5 == {Trunking(4, 30, 58, <<4>>), Trunking(64, 50, 120, Uniform(32, 2))}
P5e == {Trunking(64, 50, 120, Uniform(32, 2))}
P5en == {Trunking(64, 50, 120, Uniform(16, 4))}
P6_b200 == {Trunking(32, 50, 120, Uniform(8, 4))}
P6_b300 == {Trunking(68, 50, 120, Uniform(17, 4))}
R3 == C3
R4 == {Xen(3, 10, <<3>>), Xen(4, 15, <<4>>), Xen(8, 30, <<8>>), Xen(15, 50, <<15>>)}
R5 == M5
R5a == C5
R5ad == C5
R5b == C5
R5d == C5
R5dn == C5
R5n == C5
R6a == C6a
R6g == C6g
R6gd == C6g
R6i == C6a
R6id == C6a
R6idn == C6in
R6in == C6in
R7a == C7a
R7g == C6g
R7gd == C6g
R7i == C6a
R7iz == C6a
R8a == C8a
R8g == C6g
R8gb == C8gb
R8gd == C6g
R8gn == C8gb
R8i_flex == C8i_flex
R8i == C8i
R8ib == C8ib
R8id == C8i
R8idb == C8ib
R8idn == C8ib
R8in == C8ib
R9g == C9g
R9gd == C9g
T1 == {Xen(2, 2, <<2>>)}
T2 == {Xen(2, 2, <<2>>), Xen(3, 4, <<3>>), Xen(3, 6, <<3>>), Xen(3, 12, <<3>>), Xen(3, 15, <<3>>)}
T3 == {Nitro(2, 2, <<2>>), Nitro(3, 4, <<3>>), Nitro(3, 6, <<3>>), Nitro(3, 12, <<3>>), Nitro(4, 15, <<4>>)}
T3a == {Nitro(2, 2, <<2>>), Nitro(2, 4, <<2>>), Nitro(3, 6, <<3>>), Nitro(3, 12, <<3>>), Nitro(4, 15, <<4>>)}
T4g == T3
Trn1 == {Trunking(4, 15, 17, <<4>>), Trunking(40, 50, 82, Uniform(8, 5))}
Trn1n == {Trunking(80, 50, 120, Uniform(16, 5))}
U_3tb1 == {Trunking(8, 30, 6, <<8>>)}
U_6tb1 == {Nitro(15, 50, <<15>>)}
U7i_12tb == {Trunking(15, 50, 107, <<15>>)}
U7i_6tb == {Trunking(15, 50, 107, <<15>>)}
U7i_8tb == {Trunking(15, 50, 107, <<15>>)}
U7in_16tb == {Trunking(16, 50, 106, <<8, 8>>)}
U7in_24tb == {Trunking(16, 50, 106, <<8, 8>>)}
U7in_32tb == {Trunking(16, 50, 106, <<8, 8>>)}
Vt1 == {Trunking(4, 15, 38, <<4>>), Trunking(8, 30, 54, <<8>>), Trunking(15, 50, 107, <<15>>)}
X1 == {Xen(8, 30, <<8>>)}
X1e == C3
X2gd ==
  {Trunking(2, 4, 10, <<2>>), Trunking(3, 10, 9, <<3>>), Trunking(4, 15, 18, <<4>>),
   Trunking(4, 15, 38, <<4>>), Trunking(8, 30, 54, <<8>>), Trunking(15, 50, 107, <<15>>)}
X2idn == {Trunking(15, 50, 107, <<15>>)}
X2iedn ==
  {Trunking(4, 15, 11, <<4>>), Trunking(4, 15, 27, <<4>>), Trunking(8, 30, 54, <<8>>),
   Trunking(8, 30, 114, <<8>>), Trunking(15, 50, 107, <<15>>)}
X2iezn == {Trunking(4, 15, 62, <<4>>), Trunking(8, 30, 114, <<8>>), Trunking(15, 50, 107, <<15>>)}
X8aedz ==
  {Trunking(4, 20, 8, <<4>>), Trunking(4, 20, 18, <<4>>), Trunking(8, 40, 34, <<8>>),
   Trunking(8, 40, 54, <<8>>), Trunking(16, 64, 106, <<16>>)}
X8g == C6g
X8i == C8i
Z1d ==
  {Trunking(3, 10, 13, <<3>>), Trunking(4, 15, 28, <<4>>), Trunking(4, 15, 58, <<4>>),
   Trunking(8, 30, 54, <<8>>), Trunking(15, 50, 107, <<15>>)}

-----------------------------------------------------------------------------
Limits == UNION
  {A1, C1, C3, C4, C5, C5a, C5ad, C5d, C5n, C6a, C6g, C6gd, C6gn, C6i, C6id, C6in, C7a, C7g_flex, C7g,
   C7gd, C7gn, C7i_flex, C7i, C8a, C8g_flex, C8g, C8gb, C8gd, C8gn, C8i_flex, C8i, C8ib, C8id, C8in,
   C8ine, C9g, C9gd, D2, D3, D3en, Dl1, Dl2q, F1, F2, G4ad, G4dn, G5, G5g, G6, G6e, G6f, G7, G7e, Gr6,
   Gr6f, H1, Hpc7g, I2, I3, I3en, I4g, I4i, I7i, I7ie, I8g, I8ge, Im4gn, Inf1, Inf2, Is4gen, M1, M2, M3,
   M4, M5, M5a, M5ad, M5d, M5dn, M5n, M5zn, M6a, M6g, M6gd, M6i, M6id, M6idn, M6in, M7a, M7g_flex, M7g,
   M7gd, M7i_flex, M7i, M8a, M8azn, M8g_flex, M8g, M8gb, M8gd, M8gn, M8i_flex, M8i, M8ib, M8id, M8idb,
   M8idn, M8in, M8ine, M9g, M9gd, Mac_m3ultra, Mac_m4, Mac_m4max, Mac_m4pro, Mac1, Mac2_m1ultra, Mac2_m2,
   Mac2_m2pro, Mac2, P3, P3dn, P4d, P4de, P5, P5e, P5en, P6_b200, P6_b300, R3, R4, R5, R5a, R5ad, R5b,
   R5d, R5dn, R5n, R6a, R6g, R6gd, R6i, R6id, R6idn, R6in, R7a, R7g, R7gd, R7i, R7iz, R8a, R8g, R8gb,
   R8gd, R8gn, R8i_flex, R8i, R8ib, R8id, R8idb, R8idn, R8in, R9g, R9gd, T1, T2, T3, T3a, T4g, Trn1,
   Trn1n, U_3tb1, U_6tb1, U7i_12tb, U7i_6tb, U7i_8tb, U7in_16tb, U7in_24tb, U7in_32tb, Vt1, X1, X1e, X2gd,
   X2idn, X2iedn, X2iezn, X8aedz, X8g, X8i, Z1d}

-----------------------------------------------------------------------------
\* What the code relies on in the table: the default card is one of the cards,
\* no card takes more interfaces than it, and it no more than the instance; a
\* type takes a trunk when it has branch interfaces.
ASSUME LimitsAssumption ==
  \A t \in Limits :
    LET default == t.NetworkCards[t.DefaultNetworkCardIndex + 1] IN
    /\ t.Interface \in Nat /\ t.IPv4PerInterface \in Nat \ {0} /\ t.BranchInterface \in 0 .. 120
    /\ t.IsTrunkingCompatible = (t.BranchInterface > 0) /\ t.nitro \in BOOLEAN
    /\ t.NetworkCards \in Seq(Nat) /\ t.DefaultNetworkCardIndex = 0 /\ Len(t.NetworkCards) > 0
    /\ default <= t.Interface /\ default <= 64
    /\ \A c \in DOMAIN t.NetworkCards : t.NetworkCards[c] \in 1 .. default
=============================================================================
