------------------------------ MODULE CIntegers -----------------------------
(***************************************************************************)
(* The int of the machine.  A C int has 32 bits; here it has the values    *)
(* IntMin..IntMax.  The makefiles of HW1 and HW3 build without -O, and     *)
(* such a build wraps a signed overflow around.                            *)
(***************************************************************************)
EXTENDS Integers

CONSTANT IntMax   \* INT_MAX

IntMin == -IntMax - 1
CInt == IntMin .. IntMax

\* The value of x in an int variable, however often it has wrapped around.
Wrap(x) == ((x - IntMin) % (IntMax - IntMin + 1)) + IntMin
=============================================================================
