------------------------------ MODULE PhaseVector ------------------------------
(***************************************************************************)
(* Vectors of phases (src/src/vsa.rs), and the kernel of +1 and -1 that is *)
(* their k = 1 (src/src/hlb.rs).  A Quantized vector packs k bits per      *)
(* phase into bytes; a Real one is an array.  Two vectors are drawn, one   *)
(* is bound to the other and unbound again, a step per element.            *)
(*                                                                         *)
(* A byte is a number below 256: a shift is a quotient or a product by a   *)
(* power of two, a mask a remainder.                                       *)
(***************************************************************************)
EXTENDS Integers, Sequences

CONSTANTS
  SeedWidths,  \* the k that callers ask random_role for
  KeyWidths,   \* and those they ask role_from_key for
  MaxDim,      \* bound of the model: for each width, the longest vector
  Samples,     \* the phases that the generator may draw, per width
  CosOf,       \* for each width, the cosine of each phase, in units
  Unit         \* the cosine of phase 0

Supported == {1, 2, 4, 8}
Pow2 == [n \in 0 .. 8 |-> <<1, 2, 4, 8, 16, 32, 64, 128, 256>>[n + 1]]
Signs == {1, -1}
Phases(k) == IF k = 1 THEN Signs ELSE 0 .. (Pow2[k] - 1)
Widths == (SeedWidths \cap Supported) \cup KeyWidths

(* A key may come with any k.  With 0 there is no byte to write to, above  *)
(* 8 a shift overflows; what the build makes of these is not modelled.     *)
ASSUME WidthAssumption == SeedWidths \subseteq Nat /\ KeyWidths \subseteq 1 .. 8
ASSUME SampleAssumption ==
  /\ \A k \in SeedWidths \cup KeyWidths : MaxDim[k] \in Nat
  /\ \A k \in Widths : Samples[k] \subseteq Phases(k)
ASSUME CosAssumption ==
  \A k \in Widths \ {1} : CosOf[k] \in [0 .. (Pow2[k] - 1) -> Int]

VARIABLES
  asked,       \* the k and dim asked for, for the role and the value
  job,         \* the loop that runs, or how the last call ended
  i,           \* its counter
  out,         \* the vector it fills
  role, value, \* the operands
  bound,       \* bind(role, value)
  recovered    \* unbind(bound, role)

vars == <<asked, job, i, out, role, value, bound, recovered>>

-----------------------------------------------------------------------------
(* bytes_needed, and the place of phase n: its byte and its first bit      *)
BytesNeeded(dim, k) == (dim * k + 7) \div 8
ByteOf(n, k) == (n * k) \div 8 + 1
BitOf(n, k) == (n * k) % 8

(* n bits of byte b from bit off on, and b with these bits replaced by p   *)
Field(b, off, n) == (b \div Pow2[off]) % Pow2[n]
WithField(b, off, n, p) == b + (p - Field(b, off, n)) * Pow2[off]

(* Seeded faults.                                                          *)
(* The byte is overwritten, not masked.                                    *)
PackOverByte(buf, n, p, k) ==
  [buf EXCEPT ![ByteOf(n, k)] = p * Pow2[BitOf(n, k)]]
(* role - memory, in place of memory - role.                               *)
MinusSwapped(k, m, r) == IF k = 1 THEN m * r ELSE (r - m) % Pow2[k]
(* The cosine of the sum of two phases.                                    *)
PhaseCosineOfSum(k, a, b) ==
  IF k = 1 THEN a * b * Unit ELSE CosOf[k][(a + b) % Pow2[k]]

PackPhase(buf, n, p, k) ==
  LET byte == ByteOf(n, k)
      off  == BitOf(n, k)
      low  == 8 - off
  IN  IF off + k <= 8
      THEN [buf EXCEPT ![byte] = WithField(@, off, k, p)]
      ELSE [buf EXCEPT ![byte] = WithField(@, off, low, p % Pow2[low]),
                       ![byte + 1] = WithField(@, 0, k - low, p \div Pow2[low])]

UnpackPhase(buf, n, k) ==
  LET byte == ByteOf(n, k)
      off  == BitOf(n, k)
      low  == 8 - off
  IN  IF off + k <= 8
      THEN Field(buf[byte], off, k)
      ELSE Field(buf[byte], off, low) + Field(buf[byte + 1], 0, k - low) * Pow2[low]

-----------------------------------------------------------------------------
(* A vector of either form: Real for k = 1, Quantized for the others       *)
Fresh(dim, k) ==
  IF k = 1 THEN [n \in 1 .. dim |-> 0] ELSE [n \in 1 .. BytesNeeded(dim, k) |-> 0]
Put(buf, n, p, k) ==
  IF k = 1 THEN [buf EXCEPT ![n + 1] = p] ELSE PackPhase(buf, n, p, k)
Get(buf, n, k) == IF k = 1 THEN buf[n + 1] ELSE UnpackPhase(buf, n, k)

(* One element of bind and of unbind                                       *)
Plus(k, a, b) == IF k = 1 THEN a * b ELSE (a + b) % Pow2[k]
Minus(k, m, r) == IF k = 1 THEN m * r ELSE (m - r) % Pow2[k]

(* check_compat                                                            *)
Compat(a, b) ==
  IF a.dim # b.dim THEN "DimMismatch"
  ELSE IF a.k # b.k THEN "KMismatch" ELSE "Ok"

(* Phase::cosine, as a sum and what it is divided by.  At dimension 0 a    *)
(* Real is similar to nothing, and a Quantized gives 0/0, a NaN.           *)
PhaseCosine(k, a, b) ==
  IF k = 1 THEN a * b * Unit ELSE CosOf[k][(a - b) % Pow2[k]]
Cosine(x, y, dim, k) ==
  LET sum[n \in 0 .. dim] ==
        IF n = 0 THEN 0
        ELSE sum[n - 1] + PhaseCosine(k, Get(x, n - 1, k), Get(y, n - 1, k))
  IN  IF dim = 0 /\ k = 1 THEN <<0, 1>> ELSE <<sum[dim], dim>>

-----------------------------------------------------------------------------
Next2 == [role |-> "value", value |-> "bind", bind |-> "unbind", unbind |-> "Ok"]
Drawing == {"role", "value"}
RequestsOf(how, widths) ==
  UNION {{[how |-> how, k |-> k, dim |-> d] : d \in 0 .. MaxDim[k]} : k \in widths}
Requests == RequestsOf("seed", SeedWidths) \cup RequestsOf("key", KeyWidths)

Asked == IF job = "value" THEN asked.value ELSE asked.role
K == Asked.k
Dim == Asked.dim

(* random_role takes four widths; role_from_key does not look.             *)
Accepted(r) == r.how = "key" \/ r.k \in Supported

Init ==
  /\ asked \in [role : Requests, value : Requests]
  /\ job = "role"
  /\ i = 0
  /\ out = Fresh(Dim, K)
  /\ role = <<>> /\ value = <<>> /\ bound = <<>> /\ recovered = <<>>

InvalidK ==
  /\ job \in Drawing
  /\ ~Accepted(Asked)
  /\ job' = "InvalidK"
  /\ UNCHANGED <<asked, i, out, role, value, bound, recovered>>

Element(p) ==
  /\ Accepted(Asked)
  /\ i < Dim
  /\ out' = Put(out, i, p, K)
  /\ i' = i + 1
  /\ UNCHANGED <<asked, job, role, value, bound, recovered>>

Draw == job \in Drawing /\ Accepted(Asked) /\ \E p \in Samples[K] : Element(p)
BindElement == job = "bind" /\ Element(Plus(K, Get(role, i, K), Get(value, i, K)))
UnbindElement == job = "unbind" /\ Element(Minus(K, Get(bound, i, K), Get(role, i, K)))

(* The loop is done.  Before bind the operands are compared.               *)
Finish ==
  /\ job \in DOMAIN Next2
  /\ Accepted(Asked)
  /\ i = Dim
  /\ role' = IF job = "role" THEN out ELSE role
  /\ value' = IF job = "value" THEN out ELSE value
  /\ bound' = IF job = "bind" THEN out ELSE bound
  /\ recovered' = IF job = "unbind" THEN out ELSE recovered
  /\ job' = IF job = "value" /\ Compat(asked.role, asked.value) # "Ok"
            THEN Compat(asked.role, asked.value) ELSE Next2[job]
  /\ i' = 0
  /\ out' = IF job = "role" THEN Fresh(asked.value.dim, asked.value.k)
            ELSE Fresh(asked.role.dim, asked.role.k)
  /\ UNCHANGED asked

Next == InvalidK \/ Draw \/ BindElement \/ UnbindElement \/ Finish

Spec == Init /\ [][Next]_vars

-----------------------------------------------------------------------------
(* Every phase that the bytes of a vector have room for                    *)
Slots(dim, k) ==
  IF k = 1 THEN 0 .. (dim - 1) ELSE 0 .. ((8 * BytesNeeded(dim, k)) \div k - 1)

(* x has the bytes, or the elements, of a vector of that size.             *)
Shaped(x, dim, k) ==
  IF k = 1 THEN x \in [1 .. dim -> Signs \cup {0}]
  ELSE x \in [1 .. BytesNeeded(dim, k) -> 0 .. 255]

Sum(s) == Plus(K, Get(role, s, K), Get(value, s, K))
Difference(s) == Minus(K, Get(bound, s, K), Get(role, s, K))

(* To write a phase changes no phase before it, none of another byte, and  *)
(* not the padding: whatever loop runs, what it has filled so far is what  *)
(* the algebra says, phase by phase, in the byte and at the bits where     *)
(* unpack_phase looks for it, and the rest is zero.                        *)
PhasesKept ==
  /\ job \in DOMAIN Next2 /\ Accepted(Asked) =>
       /\ i \in 0 .. Dim
       /\ Shaped(out, Dim, K)
       /\ \A s \in Slots(Dim, K) : s >= i => Get(out, s, K) = 0
       /\ \A s \in 0 .. (i - 1) :
            /\ job \in Drawing => Get(out, s, K) \in Samples[K]
            /\ job = "bind" => Get(out, s, K) = Sum(s)
            /\ job = "unbind" => Get(out, s, K) = Difference(s)
  /\ job \in {"unbind", "Ok"} =>
       /\ Shaped(bound, Dim, K)
       /\ \A s \in Slots(Dim, K) : Get(bound, s, K) = IF s < Dim THEN Sum(s) ELSE 0

(* "unbind(bind(r, v), r) == v" (src/src/vsa.rs:40): byte for byte, with   *)
(* the padding, for every width that a role can be drawn with, phases that *)
(* lie across two bytes among them, and every dimension.                   *)
UnbindRestoresValue == job = "Ok" => recovered = value

(* To bind turns every phase of the role by the phase of the value, so the *)
(* cosine of the bound vector to the role is that of the value to the      *)
(* vector that binds as the identity.                                      *)
BindKeepsSimilarity ==
  job = "Ok" =>
    LET identity == IF K = 1 THEN [n \in 1 .. Dim |-> 1] ELSE Fresh(Dim, K)
    IN  Cosine(bound, role, Dim, K) = Cosine(value, identity, Dim, K)
=============================================================================
