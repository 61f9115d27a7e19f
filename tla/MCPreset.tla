----------------------------- MODULE MCPreset -----------------------------
(***************************************************************************)
(* Small instances of PresetRing: two controllers and a camera that has    *)
(* one instance from the config file and one from discovery.               *)
(***************************************************************************)
EXTENDS PresetRing, TLC

CONSTANTS c1, c2, here, there

Controllers == {c1, c2}
Places == {here, there}
Symmetric == Permutations(Controllers) \cup Permutations(Places)

\* A range of three, its minimum 1, and a range of two, its minimum 0.
MinOneZero == <<1, 0>>
MaxThreeOne == <<3, 1>>


==============================================================================
