---------------------------- MODULE PresetProofs ----------------------------
(***************************************************************************)
(* The ring of presets keeps what its answers promise, for any number of   *)
(* controllers, instances, inquiries and restarts and any ranges.          *)
(*                                                                         *)
(* The argument: as long as a save is remembered, the ring is less than    *)
(* one lap ahead of it (Linked), so no later save has its number.  For     *)
(* that the saves since must come through its own ring, and a restart,     *)
(* which resets the ring, must not have happened: saves never carry a      *)
(* later start than the present one.                                       *)
(***************************************************************************)
EXTENDS PresetRing, TLAPS

\* The ring stands Len(saved) - k steps after save k, counted around the range.
Linked(k) ==
    LET i == saved[k].instance
        steps == Len(saved) - k
    IN  \/ current_preset[i] = saved[k].token + steps
        \/ /\ current_preset[i] + Window(i) = saved[k].token + steps
           /\ current_preset[i] >= preset_range_min[i]

SaveSound(k) ==
    /\ saved[k].start <= restarts
    /\ saved[k].number = saved[k].token
    /\ saved[k].token <= preset_range_max[saved[k].instance]

RingInv ==
    /\ TypeOK
    /\ \A k \in 1..Len(saved) :
            SaveSound(k) /\ (Remembered(k) => Linked(k) /\ Recalls(k))

------------------------------------------------------------------------------
\* Numbers of two bytes.
LEMMA TokenNat ==
    /\ TokenLimit \in Nat /\ TokenLimit > 0
    /\ \A t : t \in Token <=> t \in Nat /\ t < TokenLimit
  <1>1. TokenLimit \in Nat /\ TokenLimit > 0
    BY DEF TokenLimit
  <1> QED
    BY <1>1 DEF Token

\* Two bytes carry every preset number unchanged.
LEMMA EncodeExact == \A t \in Token : Encode(t) = t
  <1> SUFFICES ASSUME NEW t \in Token PROVE Encode(t) = t
    OBVIOUS
  <1>1. t \in Nat /\ t < 65536
    BY TokenNat DEF TokenLimit
  <1> QED
    BY <1>1 DEF Encode, TokenLimit

\* A successor is a number of the ring's first lap or of its range.
LEMMA SuccessorInRing ==
    ASSUME TypeOK, NEW i \in Instance
    PROVE  /\ Successor(i) \in Token
           /\ Successor(i) <= preset_range_max[i]
           /\ preset_range_min[i] <= 1 => Successor(i) >= preset_range_min[i]
  <1>1. /\ preset_range_min[i] \in Nat /\ preset_range_max[i] \in Nat
        /\ preset_range_min[i] <= preset_range_max[i]
        /\ preset_range_max[i] < TokenLimit
    BY RangeAssumption
  <1>2. current_preset[i] \in Nat
    BY TokenNat DEF TypeOK
  <1> QED
    BY <1>1, <1>2, TokenNat DEF Successor

\* Storing a preset keeps the camera's presets a function from numbers to
\* positions.
LEMMA SetPresetType ==
    ASSUME TypeOK, NEW t \in Token
    PROVE  /\ DOMAIN SetPreset(t) = DOMAIN preset \cup {t}
           /\ DOMAIN SetPreset(t) \subseteq Token
           /\ SetPreset(t) \in [DOMAIN SetPreset(t) -> Position]
           /\ SetPreset(t)[t] = at
           /\ \A n \in DOMAIN preset \ {t} : SetPreset(t)[n] = preset[n]
  BY DEF TypeOK, SetPreset

LEMMA InitRing == Init => RingInv
  <1> SUFFICES ASSUME Init PROVE RingInv
    OBVIOUS
  <1>1. /\ current_preset \in [Instance -> Token]
        /\ \A i \in Instance : current_preset[i] <= preset_range_max[i]
    <2>1. 0 \in Token /\ \A i \in Instance : preset_range_max[i] \in Nat
      BY RangeAssumption, TokenNat
    <2> QED
      BY <2>1 DEF Init
  <1>2. saved \in Seq(Save) /\ Len(saved) = 0
    BY DEF Init
  <1>3. DOMAIN preset \subseteq Token /\ preset \in [DOMAIN preset -> Position]
    BY DEF Init
  <1>4. reply \in [Client -> 0..Len(saved)] /\ restarts \in Nat /\ at \in Position
    BY <1>2 DEF Init
  <1> QED
    BY <1>1, <1>2, <1>3, <1>4 DEF RingInv, TypeOK

\* One more inquiry moves the ring one step on from every save it remembers,
\* and to a number none of them has.
LEMMA OneStepOn ==
    ASSUME RingInv, NEW k \in 1..Len(saved), Remembered(k),
           Len(saved) + 1 - k < Window(saved[k].instance)
    PROVE  LET i == saved[k].instance
               t == Successor(i)
               steps == Len(saved) + 1 - k
           IN  /\ t # saved[k].token
               /\ \/ t = saved[k].token + steps
                  \/ /\ t + Window(i) = saved[k].token + steps
                     /\ t >= preset_range_min[i]
  <1> DEFINE i == saved[k].instance
             cur == current_preset[i]
             tok == saved[k].token
             low == preset_range_min[i]
             high == preset_range_max[i]
             len == Len(saved)
  <1>1. saved[k] \in Save
    BY DEF RingInv, TypeOK
  <1>2. i \in Instance /\ tok \in Nat
    BY <1>1, TokenNat DEF Save
  <1>3. low \in Nat /\ high \in Nat /\ low <= high
    BY <1>2, RangeAssumption
  <1>4. cur \in Nat /\ cur <= high
    BY <1>2, TokenNat DEF RingInv, TypeOK
  <1>5. tok <= high
    BY DEF RingInv, SaveSound
  <1>6. \/ cur = tok + (len - k)
        \/ cur + (high - low + 1) = tok + (len - k) /\ cur >= low
    BY DEF RingInv, Linked, Window
  <1>7. len \in Nat /\ k \in 1..len /\ len + 1 - k < high - low + 1
    BY DEF RingInv, TypeOK, Window
  <1>8. Successor(i) = IF cur + 1 > high THEN low ELSE cur + 1
    BY DEF Successor
  <1> HIDE DEF cur, tok, low, high, len
  <1>9. /\ Successor(i) # tok
        /\ \/ Successor(i) = tok + (len + 1 - k)
           \/ /\ Successor(i) + (high - low + 1) = tok + (len + 1 - k)
              /\ Successor(i) >= low
    BY <1>2, <1>3, <1>4, <1>5, <1>6, <1>7, <1>8
  <1> QED
    BY <1>9 DEF cur, tok, low, high, len, Window

\* An inquiry preserves the invariant.
LEMMA InquiryStep ==
    ASSUME RingInv, NEW i \in Instance, NEW c \in Client,
           bridge_inq_pan_tilt_position(i, c)
    PROVE  RingInv'
  <1>a. PICK t : t = Successor(i)
    OBVIOUS
  <1>b. PICK last : last = Len(saved) + 1
    OBVIOUS
  <1>c. PICK now \in Position, started \in Nat : now = at /\ started = restarts
    BY DEF RingInv, TypeOK
  <1> DEFINE save == [instance |-> i, start |-> started, token |-> t,
                      at |-> now, client |-> c, number |-> Encode(t)]
  <1>1. t \in Token /\ t <= preset_range_max[i]
    BY <1>a, SuccessorInRing DEF RingInv
  <1>2. Encode(t) = t
    BY <1>1, EncodeExact
  <1>3. /\ current_preset' = [current_preset EXCEPT ![i] = t]
        /\ preset' = SetPreset(t)
        /\ saved' = Append(saved, save)
        /\ at' = at /\ reply' = reply /\ restarts' = restarts
    BY <1>a, <1>c DEF bridge_inq_pan_tilt_position
  <1>4. save \in Save
    BY <1>1, <1>2, TokenNat DEF Save
  <1>5. /\ saved' \in Seq(Save) /\ Len(saved') = last /\ Len(saved) \in Nat
        /\ saved'[last] = save
        /\ \A k \in 1..Len(saved) : saved'[k] = saved[k]
    <2> HIDE DEF save
    <2> QED
      BY <1>b, <1>3, <1>4 DEF RingInv, TypeOK
  <1>6. TypeOK'
    <2>1. /\ current_preset' \in [Instance -> Token]
          /\ \A j \in Instance : current_preset'[j] <= preset_range_max[j]
      BY <1>1, <1>3 DEF RingInv, TypeOK
    <2>2. DOMAIN preset' \subseteq Token /\ preset' \in [DOMAIN preset' -> Position]
      BY <1>1, <1>3, SetPresetType DEF RingInv
    <2>3. reply' \in [Client -> 0..Len(saved')]
      BY <1>3, <1>5 DEF RingInv, TypeOK
    <2>4. at' \in Position /\ restarts' \in Nat
      BY <1>3 DEF RingInv, TypeOK
    <2> QED
      BY <1>5, <2>1, <2>2, <2>3, <2>4 DEF TypeOK
  <1>7. ASSUME NEW k \in 1..Len(saved)
        PROVE  SaveSound(k)' /\ (Remembered(k)' => Linked(k)' /\ Recalls(k)')
    <2>1. saved'[k] = saved[k] /\ SaveSound(k) /\ saved[k] \in Save
      BY <1>5 DEF RingInv, TypeOK
    <2>2. SaveSound(k)'
      BY <2>1, <1>3 DEF SaveSound
    <2>3. ASSUME Remembered(k)'
          PROVE  Linked(k)' /\ Recalls(k)'
      <3>1. saved[k].instance = i /\ k \in 1..last
        <4>1. last \in k..Len(saved')
          BY <1>b, <1>5
        <4>2. saved'[last].instance = saved'[k].instance
          BY <2>3, <4>1 DEF Remembered, Unbroken
        <4> QED
          BY <4>2, <2>1, <1>5, <1>b
      <3>2. Remembered(k)
        <4>1. \A j \in k..Len(saved) : j \in k..Len(saved') /\ saved'[j] = saved[j]
          BY <1>b, <1>5
        <4>2. Unbroken(k)
          BY <4>1, <2>1, <2>3, <1>3 DEF Remembered, Unbroken
        <4>3. Window(i) \in Int
          BY RangeAssumption DEF Window
        <4>4. Len(saved') - k < Window(i)
          BY <2>1, <2>3, <3>1 DEF Remembered, Window
        <4>5. Len(saved) - k < Window(i)
          BY <1>b, <1>5, <4>3, <4>4
        <4> QED
          BY <4>2, <4>5, <3>1 DEF Remembered
      <3>3. last - k < Window(i)
        BY <2>1, <2>3, <1>5, <3>1 DEF Remembered, Window
      <3>4. /\ t # saved[k].token
            /\ \/ t = saved[k].token + (last - k)
               \/ /\ t + Window(i) = saved[k].token + (last - k)
                  /\ t >= preset_range_min[i]
        BY <1>a, <1>b, <3>1, <3>2, <3>3, OneStepOn
      <3>5. current_preset'[i] = t
        BY <1>3 DEF RingInv, TypeOK
      <3>6. Linked(k)'
        BY <1>b, <2>1, <3>1, <3>4, <3>5, <1>5 DEF Linked, Window
      <3>7. Recalls(k)
        BY <3>2 DEF RingInv
      <3>8. Recalls(k)'
        BY <2>1, <3>4, <3>7, <1>1, <1>3, SetPresetType
        DEF Recalls, Decode, SaveSound, RingInv
      <3> QED
        BY <3>6, <3>8
    <2> QED
      BY <2>2, <2>3
  <1>8. SaveSound(last)' /\ Linked(last)' /\ Recalls(last)'
    <2>0. /\ saved'[last].instance = i /\ saved'[last].start = restarts
          /\ saved'[last].token = t /\ saved'[last].number = t
          /\ saved'[last].at = at
      BY <1>c, <1>2, <1>5
    <2>1. SaveSound(last)'
      <3>1. restarts \in Nat /\ restarts <= restarts
        BY DEF RingInv, TypeOK
      <3>2. saved'[last].start <= restarts' /\ saved'[last].number = saved'[last].token
        BY <1>3, <2>0, <3>1
      <3>3. saved'[last].token <= preset_range_max[saved'[last].instance]
        BY <1>1, <2>0
      <3> QED
        BY <3>2, <3>3 DEF SaveSound
    <2>2. Linked(last)'
      <3>1. current_preset'[i] = t
        BY <1>3 DEF RingInv, TypeOK
      <3>2. t \in Nat
        BY <1>1, TokenNat
      <3> QED
        BY <1>5, <2>0, <3>1, <3>2 DEF Linked
    <2>3. Recalls(last)'
      <3>1. preset' = SetPreset(t) /\ t \in DOMAIN SetPreset(t) /\ SetPreset(t)[t] = at
        BY <1>1, <1>3, SetPresetType DEF RingInv
      <3> QED
        BY <2>0, <3>1 DEF Recalls, Decode
    <2> QED
      BY <2>1, <2>2, <2>3
  <1>9. \A k \in 1..Len(saved') : k \in 1..Len(saved) \/ k = last
    BY <1>b, <1>5
  <1>10. ASSUME NEW k \in 1..Len(saved')
         PROVE  SaveSound(k)' /\ (Remembered(k)' => Linked(k)' /\ Recalls(k)')
    <2>1. CASE k \in 1..Len(saved)
      BY <2>1, <1>7
    <2>2. CASE k = last
      BY <2>2, <1>8
    <2> QED
      BY <2>1, <2>2, <1>9
  <1> QED
    BY <1>6, <1>10 DEF RingInv

\* Whatever happens between inquiries preserves the invariant; a restart
\* forgets every save.
LEMMA OtherStep ==
    ASSUME RingInv,
           \/ \E p \in Position : Move(p)
           \/ \E k \in 1..Len(saved) : Deliver(k)
           \/ \E c \in Client : bridge_cmd_pan_tilt_absolute_preset(c)
           \/ UNCHANGED vars
    PROVE  RingInv'
  <1>1. /\ current_preset' = current_preset /\ preset' = preset
        /\ saved' = saved /\ restarts' = restarts
    BY Zenon DEF Move, Deliver, bridge_cmd_pan_tilt_absolute_preset, vars
  <1>2. at' \in Position
    <2>1. ASSUME NEW c \in Client, bridge_cmd_pan_tilt_absolute_preset(c)
          PROVE  at' \in Position
      BY <2>1 DEF bridge_cmd_pan_tilt_absolute_preset, RingInv, TypeOK
    <2> QED
      BY <2>1 DEF RingInv, TypeOK, Move, Deliver, vars
  <1>3. reply' \in [Client -> 0..Len(saved)]
    BY DEF RingInv, TypeOK, Move, Deliver, bridge_cmd_pan_tilt_absolute_preset, vars
  <1> QED
    BY <1>1, <1>2, <1>3
    DEF RingInv, TypeOK, SaveSound, Remembered, Unbroken, Linked, Recalls

LEMMA RestartStep ==
    ASSUME RingInv, Restart
    PROVE  RingInv'
  <1>1. /\ restarts' = restarts + 1 /\ restarts \in Nat
        /\ saved' = saved /\ reply' = reply /\ at' = at
        /\ current_preset' = [i \in Instance |-> 0]
    BY DEF Restart, RingInv, TypeOK
  <1>2. DOMAIN preset' \subseteq Token /\ preset' \in [DOMAIN preset' -> Position]
    <2>1. CASE UNCHANGED preset
      BY <2>1 DEF RingInv, TypeOK
    <2>2. ASSUME NEW i \in Instance, preset' = SetPreset(Successor(i))
          PROVE  DOMAIN preset' \subseteq Token /\ preset' \in [DOMAIN preset' -> Position]
      BY <2>2, SuccessorInRing, SetPresetType DEF RingInv
    <2> QED
      BY <2>1, <2>2 DEF Restart
  <1>3. /\ current_preset' \in [Instance -> Token]
        /\ \A i \in Instance : current_preset'[i] <= preset_range_max[i]
    BY <1>1, RangeAssumption, TokenNat
  <1>4. TypeOK'
    BY <1>1, <1>2, <1>3 DEF RingInv, TypeOK
  <1>5. ASSUME NEW k \in 1..Len(saved)
        PROVE  SaveSound(k)' /\ ~Remembered(k)'
    <2>1. SaveSound(k) /\ saved[k] \in Save
      BY DEF RingInv, TypeOK
    <2>2. saved[k].start \in Nat
      BY <2>1 DEF Save
    <2>3. saved[k].start # restarts'
      BY <1>1, <2>1, <2>2 DEF SaveSound
    <2>4. k \in k..Len(saved)
      BY DEF RingInv, TypeOK
    <2> QED
      BY <1>1, <2>1, <2>2, <2>3, <2>4 DEF SaveSound, Remembered, Unbroken
  <1> QED
    BY <1>1, <1>4, <1>5 DEF RingInv

------------------------------------------------------------------------------
\* The invariant holds in every state the rings can reach.
THEOREM RingInductive == Spec => []RingInv
  <1>1. RingInv /\ [Next]_vars => RingInv'
    <2> SUFFICES ASSUME RingInv, [Next]_vars PROVE RingInv'
      OBVIOUS
    <2>1. CASE \E i \in Instance, c \in Client : bridge_inq_pan_tilt_position(i, c)
      BY <2>1, InquiryStep
    <2>2. CASE Restart
      BY <2>2, RestartStep
    <2>3. CASE \/ \E p \in Position : Move(p)
               \/ \E k \in 1..Len(saved) : Deliver(k)
               \/ \E c \in Client : bridge_cmd_pan_tilt_absolute_preset(c)
               \/ UNCHANGED vars
      BY <2>3, OtherStep
    <2> QED
      BY <2>1, <2>2, <2>3 DEF Next
  <1> QED
    BY <1>1, InitRing, PTL DEF Spec

\* Every token is a number of two bytes and every reply that is under way is to
\* a save.
THEOREM TypeCorrect == Spec => []TypeOK
  <1>1. RingInv => TypeOK
    BY DEF RingInv
  <1> QED
    BY <1>1, RingInductive, PTL

\* A controller that sends back its number is brought back to where the camera
\* was, while the ring remembers (bridge_inq_pan_tilt_position).
THEOREM RecallCorrect == Spec => []RecallReturns
  <1>1. RingInv => RecallReturns
    <2> SUFFICES ASSUME RingInv, NEW c \in Client, reply[c] # 0, Remembered(reply[c])
                 PROVE  Recalls(reply[c])
      BY DEF RecallReturns
    <2>1. reply[c] \in 1..Len(saved)
      BY DEF RingInv, TypeOK
    <2> QED
      BY <2>1 DEF RingInv
  <1> QED
    BY <1>1, RingInductive, PTL

\* A range whose minimum is at most 1 is kept to from the first lap on.
THEOREM RangeKept ==
    ASSUME \A i \in Instance : preset_range_min[i] <= 1
    PROVE  Spec => []PresetInRange
  <1>1. Init => PresetInRange
    BY DEF Init, PresetInRange
  <1>2. RingInv /\ PresetInRange /\ [Next]_vars => PresetInRange'
    <2> SUFFICES ASSUME RingInv, PresetInRange, [Next]_vars PROVE PresetInRange'
      OBVIOUS
    <2>1. ASSUME NEW i \in Instance, NEW c \in Client,
                 bridge_inq_pan_tilt_position(i, c)
          PROVE  PresetInRange'
      <3> DEFINE t == Successor(i)
                 save == [instance |-> i, start |-> restarts, token |-> t,
                          at |-> at, client |-> c, number |-> Encode(t)]
      <3>1. t \in preset_range_min[i]..preset_range_max[i]
        BY SuccessorInRing, RangeAssumption, TokenNat DEF RingInv
      <3>2. saved' = Append(saved, save) /\ saved \in Seq(Save)
        BY <2>1 DEF bridge_inq_pan_tilt_position, RingInv, TypeOK
      <3>3. save.instance = i /\ save.token = t
        OBVIOUS
      <3> HIDE DEF save, t
      <3>4. ASSUME NEW k \in 1..Len(saved')
            PROVE  saved'[k].token
                     \in preset_range_min[saved'[k].instance]..preset_range_max[saved'[k].instance]
        <4>1. CASE k \in 1..Len(saved)
          BY <3>2, <4>1 DEF PresetInRange
        <4>2. CASE k = Len(saved) + 1
          BY <3>1, <3>2, <3>3, <4>2
        <4> QED
          BY <3>2, <4>1, <4>2
      <3> QED
        BY <3>4 DEF PresetInRange
    <2>2. CASE UNCHANGED saved
      BY <2>2 DEF PresetInRange
    <2> QED
      BY <2>1, <2>2 DEF Next, Move, Deliver, bridge_cmd_pan_tilt_absolute_preset,
                        Restart, vars
  <1> QED
    BY <1>1, <1>2, RingInductive, PTL DEF Spec

==============================================================================
