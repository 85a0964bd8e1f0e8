-------------------------- MODULE ChatWindowProofs --------------------------
(***************************************************************************)
(* Who is told of a key, for any keyboard that has the three keys the      *)
(* program knows.                                                          *)
(***************************************************************************)
EXTENDS ChatWindow, TLAPS

LEMMA InitTypeOK == Init => TypeOK
BY DEF Init, TypeOK

(* Each branch of a press tells at most one of the two, and nothing else   *)
(* than that key is told (InputHooks.cpp:44-69, 96-102).                   *)
LEMMA PressTells ==
  ASSUME NEW k \in Keys, KeyDown(k)
  PROVE  /\ held' = held \cup {k} /\ unseen' = unseen \ {k}
         /\ \/ gameKeys' = gameKeys \cup {k} /\ imguiKeys' = imguiKeys
            \/ imguiKeys' = imguiKeys \cup {k} /\ gameKeys' = gameKeys
            \/ UNCHANGED <<gameKeys, imguiKeys>>
<1>1. CASE k = Return /\ ~inputOpen /\ ~gameSet
  BY <1>1 DEF KeyDown
<1>2. CASE ~(k = Return /\ ~inputOpen /\ ~gameSet)
  <2>1. /\ held' = held \cup {k} /\ unseen' = unseen \ {k}
        /\ (OpenByKey(k) \/ EditorReturn(k) \/ EscCloses(k) \/ OtherKey(k))
    BY <1>2 DEF KeyDown
  <2> QED
    BY <2>1 DEF OpenByKey, EditorReturn, EscCloses, OtherKey, TellOne
<1> QED
  BY <1>1, <1>2

(* A system key is told to one of the two, its press and its release       *)
(* alike, and a release is put on record (InputHooks.cpp:96-102).          *)
LEMMA SysKeyTells ==
  ASSUME NEW k \in Keys, SysKeyStep(k)
  PROVE  \/ /\ held' = held \cup {k} /\ unseen' = unseen \ {k}
            /\ \/ gameKeys' = gameKeys \cup {k} /\ imguiKeys' = imguiKeys
               \/ imguiKeys' = imguiKeys \cup {k} /\ gameKeys' = gameKeys
         \/ /\ held' = held \ {k} /\ unseen' = unseen \cup {k}
            /\ gameKeys' \subseteq gameKeys /\ imguiKeys' \subseteq imguiKeys
BY DEF SysKeyStep, SysKeyDown, SysKeyUp, KeyUpElsewhere, TellOne, TellOneUp

(* Every other step of the window leaves the keys alone. *)
LEMMA KeysAlone ==
  ASSUME (\E isDown \in BOOLEAN : Button(isDown)) \/ Frame \/ FirstUpdate \/ GameState
         \/ UNCHANGED vars
  PROVE  UNCHANGED keys
BY DEF Button, Frame, FirstUpdate, GameState, vars, keys

LEMMA StepTypeOK == TypeOK /\ [Next]_vars => TypeOK'
<1> SUFFICES ASSUME TypeOK, [Next]_vars PROVE TypeOK'
  OBVIOUS
<1> USE DEF TypeOK, flags, io, keys, rest
<1>1. ASSUME NEW k \in Keys, KeyDown(k) PROVE TypeOK'
  <2>1. {held', gameKeys', imguiKeys', unseen'} \subseteq SUBSET Keys
    BY <1>1, PressTells
  <2>2. UNCHANGED <<io, rest>> /\ status' \in {"running", "undefined"}
    BY <1>1 DEF KeyDown
  <2>3. {inputOpen', p_open', focusInput', popupOpen', freeCursor'} \subseteq BOOLEAN
    <3>1. UNCHANGED flags \/ OpenByKey(k) \/ EditorReturn(k) \/ EscCloses(k) \/ OtherKey(k)
      BY <1>1 DEF KeyDown
    <3> QED
      BY <3>1 DEF OpenByKey, EditorReturn, EscCloses, OtherKey
  <2> QED
    BY <2>1, <2>2, <2>3
<1>2. ASSUME NEW k \in Keys, KeyUp(k) PROVE TypeOK'
  BY <1>2 DEF KeyUp
<1>3. ASSUME NEW isDown \in BOOLEAN, Button(isDown) PROVE TypeOK'
  <2>1. {focusInput', inputOpen'} \subseteq BOOLEAN /\ status' \in {"running", "undefined"}
    BY <1>3 DEF Button, ClickWindow, ClickOutside, ClickTooEarly
  <2>2. MouseDown' \in BOOLEAN
    BY <1>3, <2>1 DEF Button
  <2> QED
    BY <1>3, <2>1, <2>2 DEF Button
<1>4. CASE Frame
  <2>1. {inputOpen', focusInput', focused', p_open', popupOpen', freeCursor'} \subseteq BOOLEAN
    <3>1. CASE DrawClosed
      BY <3>1 DEF DrawClosed
    <3>2. CASE DrawOpen
      <4>1. {p_open', popupOpen', freeCursor'} \subseteq BOOLEAN
        BY <3>2 DEF DrawOpen, UseClick
      <4>2. {inputOpen', focusInput', focused'} \subseteq BOOLEAN
        BY <3>2 DEF DrawOpen, DrawInput, Enter
      <4> QED
        BY <4>1, <4>2
    <3> QED
      BY <1>4, <3>1, <3>2 DEF Frame
  <2> QED
    BY <1>4, <2>1 DEF Frame
<1>5. CASE FirstUpdate
  BY <1>5 DEF FirstUpdate
<1>6. CASE GameState
  BY <1>6 DEF GameState
<1>7. CASE UNCHANGED vars
  BY <1>7 DEF vars
<1>8. ASSUME NEW k \in Keys, SysKeyStep(k) PROVE TypeOK'
  <2>1. {held', gameKeys', imguiKeys', unseen'} \subseteq SUBSET Keys
    BY <1>8, SysKeyTells
  <2>2. UNCHANGED <<flags, io, rest, status>>
    BY <1>8 DEF SysKeyStep, SysKeyDown, SysKeyUp, KeyUpElsewhere
  <2> QED
    BY <2>1, <2>2
<1> QED
  BY <1>1, <1>2, <1>3, <1>4, <1>5, <1>6, <1>7, <1>8 DEF Next

-----------------------------------------------------------------------------
(* The variables keep their types (InputHooks.cpp, Chat.cpp). *)
THEOREM TypeCorrect == Spec => []TypeOK
BY InitTypeOK, StepTypeOK, PTL DEF Spec

(* A key that the game or ImGui takes to be down is down, or was released  *)
(* in another way than by WM_KEYUP: whoever was told of the press and      *)
(* whatever opened or closed the input before the release, for any keys    *)
(* (InputHooks.cpp:70-73).                                                 *)
THEOREM NoKeyStuck == Spec => []NoStuckKey
<1>1. Init => NoStuckKey
  BY DEF Init, NoStuckKey
<1>2. NoStuckKey /\ [Next]_vars => NoStuckKey'
  <2> SUFFICES ASSUME NoStuckKey, [Next]_vars PROVE NoStuckKey'
    OBVIOUS
  <2>1. ASSUME NEW k \in Keys, KeyDown(k) PROVE NoStuckKey'
    BY <2>1, PressTells DEF NoStuckKey
  <2>2. ASSUME NEW k \in Keys, KeyUp(k) PROVE NoStuckKey'
    BY <2>2 DEF KeyUp, NoStuckKey
  <2>3. ASSUME UNCHANGED keys PROVE NoStuckKey'
    BY <2>3 DEF keys, NoStuckKey
  <2>4. ASSUME NEW k \in Keys, SysKeyStep(k) PROVE NoStuckKey'
    BY <2>4, SysKeyTells DEF NoStuckKey
  <2> QED
    BY <2>1, <2>2, <2>3, <2>4, KeysAlone DEF Next
<1> QED
  BY <1>1, <1>2, PTL DEF Spec

(* No step tells both the game and ImGui of a press, whatever the handler  *)
(* did to the input before it chose (InputHooks.cpp:44-69, 96-102).        *)
THEOREM PressGoesToOne == Spec => PressToOne
<1>1. [Next]_vars => \A k \in Keys : ~ToldBoth(k)
  <2> SUFFICES ASSUME [Next]_vars, NEW k \in Keys, ToldBoth(k) PROVE FALSE
    OBVIOUS
  <2>1. ASSUME NEW l \in Keys, KeyDown(l) PROVE FALSE
    BY <2>1, PressTells DEF ToldBoth
  <2>2. ASSUME NEW l \in Keys, KeyUp(l) PROVE FALSE
    BY <2>2 DEF KeyUp, ToldBoth
  <2>3. ASSUME UNCHANGED keys PROVE FALSE
    BY <2>3 DEF keys, ToldBoth
  <2>4. ASSUME NEW l \in Keys, SysKeyStep(l) PROVE FALSE
    BY <2>4, SysKeyTells DEF ToldBoth
  <2> QED
    BY <2>1, <2>2, <2>3, <2>4, KeysAlone DEF Next
<1> QED
  BY <1>1, PTL DEF Spec, PressToOne
=============================================================================
