------------------------- MODULE ConfigLoaderProofs -------------------------
(***************************************************************************)
(* ConfigLoader's properties for any options and any texts and values of   *)
(* them.  Load is a sequence of steps, so the invariant says what has been *)
(* decided by the time each is reached, and Normalize's result is compared *)
(* with the sources case by case.                                          *)
(***************************************************************************)
EXTENDS ConfigLoader, TLAPS

Steps == {"dotenv", "read", "unmarshal", "override", "normalize", "loaded", "failed"}

\* What Unmarshal, ApplyEnvOverrides and Normalize make of an option.
Merged(o) ==
    IF Bound(o) THEN Decoded(env[o]) ELSE IF file[o] = Absent THEN DefaultConfig[o] ELSE file[o]
Overridden(o) == IF Overrides(o) THEN env[o].value ELSE Merged(o)
Normalized(o) == IF NeedsDefault(o, Overridden(o)) THEN DefaultConfig[o] ELSE Overridden(o)

TextOK(o, text) ==
    /\ text.form \in Forms
    /\ text.form \in {"based", "octal", "nonoctal"} => o \in Numbers
    /\ text.form = "garbage" => o \notin Names
    /\ text.form \in WithValue => text.value \notin {"", " "}

Broken == malformed \/ shape = "broken"

IInv ==
    /\ pc \in Steps
    /\ \A o \in Options : TextOK(o, env[o]) /\ TextOK(o, dotenv[o])
    /\ pc \notin {"dotenv", "failed"} => ~malformed
    /\ pc \notin {"dotenv", "read", "failed"} => shape # "broken"
    /\ pc \in {"dotenv", "read", "unmarshal"} => cfg = DefaultConfig
    /\ pc \in {"override", "normalize", "loaded"} => \A o \in Options : Decodable(o)
    /\ pc = "override" => \A o \in Options : cfg[o] = Merged(o)
    /\ pc = "normalize" => \A o \in Options : cfg[o] = Overridden(o)
    /\ pc = "loaded" => \A o \in Options : cfg[o] = Normalized(o)
    /\ pc = "failed" => Broken \/ \E o \in Options : ~Decodable(o)

LEMMA InitHolds == Init => IInv
<1> SUFFICES ASSUME Init PROVE IInv
  OBVIOUS
<1>1. ASSUME NEW o \in Options PROVE env[o] \in EnvTexts(o) /\ dotenv[o] \in DotEnvTexts(o)
  BY <1>1 DEF Init, Choices
<1>2. ASSUME NEW o \in Options PROVE TextOK(o, env[o]) /\ TextOK(o, dotenv[o])
  <2>1. ASSUME NEW text \in EnvTexts(o) \cup DotEnvTexts(o) PROVE TextOK(o, text)
    <3>1. /\ text \in [form : Forms, value : STRING]
          /\ text.form \in {"based", "octal", "nonoctal"} => o \in Numbers
          /\ text.form = "garbage" => o \notin Names
          /\ text.form \in WithValue => text.value \notin {"", " "}
      BY <1>2, <2>1, TextsAssumption, Zenon
    <3> QED
      BY <3>1 DEF TextOK
  <2>2. /\ env[o] \in EnvTexts(o) \cup DotEnvTexts(o)
        /\ dotenv[o] \in EnvTexts(o) \cup DotEnvTexts(o)
    BY <1>1, <1>2
  <2> QED
    BY <2>1, <2>2
<1> QED
  BY <1>2 DEF Init, IInv, Steps

LEMMA LoadDotEnvKeeps == IInv /\ LoadDotEnv => IInv'
<1> SUFFICES ASSUME IInv, LoadDotEnv PROVE IInv'
  OBVIOUS
<1>1. CASE malformed
  BY <1>1 DEF IInv, LoadDotEnv, Fail, inputs, Steps, TextOK, Broken
<1>2. CASE ~malformed
  <2>1. /\ env' = [o \in Options |-> IF env[o] = Unset THEN dotenv[o] ELSE env[o]]
        /\ pc = "dotenv" /\ pc' = "read" /\ cfg' = cfg /\ UNCHANGED inputs
    BY <1>2 DEF LoadDotEnv
  <2>2. \A o \in Options : TextOK(o, env'[o]) /\ TextOK(o, dotenv'[o])
    BY <2>1 DEF IInv, inputs, TextOK
  <2> QED
    BY <1>2, <2>1, <2>2 DEF IInv, inputs, Steps, TextOK
<1> QED
  BY <1>1, <1>2

LEMMA ReadInConfigKeeps == IInv /\ ReadInConfig => IInv'
<1> SUFFICES ASSUME IInv, ReadInConfig PROVE IInv'
  OBVIOUS
<1>1. UNCHANGED <<inputs, env>> /\ pc = "read"
  BY DEF ReadInConfig
<1>2. \A o \in Options : TextOK(o, env[o])' /\ TextOK(o, dotenv[o])'
  BY <1>1 DEF IInv, inputs, TextOK
<1>3. CASE shape = "broken"
  <2>1. pc' = "failed" /\ Broken'
    BY <1>1, <1>3 DEF ReadInConfig, Fail, Broken, inputs
  <2> QED
    BY <1>2, <2>1 DEF IInv, Steps
<1>4. CASE shape # "broken"
  <2>1. pc' = "unmarshal" /\ cfg' = cfg
    BY <1>4 DEF ReadInConfig
  <2> QED
    BY <1>1, <1>2, <1>4, <2>1 DEF IInv, Steps, inputs
<1> QED
  BY <1>3, <1>4

\* Nothing an option is made of changes after the .env files are read.
LEMMA SourcesStay ==
    ASSUME UNCHANGED <<inputs, env>>
    PROVE  \A o \in Options :
               /\ Decodable(o)' <=> Decodable(o)
               /\ Merged(o)' = Merged(o)
               /\ Overridden(o)' = Overridden(o)
               /\ Normalized(o)' = Normalized(o)
BY DEF inputs, Decodable, Bound, Merged, Overrides, Overridden, Normalized

LEMMA UnmarshalKeeps == IInv /\ Unmarshal => IInv'
<1> SUFFICES ASSUME IInv, Unmarshal PROVE IInv'
  OBVIOUS
<1>1. UNCHANGED <<inputs, env>> /\ pc = "unmarshal" /\ cfg = DefaultConfig
  BY DEF Unmarshal, IInv
<1>2. \A o \in Options : TextOK(o, env[o])' /\ TextOK(o, dotenv[o])'
  BY <1>1 DEF IInv, inputs, TextOK
<1>3. CASE \E o \in Options : ~Decodable(o)
  <2>1. pc' = "failed"
    BY <1>3 DEF Unmarshal, Fail
  <2> QED
    BY <1>1, <1>2, <1>3, <2>1, SourcesStay DEF IInv, Steps
<1>4. CASE \A o \in Options : Decodable(o)
  <2>1. /\ pc' = "override"
        /\ \A o \in Options : cfg'[o] = Merged(o)
    BY <1>1, <1>4 DEF Unmarshal, Merged
  <2> QED
    BY <1>1, <1>2, <1>4, <2>1, SourcesStay DEF IInv, Steps, inputs
<1> QED
  BY <1>3, <1>4

LEMMA ApplyEnvOverridesKeeps == IInv /\ ApplyEnvOverrides => IInv'
<1> SUFFICES ASSUME IInv, ApplyEnvOverrides PROVE IInv'
  OBVIOUS
<1>1. UNCHANGED <<inputs, env>> /\ pc = "override" /\ pc' = "normalize"
  BY DEF ApplyEnvOverrides
<1>2. \A o \in Options : cfg'[o] = Overridden(o)
  BY <1>1 DEF ApplyEnvOverrides, IInv, Overridden
<1>3. \A o \in Options : TextOK(o, env[o])' /\ TextOK(o, dotenv[o])'
  BY <1>1 DEF IInv, inputs, TextOK
<1> QED
  BY <1>1, <1>2, <1>3, SourcesStay DEF IInv, Steps, inputs

LEMMA NormalizeKeeps == IInv /\ Normalize => IInv'
<1> SUFFICES ASSUME IInv, Normalize PROVE IInv'
  OBVIOUS
<1>1. UNCHANGED <<inputs, env>> /\ pc = "normalize" /\ pc' = "loaded"
  BY DEF Normalize
<1>2. \A o \in Options : cfg'[o] = Normalized(o)
  BY <1>1 DEF Normalize, IInv, Normalized
<1>3. \A o \in Options : TextOK(o, env[o])' /\ TextOK(o, dotenv[o])'
  BY <1>1 DEF IInv, inputs, TextOK
<1> QED
  BY <1>1, <1>2, <1>3, SourcesStay DEF IInv, Steps, inputs

\* The inductive invariant holds at every step of Load.
THEOREM Invariance == Spec => []IInv
<1>1. IInv /\ [Next]_vars => IInv'
  <2> SUFFICES ASSUME IInv, [Next]_vars PROVE IInv'
    OBVIOUS
  <2>1. CASE Next
    BY <2>1, LoadDotEnvKeeps, ReadInConfigKeeps, UnmarshalKeeps, ApplyEnvOverridesKeeps,
       NormalizeKeeps DEF Next
  <2>2. CASE UNCHANGED vars
    <3>1. UNCHANGED <<inputs, env>> /\ pc' = pc /\ cfg' = cfg
      BY <2>2 DEF vars
    <3> QED
      BY <3>1, SourcesStay DEF IInv, TextOK, Broken, inputs
  <2> QED
    BY <2>1, <2>2
<1> QED
  BY InitHolds, <1>1, PTL DEF Spec

-----------------------------------------------------------------------------
(* What the invariant says of the properties *)

LEMMA OptionKinds ==
    ASSUME NEW o \in Options
    PROVE  /\ o \in Numbers \/ o \in Flags \/ o \in Names
           /\ ~(o \in Numbers /\ o \in Flags)
           /\ ~(o \in Numbers /\ o \in Names)
           /\ ~(o \in Flags /\ o \in Names)
BY KindsAssumption DEF Options

\* Outside a section an option stops Unmarshal for the reasons listed, and no other.
LEMMA ReasonIsUndecodable ==
    ASSUME NEW o \in Options, TextOK(o, env[o])
    PROVE  Reason(o) <=> ~Decodable(o)
BY OptionKinds DEF TextOK, Forms, WithValue, Reason, Decodable, Bound, InViper, Decodes, Parses

\* Once Decodable, an option is what the first source that has it says.
LEMMA OverriddenIsValue ==
    ASSUME NEW o \in Options, TextOK(o, env[o]), Decodable(o), ~Uneven(o)
    PROVE  Overridden(o) = Value(o)
<1>1. CASE env[o].form \in WithValue
  BY <1>1, OptionKinds DEF WithValue, Overridden, Overrides, LookupEnv, Parses, Trimmed, Value,
     Decodable, Bound, InViper, Decodes
<1>2. CASE env[o].form \notin WithValue
  <2>1. ~Overrides(o)
    BY <1>2, OptionKinds DEF TextOK, Forms, WithValue, Overrides, LookupEnv, Parses, Trimmed
  <2>2. ~Bound(o)
    BY <1>2, OptionKinds DEF TextOK, Forms, WithValue, Decodable, Bound, InViper, Decodes, Uneven
  <2> QED
    BY <1>2, <2>1, <2>2 DEF Overridden, Merged, Value
<1> QED
  BY <1>1, <1>2

\* config/load.go and Config.Normalize: environment, file, default, in that
\* order, for each option, whatever the other options are.
THEOREM SourcesInOrder == Spec => []FirstSourceDecides
<1>1. IInv => FirstSourceDecides
  <2> SUFFICES ASSUME IInv, pc = "loaded", NEW o \in Options, ~Uneven(o)
               PROVE  cfg[o] = IF NeedsDefault(o, Value(o)) THEN DefaultConfig[o] ELSE Value(o)
    BY Zenon DEF FirstSourceDecides
  <2>1. TextOK(o, env[o]) /\ Decodable(o) /\ cfg[o] = Normalized(o)
    BY DEF IInv
  <2>2. Overridden(o) = Value(o)
    BY <2>1, OverriddenIsValue
  <2> QED
    BY <2>1, <2>2 DEF Normalized
<1> QED
  BY Invariance, <1>1, PTL

\* What Load returns without an error has positive limits and durations, and
\* headers with names, but for a blank that a source put there.
THEOREM UsableWhenLoaded == Spec => []LoadedIsUsable
<1>1. IInv => LoadedIsUsable
  <2> SUFFICES ASSUME IInv, pc = "loaded" PROVE LoadedIsUsable
    BY DEF LoadedIsUsable
  <2>1. ASSUME NEW o \in Numbers PROVE cfg[o] # "0"
    <3>1. o \in Options /\ o \notin Names
      BY <2>1, KindsAssumption DEF Options
    <3> QED
      BY <2>1, <3>1 DEF IInv, Normalized, NeedsDefault, DefaultConfig
  <2>2. ASSUME NEW o \in Names
        PROVE  cfg[o] # "" /\ (cfg[o] = " " => file[o] = " " \/ Uneven(o))
    <3>1. o \in Options /\ o \notin Numbers /\ o \notin Flags
      BY <2>2, KindsAssumption DEF Options
    <3>2. TextOK(o, env[o]) /\ Decodable(o) /\ cfg[o] = Normalized(o)
      BY <3>1 DEF IInv
    <3>3. cfg[o] # ""
      BY <2>2, <3>1, <3>2 DEF Normalized, NeedsDefault, DefaultConfig
    <3>4. ASSUME cfg[o] = " ", ~Uneven(o) PROVE file[o] = " "
      <4>1. Overridden(o) = Value(o)
        BY <3>1, <3>2, <3>4, OverriddenIsValue
      <4>2. Value(o) = " "
        BY <2>2, <3>1, <3>2, <3>4, <4>1 DEF Normalized, NeedsDefault, DefaultConfig
      <4> QED
        BY <2>2, <3>1, <3>2, <4>2 DEF Value, TextOK, DefaultConfig
    <3> QED
      BY <3>3, <3>4
  <2> QED
    BY <2>1, <2>2 DEF LoadedIsUsable
<1> QED
  BY Invariance, <1>1, PTL

\* Load fails exactly for a file it cannot read, for a value in it that is of
\* another kind, and, outside a section, for a variable that mapstructure does not
\* convert: a blank, padded or wrong one, and a limit like 08.
THEOREM FailureHasReason == Spec => []FailsForAReason
<1>1. IInv => FailsForAReason
  <2> SUFFICES ASSUME IInv, pc \in {"failed", "loaded"}
               PROVE  pc = "failed" <=> Broken \/ \E o \in Options : Reason(o)
    BY DEF FailsForAReason, Broken
  <2>1. \A o \in Options : Reason(o) <=> ~Decodable(o)
    BY ReasonIsUndecodable DEF IInv
  <2> QED
    BY <2>1 DEF IInv, Broken
<1> QED
  BY Invariance, <1>1, PTL
=============================================================================
