---------------------------- MODULE ConfigLoader ----------------------------
(***************************************************************************)
(* config/load.go and config.go: one call of Load, from the .env files and *)
(* the config file over the environment to the normalised Config, or to an *)
(* error.  Nothing runs beside it; the behaviours are its inputs.          *)
(*                                                                         *)
(* The options behave alike by kind: the numbers (limits and durations),   *)
(* the flag Enabled and the names of the two headers.  A value is a string *)
(* here whatever its kind; "0" is any number that is not positive.  A text *)
(* in the environment is what the parsers can tell apart: its form and, if *)
(* it has one, its value.                                                  *)
(*                                                                         *)
(* A definition X_Bug is X with a plausible bug, kept to show that the     *)
(* properties notice it; nothing else refers to it.                        *)
(***************************************************************************)
EXTENDS Sequences

CONSTANTS
    Numbers, Flags, Names,  \* the options of each kind
    EnvTexts(_),            \* the texts an option may have in the environment,
    DotEnvTexts(_),         \* in the .env files,
    FileValues(_)           \* and the values it may have in the config file

Options == Numbers \cup Flags \cup Names

ASSUME KindsAssumption ==
    Numbers \cap Flags = {} /\ Numbers \cap Names = {} /\ Flags \cap Names = {}

\* The parsers of a limit part over three forms: "based" has a base prefix or an
\* underscore, like 0x10; "octal" a zero in front that makes it another number in
\* base 8, like 010; "nonoctal" one that makes it none, like 08.  Durations and
\* flags so written are garbage, which no parser takes, and a name never is.
WithValue == {"plain", "padded", "octal", "nonoctal"}
Forms == {"unset", "empty", "blank", "based", "garbage"} \cup WithValue

ASSUME TextsAssumption ==
    \A o \in Options : \A text \in EnvTexts(o) \cup DotEnvTexts(o) :
        /\ text \in [form : Forms, value : STRING]
        /\ text.form \in {"based", "octal", "nonoctal"} => o \in Numbers
        /\ text.form = "garbage" => o \notin Names
        /\ text.form \in WithValue => text.value \notin {"", " "}

VARIABLES
    pc,         \* the part of Load that comes next, or how it ended
    dotenv,     \* what the .env files say; nothing if there are none
    malformed,  \* one of them cannot be parsed
    env,        \* the environment of the process
    shape,      \* of the config file
    file,       \* what it says about each option: a value, Absent or Bad
    cfg         \* the Config that is filled, then returned

inputs == <<dotenv, malformed, shape, file>>
vars == <<pc, inputs, env, cfg>>

\* Absent or empty; unreadable or no YAML; with the options at its root; with
\* the options in a section "clockwork".
Shapes == {"missing", "broken", "root", "section"}

Unset == [form |-> "unset", value |-> ""]
Absent == "absent"
Bad == "bad"

DefaultConfig ==
    [o \in Options |-> IF o \in Numbers THEN "default" ELSE IF o \in Flags THEN "true"
                                                            ELSE "X-Default"]

\* What Load returns beside an error.
ZeroConfig ==
    [o \in Options |-> IF o \in Numbers THEN "0" ELSE IF o \in Flags THEN "false" ELSE ""]

\* One of S(o) for every option o, in every combination.
Choices(S(_)) ==
    {f \in [Options -> UNION {S(o) : o \in Options}] : \A o \in Options : f[o] \in S(o)}

-----------------------------------------------------------------------------
(* Reading a text *)

\* What strconv and time.ParseDuration take, in base 10; a name is any text.
Parses(o, text) == o \in Names \/ text.form \in {"plain", "octal", "nonoctal"}

\* viper passes over empty variables only.  mapstructure, which converts for it,
\* does not trim, and parses a limit in base 0: it goes by the prefix.
InViper(text) == text.form \notin {"unset", "empty"}
Decodes(o, text) == o \in Names \/ text.form \in {"plain", "octal", "based"}
Decoded(text) ==
    CASE text.form = "blank" -> " "
      [] text.form = "padded" -> " " \o text.value
      [] text.form = "octal" -> "in base 8: " \o text.value
      [] OTHER -> text.value

Trimmed_Not(text) == text

\* lookupEnv passes over blank variables, too, and trims.
LookupEnv(text) == text.form \notin {"unset", "empty", "blank"}
Trimmed(text) == IF text.form = "padded" THEN [text EXCEPT !.form = "plain"] ELSE text

-----------------------------------------------------------------------------
(* Load *)

Init ==
    /\ pc = "dotenv"
    /\ malformed \in BOOLEAN
    /\ dotenv \in Choices(DotEnvTexts)
    /\ env \in Choices(EnvTexts)
    /\ shape \in Shapes
    /\ file \in IF shape \in {"root", "section"} THEN Choices(FileValues)
                ELSE {[o \in Options |-> Absent]}
    /\ cfg = DefaultConfig

\* The zero Config, not what has been read by then: it is not even Enabled.
Fail == pc' = "failed" /\ cfg' = ZeroConfig

\* loadDotEnv: gotenv.Load sets what is not set, be it to nothing.
LoadDotEnv ==
    /\ pc = "dotenv"
    /\ \/ malformed /\ Fail /\ UNCHANGED env
       \/ /\ ~malformed
          /\ env' = [o \in Options |-> IF env[o] = Unset THEN dotenv[o] ELSE env[o]]
          /\ pc' = "read"
          /\ UNCHANGED cfg
    /\ UNCHANGED inputs

ReadInConfig_NeedsFile ==
    /\ pc = "read"
    /\ \/ shape \in {"missing", "broken"} /\ Fail
       \/ shape \in {"root", "section"} /\ pc' = "unmarshal" /\ UNCHANGED cfg
    /\ UNCHANGED <<inputs, env>>

\* A file that is not found is no error.
ReadInConfig ==
    /\ pc = "read"
    /\ \/ shape = "broken" /\ Fail
       \/ shape # "broken" /\ pc' = "unmarshal" /\ UNCHANGED cfg
    /\ UNCHANGED <<inputs, env>>

\* bindClockworkEnv: viper puts the environment before the file key by key, and
\* so it does not for a section, which is decoded as a whole.
Bound(o) == shape # "section" /\ InViper(env[o])

Decodable(o) == IF Bound(o) THEN Decodes(o, env[o]) ELSE file[o] # Bad

Unmarshal ==
    /\ pc = "unmarshal"
    /\ \/ (\E o \in Options : ~Decodable(o)) /\ Fail
       \/ /\ \A o \in Options : Decodable(o)
          /\ cfg' = [o \in Options |-> IF Bound(o) THEN Decoded(env[o])
                                       ELSE IF file[o] = Absent THEN cfg[o] ELSE file[o]]
          /\ pc' = "override"
    /\ UNCHANGED <<inputs, env>>

\* What does not parse is passed over.
Overrides(o) == LookupEnv(env[o]) /\ Parses(o, Trimmed(env[o]))

ApplyEnvOverrides ==
    /\ pc = "override"
    /\ cfg' = [o \in Options |-> IF Overrides(o) THEN env[o].value ELSE cfg[o]]
    /\ pc' = "normalize"
    /\ UNCHANGED <<inputs, env>>

NeedsDefault_NumbersOnly(o, v) == o \in Numbers /\ v = "0"

NeedsDefault(o, v) == (o \in Numbers /\ v = "0") \/ (o \in Names /\ v = "")

Normalize ==
    /\ pc = "normalize"
    /\ cfg' = [o \in Options |-> IF NeedsDefault(o, cfg[o]) THEN DefaultConfig[o] ELSE cfg[o]]
    /\ pc' = "loaded"
    /\ UNCHANGED <<inputs, env>>

Next == LoadDotEnv \/ ReadInConfig \/ Unmarshal \/ ApplyEnvOverrides \/ Normalize

Spec == Init /\ [][Next]_vars

-----------------------------------------------------------------------------
(* Properties *)

\* The texts whose fate depends on the shape of the file.  Outside a section
\* viper sees them too, and takes them where applyEnvOverrides does not.
Uneven(o) ==
    /\ shape # "section"
    /\ \/ o \in Numbers /\ env[o].form = "based"
       \/ o \in Names /\ env[o].form = "blank"

\* What a loaded Config gives to those who never check it: every limit and
\* duration is positive (the cleanup loop, the storage's limits, the collector's
\* budget), and the headers have names, or no request could ask to be captured.
\* Only a blank gets through, from the file or, outside a section, the environment.
LoadedIsUsable ==
    pc = "loaded" =>
        /\ \A o \in Numbers : cfg[o] # "0"
        /\ \A o \in Names : cfg[o] # "" /\ (cfg[o] = " " => file[o] = " " \/ Uneven(o))

\* Each option comes from the first that has something to say: the environment,
\* which includes .env, then the file, then the defaults; a number that is not
\* positive says "default".  The shape of the file makes no difference, nor does
\* the base: 010 is ten in the end.
Value(o) ==
    IF env[o].form \in WithValue THEN env[o].value
    ELSE IF file[o] # Absent THEN file[o] ELSE DefaultConfig[o]
FirstSourceDecides ==
    pc = "loaded" =>
        \A o \in Options :
            \/ Uneven(o)
            \/ cfg[o] = IF NeedsDefault(o, Value(o)) THEN DefaultConfig[o] ELSE Value(o)

\* Load fails for a broken file and for a value in it that is of another kind,
\* unless the environment replaces it outside a section.  Outside a section it
\* fails for a variable, too, that applyEnvOverrides would pass over or trim, and
\* for a limit like 08, which applyEnvOverrides would take.
Reason(o) ==
    IF shape = "section" THEN file[o] = Bad
    ELSE \/ file[o] = Bad /\ env[o].form \in {"unset", "empty"}
         \/ o \notin Names /\ env[o].form \in {"blank", "garbage", "padded", "nonoctal"}
FailsForAReason ==
    pc \in {"failed", "loaded"} =>
        (pc = "failed" <=> malformed \/ shape = "broken" \/ \E o \in Options : Reason(o))
=============================================================================
