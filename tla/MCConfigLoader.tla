--------------------------- MODULE MCConfigLoader ---------------------------
(* ConfigLoader with one option of each kind, and every text and value of it. *)
EXTENDS ConfigLoader

Text(form, value) == [form |-> form, value |-> value]
NoValue(forms) == {Text(form, "") : form \in forms}

MCEnvTexts(o) ==
    NoValue({"unset", "empty", "blank"}) \cup
    CASE o \in Numbers ->
            NoValue({"garbage"}) \cup
            {Text("plain", "0"), Text("plain", "7"), Text("padded", "7"), Text("based", "16"),
             Text("octal", "10"), Text("nonoctal", "8")}
      [] o \in Flags -> NoValue({"garbage"}) \cup {Text("plain", "false"), Text("padded", "false")}
      [] o \in Names -> {Text("plain", "X-Env"), Text("padded", "X-Env")}

MCDotEnvTexts(o) ==
    NoValue({"unset"}) \cup
    CASE o \in Numbers -> {Text("plain", "8")}
      [] o \in Flags -> {Text("plain", "true")}
      [] o \in Names -> NoValue({"empty"})

MCFileValues(o) ==
    {Absent} \cup
    CASE o \in Numbers -> {Bad, "0", "5"}
      [] o \in Flags -> {Bad, "false"}
      [] o \in Names -> {"", " ", "X-File"}
=============================================================================
