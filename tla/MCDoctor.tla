------------------------------ MODULE MCDoctor ------------------------------
EXTENDS Doctor, TLC

CONSTANTS admin, svc                     \* accounts
CONSTANTS base, exchange, out, in, root, sub  \* directories

AboveOf == [d \in {base, exchange, out, in, root, sub} |->
    CASE d \in {out, in} -> {exchange} [] d = sub -> {root} [] OTHER -> {}]

BasesOf == <<base>>
SubsOf == <<sub>>

Of(backend, bundled, defects) ==
    [backend |-> backend, bundled |-> bundled, defects |-> defects]

(* Nothing wrong, one thing wrong, and the pairs that hide each other.     *)
SomeConfigs ==
    {Of("noop", FALSE, d) : d \in
        {{}, {"incomplete"}, {"volumes"}, {"schema", "noValidator"}}}
    \cup {Of("gnupg", TRUE, {"binary"}), Of("pgpy", FALSE, {"passphrase"})}
=============================================================================
