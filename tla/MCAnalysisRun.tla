--------------------------- MODULE MCAnalysisRun ----------------------------
(* A finite instance of AnalysisRun for TLC.                               *)
EXTENDS AnalysisRun

CONSTANT run

MCChunks == 1..3

(* Empty; not embedded yet; embedded in part.                              *)
MCBases == {[present |-> {}, embedded |-> {}],
            [present |-> {1, 2}, embedded |-> {}],
            [present |-> {1, 2, 3}, embedded |-> {1, 3}]}

Mes == [name |-> "mes_tool", system |-> "mes"]
Qms == [name |-> "qms_tool", system |-> "qms"]

Payload(mode, use_model, provider, configured) ==
    [mode |-> mode, use_model |-> use_model, provider |-> provider, tools |-> configured]

(* Without tools, as configured by default, and with two; by rule and by   *)
(* either provider; and with two tools of one name.                        *)
MCRequests ==
    {Payload("vector", TRUE, "dashscope", <<>>),
     Payload("hybrid", TRUE, "openai_compatible", <<>>),
     Payload("keyword", TRUE, "openai_compatible", <<Qms, Mes>>),
     Payload("keyword", FALSE, "dashscope", <<Qms, Mes>>),
     Payload("keyword", TRUE, "dashscope", <<Mes, Mes>>)}
=============================================================================
