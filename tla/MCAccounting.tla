---------------------------- MODULE MCAccounting ----------------------------
(* Days of two ticks, two providers, a priced model and one that is not.     *)
EXTENDS Accounting, TLC

CONSTANTS groq, cerebras, priced7b, preview, c1, c2

Unlimited == [f \in Fields |-> 0]
Limits(tpd, tph, rpd) ==
  (groq :> [Unlimited EXCEPT !["tpd"] = tpd, !["tph"] = tph]) @@
  (cerebras :> [Unlimited EXCEPT !["rpd"] = rpd])

\* The day's quotas at 60 per cent; the same with the alerts off and no webhook;
\* and with the hour watched at groq.
Daily == [quotas |-> Limits(10, 1, 3), threshold |-> 60, webhook |-> TRUE, timeout |-> 0]
Quiet == [Daily EXCEPT !.threshold = 0, !.webhook = FALSE]
Hourly == [Daily EXCEPT !.quotas = Limits(0, 6, 3), !.timeout = 2]
ConfigFiles == {Daily, Quiet, Hourly}

PriceList == priced7b :> [input |-> 1, output |-> 3]

Uses(prompt, completion) ==
  [total |-> prompt + completion, prompt |-> prompt, completion |-> completion]
TotalOnly(n) == [total |-> n, prompt |-> 0, completion |-> 0]
Reported(via, took, p, m, usage, true) ==
  [via |-> via, took |-> took, provider |-> p, model |-> m, usage |-> usage, true |-> true]
\* In full with a split and without; nothing, to a client that left; the prompt only.
Answers ==
  { Reported("chat", 1, groq, priced7b, Uses(4, 2), Uses(4, 2)),
    Reported("chat", 1, cerebras, preview, TotalOnly(0), Uses(4, 2)),
    Reported("chat", 3, cerebras, priced7b, Uses(4, 0), Uses(4, 2)),
    Reported("messages", 3, cerebras, priced7b, Uses(4, 2), Uses(4, 2)),
    Reported("embeddings", 2, groq, priced7b, TotalOnly(6), Uses(6, 0)),
    Reported("test", 1, groq, preview, TotalOnly(6), Uses(4, 2)) }

\* A backend with a quota of its own, until a file drops it; both have a past.
Backends ==
  [f \in ConfigFiles |-> IF f = Hourly THEN {} ELSE {<<groq, priced7b>>}]
Earlier ==
  { [k \in Providers \X Models |-> IF k[1] = groq THEN 2 ELSE 0] }

Bounds == <<1, 2>>
=============================================================================
