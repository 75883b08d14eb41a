------------------------------ MODULE MCOwner ------------------------------
(* Small instances of Owner.                                               *)
EXTENDS Owner, TLC

CONSTANTS w1, w2, w3, w4, w5, ann, bob, fox, owl, text, photo

\* Ann's photo is the oldest whisper, Bob wrote the others.
MCSender == (w1 :> ann) @@ (w2 :> bob) @@ (w3 :> bob) @@ (w4 :> bob) @@ (w5 :> bob)
MCMedia  == (w1 :> photo) @@ (w2 :> text) @@ (w3 :> text) @@ (w4 :> text) @@ (w5 :> text)
MCStored == (w1 :> 1) @@ (w2 :> 2) @@ (w3 :> 3) @@ (w4 :> 4) @@ (w5 :> 0)
MCNames  == (ann :> fox) @@ (bob :> owl)

PageOf(f) == Request("page", None, First(f))

\* The owner walks through a list: of all, of one kind, or of one sender by a
\* name, while whispers come and go and names change.
Walks == [transport |-> "polling", updates |-> 4, presses |-> {"page"}, faults |-> {},
          arriving |-> {w5}, ageing |-> {w2, w5}, names |-> {},
          commands |-> {PageOf(All), PageOf(ByMedia(text)), Request("delete", w3, First(All))}]

\* He opens, retains and deletes a whisper.
Visits == [transport |-> "polling", updates |-> 4, presses |-> {"item", "confirm", "delete"},
           faults |-> {"telegram"}, arriving |-> {}, ageing |-> {w3}, names |-> {},
           commands |-> {PageOf(ByMedia(text))}]

MCScenes ==
    { Walks,
      [Walks EXCEPT !.ageing = {}, !.names = {fox, owl}, !.commands = {PageOf(ByName(owl))}],
      [Walks EXCEPT !.ageing = {}, !.arriving = {}, !.updates = 3, !.faults = {"crash", "telegram"}],
      Visits,
      [Visits EXCEPT !.updates = 3, !.faults = {"crash", "database"},
                     !.presses = {"item", "open", "retain"},
                     !.commands = @ \union {Request(do, w3, First(All)) : do \in {"open", "retain"}}],
      [Visits EXCEPT !.updates = 3, !.transport = "webhook", !.ageing = {}, !.presses = {"page", "item"},
                     !.commands = {Request("page", None, Latest(All))}
                                      \union {Request(do, w3, First(All)) : do \in {"open", "delete"}}] }
=============================================================================
