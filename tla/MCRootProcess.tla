--------------------------- MODULE MCRootProcess ---------------------------
(***************************************************************************)
(* Small instances of RootProcess for TLC.  The root component "top" is in *)
(* every tree, "leaf" comes and goes.                                      *)
(***************************************************************************)
EXTENDS RootProcess

Work(class, kind, producer, source, target, sup, repeat) ==
  [receipt |-> 0, class |-> class, kind |-> kind, producer |-> producer,
   source |-> source, target |-> target, gen |-> 0, sup |-> sup, name |-> "n",
   id |-> "t", repeat |-> repeat, epoch |-> 0, tick |-> 0]

MCEvent  == Work("event", "event", "host", "top", "top", TRUE, FALSE)
MCToLeaf == Work("message", "message", "host", "top", "leaf", FALSE, FALSE)
MCStart  == Work("timer", "timer_start", "host", "leaf", "leaf", FALSE, TRUE)
MCCancel == Work("timer", "timer_cancel", "host", "leaf", "leaf", FALSE, FALSE)

MCTell  == Work("message", "message", "component", "top", "top", FALSE, FALSE)
MCArm   == Work("timer", "timer_start", "component", "leaf", "leaf", FALSE, FALSE)
MCDrop  == Work("timer", "timer_cancel", "component", "leaf", "leaf", FALSE, FALSE)

MCEnvelopes == {MCEvent, MCToLeaf, MCStart, MCCancel}

MCPlans == {[comps |-> {"top", "leaf"}, messages |-> <<>>, timers |-> <<>>],
            [comps |-> {"top"}, messages |-> <<MCTell>>, timers |-> <<>>],
            [comps |-> {"top", "leaf"}, messages |-> <<MCTell>>, timers |-> <<MCArm>>],
            [comps |-> {"top", "leaf"}, messages |-> <<>>, timers |-> <<MCDrop>>]}

=============================================================================
