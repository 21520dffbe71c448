--------------------------- MODULE MCEventParser ---------------------------
(***************************************************************************)
(* EventParser with tasks whose names hold dashes and colons and may be as *)
(* long as the kernel's, so that the details of a switch do not fit, with  *)
(* short and long fractions of a second, and with lines that are no events. *)
(***************************************************************************)
EXTENDS EventParser

Number == [n \in {"0", "1", "2", "50", "120", "4194303", "000100", "000000007"} |->
             CASE n = "0" -> 0 [] n = "1" -> 1 [] n = "2" -> 2
               [] n = "50" -> 50 [] n = "120" -> 120 [] n = "4194303" -> 4194303
               [] n = "000100" -> 100 [] OTHER -> 7]

Worker == [comm |-> <<"worker">>, pid |-> "1", prio |-> "1"]
Irq == [comm |-> <<"irq/129", "-", "eth0-tx">>, pid |-> "4194303", prio |-> "50"]
Kworker == [comm |-> <<"kworker/11", ":", "2", "-ev">>, pid |-> "4194303",
            prio |-> "120"]

Name == {<<"sched_switch">>, <<"sched_wakeup">>, <<"sched_wakeup_new">>,
         <<"irq_handler_entry">>, <<"irq_handler_exit">>,
         <<"soft", "irq_entry">>, <<"soft", "irq_exit">>,
         <<"funcgraph_entry">>, <<"funcgraph_exit">>}

Reports == [prev : {Worker, Irq, Kworker}, next : {Irq, Kworker}, cpu : {"2"},
            seconds : {"1"}, fraction : {"000100", "000000007"}, name : Name]

OtherLines ==
  {<<>>, <<"#", " ", "tracer", ":", " ", "nop">>, <<"some", " ", "text">>,
   <<"CPU", ":", "2", " ", "[", "LOST", " ", "1", " ", "EVENTS", "]">>,
   <<" ", "worker", "-", "1", " ", "[", "0">>,
   <<" ", "worker", "-", "1", " ", "[", "0", "]", " ", "d..1", " ", "1", ".",
     "000100">>}

Width == [t \in STRING |-> Len(t)]
=============================================================================
