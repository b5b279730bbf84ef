------------------------------- MODULE MCSession -------------------------------
(* Instances of SimSession: two threads, two devices, two sessions. *)
EXTENDS SimSession
CONSTANTS h1, h2, s1, s2

\* A session that another thread uses too; one inside another; one on device 1; one that changes device.
MCPrograms ==
  {[h \in Thread |->
     CASE h = h1 -> <<<<"enter", s1>>, <<"launch", 0>>, <<"sync">>, <<"with", 1>>, <<"launch", 1>>,
                      <<"leave">>, <<"exit", s1>>>>
       [] h = h2 -> <<<<"device", d>>, <<"launch", 0>>, <<"sync">>>>] : d \in Device}
  \cup
  {[h \in Thread |-> IF h = h1 THEN p ELSE <<>>] :
     p \in {<<<<"enter", s1>>, <<"launch", 0>>, <<"enter", s2>>, <<"launch", 1>>, <<"exit", s2>>,
             <<"launch", 2>>, <<"exit", s1>>>>,
           <<<<"device", 1>>, <<"enter", s1>>, <<"launch", 0>>, <<"sync">>, <<"launch", 1>>, <<"exit", s1>>>>,
           <<<<"enter", s1>>, <<"device", 1>>, <<"launch", 0>>, <<"device", 0>>, <<"launch", 1>>,
             <<"sync">>, <<"launch", 2>>, <<"exit", s1>>>>}}
ASSUME Disciplined == NestedSessions
===============================================================================
