------------------------------ MODULE MCChatParts ------------------------------
(* Sites that differ in one respect, or in what their boxes do, and the    *)
(* names of three models that contain each other.                          *)
EXTENDS ChatParts

Site(o, t, r) ==
  [order |-> o, takes |-> t, reacts |-> r, keeps |-> {}, clears |-> TRUE, shows |-> TRUE,
   echoes |-> FALSE, table |-> TRUE, stop |-> "live", moves |-> FALSE,
   parts |-> 0]

Form  == CHOOSE b \in Boxes : b # Composer
Plain == Site(<<Composer, Form>>, {Composer}, {Composer})

(* Pages that differ in their boxes.                                       *)
Orders == {<<Composer, Form>>, <<Form, Composer>>}

BoxSites ==
  {Site(o, t, r \cap t) : o \in Orders, t \in SUBSET Boxes, r \in SUBSET Boxes}
  \cup {[Site(o, Boxes, r) EXCEPT !.keeps = Boxes] :
           o \in Orders, r \in {{}, {Form}, {Composer}}}
  \cup {Site(<<>>, {}, {})}
  \cup {[Plain EXCEPT !.clears = c, !.shows = s] : c, s \in BOOLEAN}
  \cup {[Plain EXCEPT !.moves = TRUE]}

(* Pages that differ in what they show.                                    *)
ReplySites ==
  {[Plain EXCEPT !.echoes = e, !.table = FALSE, !.stop = p, !.parts = 1] :
     e \in BOOLEAN, p \in {"none", "live"}}
  \cup {[Plain EXCEPT !.moves = TRUE, !.table = FALSE, !.parts = 1]}

(* Pages whose stop control stays.                                         *)
StaleSites ==
  {[Plain EXCEPT !.clears = t, !.shows = ~t, !.table = t, !.stop = "stale", !.parts = 2] : t \in BOOLEAN}

MCSites == BoxSites \cup ReplySites \cup StaleSites

MCWithin ==
  {<<"g4", "g4">>, <<"g4", "g4o">>, <<"g4", "g4t">>, <<"g4o", "g4o">>, <<"o", "g4o">>, <<"o", "l1">>}
=============================================================================
