--------------------------- MODULE MCImageService ---------------------------
(* Pictures and declared sizes at the edges of the rules, for TLC. *)
EXTENDS ImageService

Sized(w, h) == [w |-> w, h |-> h, mode |-> "RGB", opaque |-> TRUE, uniform |-> TRUE,
                light |-> TRUE]

(* One pixel, 300 PPI and its neighbours, 301 and 294 of 300 for the       *)
(* tolerance of the aspect, and squares about the limit of pixels.         *)
Geometries == {Sized(w, h) : w \in {1, 17, 299, 300, 301, 306}, h \in {1, 294, 300, 306, 307}}
          \cup {Sized(s, s) : s \in {599, 4700, 4950, 5000, 5001}}

Kinds == {[w |-> 300, h |-> 300, mode |-> m, opaque |-> o, uniform |-> u, light |-> l] :
             m \in Mode, o \in BOOLEAN, u \in BOOLEAN, l \in BOOLEAN}

Pictures == Geometries \cup Kinds

Declared == {<<1, 1, "in">>, <<10, 10, "in">>, <<10, 11, "in">>, <<160, 160, "in">>,
             <<30, 30, "mm">>, <<254, 254, "mm">>, <<77, 77, "mm">>, <<3000, 3000, "in">>}

Orders == {[dw |-> d[1], dh |-> d[2], unit |-> d[3], intent |-> i, trim |-> t,
            err |-> [ppi |-> x, aspect |-> y]] :
              d \in Declared, i \in Intent, t \in Trim, x \in Error, y \in Error}
=============================================================================
