----------------------------- MODULE LayoutOps -----------------------------
(***************************************************************************)
(* The geometry of the desktop (display_utils.py): the union layout of a   *)
(* primary and one secondary display, the guard against the primary        *)
(* reporting the extended screen as its own, and the fit of a layout into  *)
(* the root window that the X server really has.                           *)
(***************************************************************************)
EXTENDS Integers

Primary == "primary"
Secondary == "secondary"
Displays == {Primary, Secondary}
Positions == {"right", "left", "up", "down"}

Larger(a, b) == IF a >= b THEN a ELSE b
Smaller(a, b) == IF a <= b THEN a ELSE b
Even(n) == n - (n % 2)                 \* n & ~1
Aligned(n) == 8 * ((n + 7) \div 8)     \* (n + 7) & ~7

Size(w, h) == [w |-> w, h |-> h]
Rect(x, y, size) == [x |-> x, y |-> y, w |-> size.w, h |-> size.h]

\* What parse_resize_dims lets through, its ceiling of 8K aside.
Sized == {s \in [w : Nat, h : Nat] : s.w >= 2 /\ s.h >= 2 /\ s.w % 2 = 0 /\ s.h % 2 = 0}
Rects == [x : Nat, y : Nat, w : Nat, h : Nat]

Covers(size, r) == r.x + r.w <= size.w /\ r.y + r.h <= size.h

Apart(r, s) == \/ r.x + r.w <= s.x \/ s.x + s.w <= r.x
               \/ r.y + r.h <= s.y \/ s.y + s.h <= r.y
-----------------------------------------------------------------------------
\* compute_dual_layout: the two rectangles, and the size of the whole.
Beside(position) == position \in {"right", "left"}

\* The display that comes first, in reading order, is at the origin.
First(position) == IF position \in {"left", "up"} THEN Secondary ELSE Primary

compute_dual_layout(p, s, position) ==
  LET size == [d \in Displays |-> IF d = Primary THEN p ELSE s]
      first == First(position)
  IN [d \in Displays |->
        IF d = first THEN Rect(0, 0, size[d])
        ELSE IF Beside(position) THEN Rect(size[first].w, 0, size[d])
        ELSE Rect(0, size[first].h, size[d])]

dual_total(p, s, position) ==
  IF Beside(position)
  THEN Size(Aligned(p.w + s.w), Larger(p.h, s.h))
  ELSE Size(Aligned(Larger(p.w, s.w)), p.h + s.h)

\* Of the layout in place, without a primary there is none to keep.
layout_extent(layouts) ==
  LET right(d)  == IF d \in DOMAIN layouts THEN layouts[d].x + layouts[d].w ELSE 0
      bottom(d) == IF d \in DOMAIN layouts THEN layouts[d].y + layouts[d].h ELSE 0
  IN Size(Larger(right(Primary), right(Secondary)),
          Larger(bottom(Primary), bottom(Secondary)))

clamp_primary_feedback(p, layouts, position) ==
  LET extent == layout_extent(layouts)
      fills == IF Beside(position) THEN p.w >= extent.w ELSE p.h >= extent.h
  IN IF Primary \in DOMAIN layouts /\ fills
     THEN Size(layouts[Primary].w, layouts[Primary].h) ELSE p
-----------------------------------------------------------------------------
\* reconcile_realized_layout: what a layout becomes in the realized root.
Reanchored(layouts, root) ==
  /\ Primary \in DOMAIN layouts
  /\ LET p == layouts[Primary] IN
     \/ p.x > 0 /\ p.x + p.w > root.w
     \/ p.y > 0 /\ p.y + p.h > root.h

Dropped(layouts, root) ==
  {d \in DOMAIN layouts \ {Primary} : \/ Reanchored(layouts, root)
                                      \/ layouts[d].x >= root.w
                                      \/ layouts[d].y >= root.h}

Placed(layouts, root, d) ==
  IF d = Primary /\ Reanchored(layouts, root)
  THEN [layouts[d] EXCEPT !.x = 0, !.y = 0] ELSE layouts[d]

Fitted(r, root) ==
  [r EXCEPT !.w = Larger(2, Even(Smaller(r.w, root.w - r.x))),
            !.h = Larger(2, Even(Smaller(r.h, root.h - r.y)))]

reconcile_realized_layout(layouts, root) ==
  [d \in DOMAIN layouts \ Dropped(layouts, root) |->
     Fitted(Placed(layouts, root, d), root)]

Clamped(layouts, root) ==
  {d \in DOMAIN layouts \ Dropped(layouts, root) :
     Fitted(Placed(layouts, root, d), root) # Placed(layouts, root, d)}
=============================================================================
