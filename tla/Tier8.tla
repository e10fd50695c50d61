------------------------------- MODULE Tier8 --------------------------------
(***************************************************************************)
(* Tier 8: smoothing of labels and resampling (tier8/).                    *)
(***************************************************************************)
EXTENDS Tier7

smooth_labels(m, src, dst, radius) ==
  Then([made \in {create_like(m, src, dst, LABEL)} |->
  IF radius < 1 THEN copy(made, src, Ret(made))
  ELSE Then([binary \in {greater_constant(made, src, Null)} |->
       Then([opened \in {opening_labels(binary, src, Null, radius)} |->
       Then([extended \in {extend_labeling_via_voronoi(opened, Ret(opened), Null)} |->
       multiply_images(extended, Ret(binary), Ret(extended), Ret(made))])])])])

smooth_connected_labels(m, src, dst, radius) ==
  Then([made \in {create_like(m, src, dst, LABEL)} |->
  IF radius < 1 THEN copy(made, src, Ret(made))
  ELSE Then([eroded \in {erode_connected_labels(made, src, Null, radius)} |->
       dilate_labels(eroded, Ret(eroded), Ret(made), radius)])])

\* positive: the given spacings are; an unset target is the smallest of them.
make_isotropic(m, src, dst, extents, interpolate, images, positive) ==
  scale(Require(m, positive), src, dst, extents, interpolate, images, TRUE)
make_anisotropic(m, src, dst, extents, interpolate, images, positive) ==
  scale(Require(m, positive), src, dst, extents, interpolate, images, TRUE)

=============================================================================
