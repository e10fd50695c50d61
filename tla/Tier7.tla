------------------------------- MODULE Tier7 --------------------------------
(***************************************************************************)
(* Tier 7: opening and closing of labels, Otsu labelings and transforms    *)
(* (tier7/, transform.cpp).                                                *)
(***************************************************************************)
EXTENDS NeighborStatistics

-----------------------------------------------------------------------------
(* Labels *)

\* Mutant of opening_labels: the second step forgets the destination.
opening_labels_apart(m, src, dst, radius) ==
  Then([made \in {create_like(m, src, dst, LABEL)} |->
  Then([temp \in {erode_labels(made, src, Null, radius, FALSE)} |->
  dilate_labels(temp, Ret(temp), Null, radius)])])

opening_labels(m, src, dst, radius) ==
  Then([made \in {create_like(m, src, dst, LABEL)} |->
  Then([temp \in {erode_labels(made, src, Null, radius, FALSE)} |->
  dilate_labels(temp, Ret(temp), Ret(made), radius)])])

\* The eroded mask never returns to flip: odd steps erode flop in place, even ones start
\* from the mask again.
closing_labels(m, src, dst, radius) ==
  Then([made \in {create_like(m, src, dst, LABEL)} |->
  IF radius = 0 THEN copy(made, src, Ret(made))
  ELSE Then([temp \in {dilate_labels(made, src, Null, radius)} |->
       Then([flip_ \in {greater_constant(temp, Ret(temp), Null)} |->
       Then([flop_ \in {CreateAs(flip_, Ret(flip_))} |->
       LET Step(n, i) ==
             binary_erode(n, IF i % 2 = 0 THEN Ret(flip_) ELSE Ret(flop_), Ret(flop_),
                          <<1, 1, 1>>, IF i % 2 = 0 THEN "sphere" ELSE "box")
       IN Then([eroded \in {FoldLeft(Step, flop_, [i \in 1..radius |-> i - 1])} |->
          multiply_images(eroded, IF radius % 2 = 0 THEN Ret(flip_) ELSE Ret(flop_), Ret(temp),
                          Ret(made))])])])])])

erode_connected_labels(m, src, dst, radius) ==
  Then([made \in {create_like(m, src, dst, LABEL)} |->
  IF radius < 1 THEN copy(made, src, Ret(made))
  ELSE Then([temp \in {greater_constant(made, src, Null)} |->
       Then([eroded \in {erode_labels(temp, Ret(temp), Null, radius, FALSE)} |->
       Then([kept \in {multiply_images(eroded, src, Ret(eroded), Null)} |->
       relabel_sequential(kept, Ret(kept), Ret(made), 4096)])])])])

\* The two binary images change places after every erosion.
eroded_otsu_labeling(m, src, dst, number_of_erosions, sigma) ==
  Then([made \in {create_like(m, src, dst, LABEL)} |->
  Then([blurred \in {gaussian_blur(made, src, Null, <<sigma, sigma, sigma>>)} |->
  Then([binary \in {threshold_otsu(blurred, Ret(blurred), Null)} |->
  Then([e1 \in {create_like(binary, Ret(binary), Null, "UNKNOWN")} |->
  Then([e2 \in {create_like(e1, Ret(binary), Null, "UNKNOWN")} |->
  LET Step(n, i) ==
        IF i % 2 = 0 THEN binary_erode(n, Ret(e1), Ret(e2), <<1, 1, 1>>, "box")
        ELSE binary_erode(n, Ret(e2), Ret(e1), <<1, 1, 1>>, "box")
  IN Then([eroded \in {FoldLeft(Step, CopyTo(e2, Ret(binary), Ret(e1)),
                   [i \in 1..number_of_erosions |-> i - 1])} |->
  LET last == IF number_of_erosions % 2 = 0 THEN Ret(e1) ELSE Ret(e2)
  IN masked_voronoi_labeling(eroded, last, Ret(binary), Ret(made))])])])])])])

voronoi_otsu_labeling(m, src, dst, spot_sigma, outline_sigma) ==
  Then([made \in {create_like(m, src, dst, LABEL)} |->
  Then([smooth \in {gaussian_blur(made, src, Null, <<spot_sigma, spot_sigma, spot_sigma>>)} |->
  Then([spot \in {detect_maxima(smooth, Ret(smooth), Null, <<0, 0, 0>>, "box")} |->
  Then([outline \in
          {gaussian_blur(spot, src, Null, <<outline_sigma, outline_sigma, outline_sigma>>)} |->
  Then([segmentation \in {threshold_otsu(outline, Ret(outline), Null)} |->
  Then([binary \in {binary_and(segmentation, Ret(spot), Ret(segmentation), Null)} |->
  Then([temp \in {masked_voronoi_labeling(binary, Ret(binary), Ret(segmentation), Null)} |->
  mask(temp, Ret(temp), Ret(segmentation), Ret(made))])])])])])])])

-----------------------------------------------------------------------------
(* Transforms *)

\* The matrix is written from the host.
Matrix4x4(m) ==
  Then([mat \in {Create(m, <<4, 4, 1>>, 2, "FLOAT")} |->
  Return(Fill(mat, Ret(mat)), Ret(mat))])

\* images: the device has images ("yes"), has none ("no"), or has them and fails to copy
\* into one ("no copy"): then the kernel reads the image nothing was copied to.
transform_affine(m, src, dst, extents, interpolate, images) ==
  LET dim == Array(m, src).dim
  IN Then([made \in
         {IF dst # Null THEN Return(m, dst)
          ELSE Create(m, extents, dim, IF interpolate THEN "FLOAT" ELSE Type(m, src))} |->
     Then([mat \in {Matrix4x4(made)} |->
     Then([in \in
         {IF ~interpolate \/ images = "no" THEN Return(mat, src)
          ELSE Then([image \in {Create(mat, Shape(m, src), dim, "FLOAT")} |->
               IF images = "no copy" THEN image ELSE copy(image, src, Ret(image))])} |->
     execute(in, Gather, <<Ret(in), Ret(mat)>>, Ret(made))])])])

affine_transform(m, src, dst, extents, interpolate, images, matrix_size) ==
  transform_affine(Require(m, matrix_size \in {0, 9, 16}), src, dst, extents, interpolate, images)

\* resize: the result holds the whole of the transformed image, whose extents are given.
rigid_transform(m, src, dst, extents, interpolate, images, resize) ==
  transform_affine(m, src, dst, IF resize THEN extents ELSE Shape(m, src), interpolate, images)
rotate(m, src, dst, extents, interpolate, images, resize) ==
  rigid_transform(m, src, dst, extents, interpolate, images, resize)
scale(m, src, dst, extents, interpolate, images, resize) ==
  rigid_transform(m, src, dst, extents, interpolate, images, resize)
translate(m, src, dst, interpolate, images) ==
  rigid_transform(m, src, dst, Shape(m, src), interpolate, images, FALSE)

affine_transform_deskew_3d(m, src, dst, extents) ==
  IF Depth(m, src) = 1 THEN Throw(m)
  ELSE Then([made \in
           {IF dst # Null THEN Return(m, dst)
            ELSE Create(m, extents, Array(m, src).dim, Type(m, src))} |->
       Then([mat \in {Matrix4x4(made)} |->
       execute(mat, Gather, <<src, Ret(mat)>>, Ret(made))])])
deskew_x(m, src, dst, extents) == affine_transform_deskew_3d(m, src, dst, extents)
deskew_y(m, src, dst, extents) == affine_transform_deskew_3d(m, src, dst, extents)

=============================================================================
