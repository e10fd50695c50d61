------------------------------- MODULE Tier3 --------------------------------
(***************************************************************************)
(* Tier 3: measurements, matrices of neighbours and maps (tier3/).         *)
(***************************************************************************)
EXTENDS Statistics

-----------------------------------------------------------------------------
(* Images made up or enhanced *)

\* One point per cell of a grid; the centroids grow into the result.
artificial_tissue(m, shape, nb_points) ==
  Then([dst \in {Create(m, shape, shape_to_dimension(shape), LABEL)} |->
  Then([point_list \in {Create(dst, <<nb_points, 3, 1>>, 2, "FLOAT")} |->
  Then([centroids \in {CreateAs(Fill(point_list, Ret(point_list)), Ret(dst))} |->
  Then([spots \in {pointlist_to_labelled_spots(centroids, Ret(point_list), Ret(centroids))} |->
  Return(extend_labeling_via_voronoi(spots, Ret(centroids), Ret(dst)), Ret(dst))])])])])

\* The histograms of the tiles around a pixel decide its value.
clahe(m, src, dst, tile_size, bounded) ==
  Then([made \in {create_like(m, src, dst, "UNKNOWN")} |->
  Then([measured \in
      {IF bounded THEN made
       ELSE maximum_of_all_pixels(minimum_of_all_pixels(made, src), src)} |->
  Return(Launch(measured, Around(<<tile_size, tile_size, tile_size>>), <<src>>,
                <<Ret(made)>>, Shape(m, src)), Ret(made))])])

gamma_correction(m, src, dst) ==
  Then([made \in {create_like(m, src, dst, "UNKNOWN")} |->
  evaluate(maximum_of_all_pixels(made, src), <<src>>, Ret(made))])

\* The strongest ridge over all scales; sigmas are the radii of the scales.
sato_filter(m, src, dst, sigmas) ==
  Then([made \in {create_like(m, src, dst, "UNKNOWN")} |->
  Then([small \in {Create(Fill(made, Ret(made)), Shape(m, src), Array(m, src).dim, "FLOAT")} |->
  LET is_3d == Depth(m, src) > 1
  IN Then([middle \in {IF is_3d THEN CreateAs(small, Ret(small)) ELSE Return(small, Null)} |->
  LET Scale(n, sigma) ==
        Then([values \in
                {hessian_gaussian_eigenvalues(n, src, Ret(small), Ret(middle), Null, sigma)} |->
        evaluate(values, IF is_3d THEN <<Ret(middle), Ret(small), Ret(made)>>
                                 ELSE <<Ret(small), Ret(made)>>, Ret(made))])
  IN Return(FoldLeft(Scale, middle, sigmas), Ret(made))])])])
tubeness(m, src, dst, sigma) == sato_filter(m, src, dst, <<sigma>>)

-----------------------------------------------------------------------------
(* Positions and values of whole images *)

bounding_box(m, src) ==
  LET Measured(n, axis) ==
        Then([temp \in {multiply_image_and_position(n, src, Null)} |->
        minimum_of_masked_pixels(maximum_of_all_pixels(temp, Ret(temp)), Ret(temp),
                                 src)])
  IN FoldLeft(Measured, m, IF Depth(m, src) > 1 THEN <<0, 1, 2>> ELSE <<0, 1>>)

center_of_mass(m, src) ==
  LET Weighted(n, axis) ==
        Then([temp \in {multiply_image_and_position(n, src, Null)} |->
        sum_of_all_pixels(temp, Ret(temp))])
  IN FoldLeft(Weighted, sum_of_all_pixels(m, src), <<0, 1, 2>>)

mean_of_all_pixels(m, src) == sum_of_all_pixels(m, src)

jaccard_index(m, src0, src1) ==
  Then([intersection \in {binary_and(m, src0, src1, Null)} |->
  Then([union_ \in {binary_or(intersection, src0, src1, Null)} |->
  sum_of_all_pixels(sum_of_all_pixels(union_, Ret(intersection)), Ret(union_))])])

\* Each projection along x turns the image; the positions are read from the last back, the
\* coordinate one read brings is where the next one starts.
Position(m, src, PositionOf(_, _, _, _), Projection(_, _, _, _), coordinate) ==
  LET Turn(n, k) ==
        Then([pos \in {PositionOf(n, n.ret[1], Null, FALSE)} |->
        Then([next \in {Projection(pos, n.ret[1], Null, FALSE)} |->
        [next EXCEPT !.ret = <<Ret(next), Ret(pos)>> \o Tail(n.ret)]])])
      Read(n, p) == ReadTo(n, p, coordinate)
  IN Then([turned \in {FoldLeft(Turn, Return(m, src), <<1, 2, 3>>)} |->
     Return(FoldLeft(Read, turned, SubSeq(turned.ret, 2, 4)), Null)])

\* Mutant of maximum_position: the coordinates are read into the floats that are returned.
maximum_position_in_floats(m, src) ==
  Position(m, src, x_position_of_maximum_x_projection, maximum_x_projection, "FLOAT")

maximum_position(m, src) ==
  Position(m, src, x_position_of_maximum_x_projection, maximum_x_projection, ZeroedSize)
minimum_position(m, src) ==
  Position(m, src, x_position_of_minimum_x_projection, minimum_x_projection, ZeroedSize)

\* One partial histogram for each row of the image, summed up along z.
histogram(m, src, dst, num_bins, bounded) ==
  Then([made \in {create_vector(m, src, dst, num_bins, INDEX)} |->
  Then([partial_hist \in {Create(made, <<num_bins, 1, Height(m, src)>>, 3, INDEX)} |->
  Then([measured \in
      {IF bounded THEN partial_hist
       ELSE maximum_of_all_pixels(minimum_of_all_pixels(partial_hist, src), src)} |->
  Then([counted \in {execute(measured, Gather, <<src>>, Ret(partial_hist))} |->
  sum_z_projection(counted, Ret(partial_hist), Ret(made), FALSE)])])])])

-----------------------------------------------------------------------------
(* Matrices: cleared, then written where the image says *)

\* Mutant of Matrix: a matrix that is created is not cleared.
MatrixUncleared(m, src, other, dst) ==
  LET n == m.host + 1
  IN IF dst # Null THEN Fill(Return(m, dst), dst)
     ELSE create_dst(maximum_of_all_pixels(maximum_of_all_pixels(m, src), other),
                     src, dst, <<n, n, 1>>, INDEX, FALSE)

\* The destination is measured only if the caller supplies none.
Matrix(m, src, other, dst) ==
  LET n == m.host + 1
  IN Then([made \in
         {IF dst # Null THEN Return(m, dst)
          ELSE create_dst(maximum_of_all_pixels(maximum_of_all_pixels(m, src), other),
                          src, dst, <<n, n, 1>>, INDEX, FALSE)} |->
     Fill(made, Ret(made))])

generate_binary_overlap_matrix(m, src0, src1, dst) ==
  Then([made \in {Matrix(m, src0, src1, dst)} |->
  Return(Launch(made, Scatter, <<src0, src1>>, <<Ret(made)>>, Shape(m, src0)), Ret(made))])

generate_touch_matrix(m, src, dst_matrix) ==
  Then([made \in {Matrix(m, src, src, dst_matrix)} |->
  Return(Launch(made, Scatter, <<src>>, <<Ret(made)>>, Shape(m, src)), Ret(made))])

\* The kernel counts one side of the borders; the transposed matrix adds the other.
generate_touching_area_matrix(m, src_label, dst_matrix) ==
  Then([made \in {Matrix(m, src_label, src_label, dst_matrix)} |->
  Then([temp1 \in {copy(made, Ret(made), Null)} |->
  Then([temp2 \in {copy(temp1, Ret(made), Null)} |->
  Then([counted \in {Launch(temp2, Scatter, <<src_label>>, <<Ret(temp1)>>, Shape(m, src_label))} |->
  add_images(transpose_xy(counted, Ret(temp1), Ret(temp2)), Ret(temp1), Ret(temp2),
          Ret(made))])])])])
generate_touch_count_matrix(m, src_label, dst_matrix) ==
  generate_touching_area_matrix(m, src_label, dst_matrix)

-----------------------------------------------------------------------------
(* Labels *)

flag_existing_labels(m, src, dst) ==
  Then([made \in {create_vector(maximum_of_all_pixels(m, src), src, dst, m.host + 1, LABEL)} |->
  Return(Launch(Fill(made, Ret(made)), Scatter, <<src>>, <<Ret(made)>>, Shape(m, src)),
         Ret(made))])

\* Mutant of labelled_spots_to_pointlist: only a list that is created is cleared.
labelled_spots_to_pointlist_adds(m, label, pointlist) ==
  Then([made \in {create_dst(maximum_of_all_pixels(m, label), label, pointlist,
                  <<m.host, shape_to_dimension(Shape(m, label)), 1>>, LABEL, FALSE)} |->
  Then([ready \in {IF pointlist = Null THEN Fill(made, Ret(made)) ELSE made} |->
  Return(Launch(ready, Scatter, <<label>>, <<Ret(made)>>, Shape(m, label)), Ret(made))])])

labelled_spots_to_pointlist(m, label, pointlist) ==
  Then([made \in {create_dst(maximum_of_all_pixels(m, label), label, pointlist,
                  <<m.host, shape_to_dimension(Shape(m, label)), 1>>, LABEL, FALSE)} |->
  Return(Launch(Fill(made, Ret(made)), Scatter, <<label>>, <<Ret(made)>>, Shape(m, label)),
         Ret(made))])

read_map_values(m, map, label, dst) ==
  Then([made \in
          {create_vector(maximum_of_all_pixels(m, label), label, dst, m.host + 1, "FLOAT")} |->
  Return(Launch(Fill(made, Ret(made)), Scatter, <<label, map>>, <<Ret(made)>>,
                Shape(m, label)), Ret(made))])
read_intensities_from_map(m, label, map, dst) == read_map_values(m, map, label, dst)

\* The list of flags is read, numbered by the host and written back as a table.
remove_labels(m, src, list, dst) ==
  Then([made \in {create_like(m, src, dst, "UNKNOWN")} |->
  Then([read \in {ReadTo(Require(made, Type(m, list) = LABEL), list, LABEL)} |->
  Then([index_list \in {Create(read, <<Size(m, list), 1, 1>>, 1, LABEL)} |->
  replace_values(WriteFrom(index_list, Ret(index_list)), src, Ret(index_list), Ret(made))])])])
exclude_labels(m, src, list, dst) == remove_labels(m, src, list, dst)

\* exclude: for each axis whether labels at its ends go.
remove_labels_on_edges(m, src, dst, exclude) ==
  Then([made \in {create_like(m, src, dst, LABEL)} |->
  Then([label_map \in {Create(maximum_of_all_pixels(made, src), <<m.host + 1, 1, 1>>, 1, LABEL)} |->
  LET table == Ret(label_map)
      Edge(n, axis) ==
        IF exclude[axis] /\ Shape(m, src)[axis] > 1
        THEN Launch(n, Scatter, <<src>>, <<table>>, Shape(m, src)) ELSE n
  IN Then([marked \in {FoldLeft(Edge, set_ramp_x(label_map, table), <<1, 2, 3>>)} |->
  replace_values(WriteFrom(ReadTo(marked, table, LABEL), table), src, table, Ret(made))])])])
exclude_labels_on_edges(m, src, dst, exclude) == remove_labels_on_edges(m, src, dst, exclude)

\* A missing label map is one label everywhere, a missing image the label map itself.
labels_statistics(m, label, intensity, include_background) ==
  LET Everywhere(n) ==
        Then([l \in {create_like(n, intensity, Null, LABEL)} |-> Return(Fill(l, Ret(l)), Ret(l))])
      Image(n) == Then([i \in {create_like(n, Ret(n), Null, "FLOAT")} |->
                  copy(i, Ret(n), Ret(i))])
  IN Then([some \in {Require(m, label # Null \/ intensity # Null)} |->
     Then([l \in {IF label # Null THEN Return(some, label) ELSE Everywhere(some)} |->
     Then([i \in {IF intensity # Null THEN Return(l, intensity) ELSE Image(l)} |->
     Then([counted \in
         {IF include_background
          THEN add_image_and_scalar([i EXCEPT !.host = @ + 1], Ret(l), Null)
          ELSE Return(i, Ret(l))} |->
     Then([measured \in {compute_statistics_per_labels(counted, Ret(counted), Ret(i))} |->
     [measured EXCEPT !.host = m.host]])])])])])
statistics_of_labelled_pixels(m, intensity, label) ==
  labels_statistics(m, label, intensity, FALSE)
statistics_of_background_and_labelled_pixels(m, intensity, label) ==
  labels_statistics(m, label, intensity, TRUE)

-----------------------------------------------------------------------------
(* Morphological Chan-Vese *)

create_checkerboard_init(m, dst) == Fill(m, dst)

compute_contour_score(m, image, contour) ==
  Then([masked \in {mask(m, image, contour, Null)} |->
  sum_of_all_pixels(sum_of_all_pixels(masked, Ret(masked)), contour)])

compute_gradient_magnitude(m, contour, gradient_magnitude) ==
  Then([along \in {CreateAs(m, gradient_magnitude)} |->
  Then([absolute_ \in {CreateAs(along, gradient_magnitude)} |->
  LET Along(n, d) ==
        Then([gradient \in {CASE d = 0 -> gradient_x(n, contour, Ret(along))
               [] d = 1 -> gradient_y(n, contour, Ret(along))
               [] OTHER -> gradient_z(n, contour, Ret(along))} |->
        Then([size \in {absolute(gradient, Ret(along), Ret(absolute_))} |->
        add_images_weighted(size, Ret(absolute_), gradient_magnitude,
                            gradient_magnitude)])])
  IN FoldLeft(Along, Fill(absolute_, gradient_magnitude),
              [d \in 1..Array(m, contour).dim |-> d - 1])])])

compute_contour_evolution(m, image, evolution) == evaluate(m, <<evolution, image>>, evolution)
apply_contour_evolution(m, evolution, contour) == evaluate(m, <<contour, evolution>>, contour)

\* Mutant of smooth_contour: without the temporary image.
smooth_contour_in_place(m, dst, iteration) ==
  LET Step(n, i) ==
        IF i % 2 = 0 THEN binary_infsup(binary_supinf(n, dst, dst), dst, dst)
        ELSE binary_supinf(binary_infsup(n, dst, dst), dst, dst)
  IN FoldLeft(Step, m, [i \in 1..iteration |-> i - 1])

smooth_contour(m, dst, iteration) ==
  LET Step(n, temp, i) ==
        IF i % 2 = 0 THEN binary_infsup(binary_supinf(n, dst, temp), temp, dst)
        ELSE binary_supinf(binary_infsup(n, dst, temp), temp, dst)
  IN IF iteration = 0 THEN m
     ELSE Then([temp \in {CreateAs(m, dst)} |->
          FoldLeft(LAMBDA n, i : Step(n, Ret(temp), i), temp, [i \in 1..iteration |-> i - 1])])

morphological_chan_vese(m, src, dst, num_iter, smoothing) ==
  Then([created \in {create_like(m, src, dst, BOOL)} |->
  Then([start \in
          {IF dst = Null THEN create_checkerboard_init(created, Ret(created)) ELSE created} |->
  LET contour == Ret(created)
  IN Then([outside \in {CreateAs(greater_constant(start, contour, contour), contour)} |->
  Then([magnitude \in
          {Create(outside, Shape(created, contour), Array(created, contour).dim, "FLOAT")} |->
  LET Evolve(n, ite) ==
        Then([inner \in {compute_contour_score(n, src, contour)} |->
        Then([outer \in {compute_contour_score(binary_not(inner, contour, Ret(outside)), src,
                                   Ret(outside))} |->
        Then([gradient \in {compute_gradient_magnitude(outer, contour, Ret(magnitude))} |->
        Then([evolved \in {compute_contour_evolution(gradient, src, Ret(magnitude))} |->
        smooth_contour(apply_contour_evolution(evolved, Ret(magnitude), contour),
                       contour, smoothing)])])])])
  IN Return(FoldLeft(Evolve, magnitude, [i \in 1..num_iter |-> i]), contour)])])])])

=============================================================================
