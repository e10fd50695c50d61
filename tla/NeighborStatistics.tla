------------------------- MODULE NeighborStatistics -------------------------
(***************************************************************************)
(* Measurements of the neighbourhood of each label (statistics.cpp and     *)
(* tier7/neighborhood_label_statistics.cpp).                               *)
(***************************************************************************)
EXTENDS Tier6

\* Mutant of ReadVector: the host vector has no place for the background.
ReadVectorShort(m, p, n) == Fit(ReadTo(m, p, "FLOAT"), Size(m, p) < n)

\* The whole array is read into a host vector of n elements.
ReadVector(m, p, n) == Fit(ReadTo(m, p, "FLOAT"), Size(m, p) <= n)

\* Row and column of the background cleared.
Cleared(m, matrix) == set_row(set_column(m, matrix), matrix)

\* How often, how far and over which borders the labels of an image touch: the block that
\* is run on the label image and on each of its dilations.
Touching(m, label, vector, nb_labels) ==
  LET Read(n) == ReadVector(n, vector, nb_labels)
  IN Then([centroids \in {centroids_of_labels(m, label, Null, FALSE)} |->
  Then([distance \in {generate_distance_matrix(centroids, Ret(centroids), Ret(centroids), Null)} |->
  Then([touch \in {generate_touch_matrix(distance, label, Null)} |->
  Then([counted \in {Read(count_touching_neighbors(Cleared(touch, Ret(touch)), Ret(touch),
                                     vector, TRUE))} |->
  Then([nearest \in {Read(minimum_distance_touching_neighbors(counted, Ret(distance), Ret(touch),
                                                vector))} |->
  Then([average \in {Read(mean_distance_touching_neighbors(nearest, Ret(distance), Ret(touch),
                                             vector))} |->
  Then([farthest \in {Read(maximum_distance_touching_neighbors(average, Ret(distance), Ret(touch),
                                                vector))} |->
  Return(farthest, Ret(distance))])])])])])])])

Borders(m, label, vector, nb_labels) ==
  LET Read(n) == ReadVector(n, vector, nb_labels)
  IN Then([count \in {generate_touching_area_matrix(m, label, Null)} |->
  Then([portion \in {generate_partial_touching_area_matrix(count, label, Null)} |->
  Then([bare \in {Cleared(Cleared(portion, Ret(count)), Ret(portion))} |->
  Then([high \in {replace_intensity(maximum_of_all_pixels(bare, Ret(count)), Ret(count), Null)} |->
  Then([temp \in {nan_to_num(high, Ret(portion), Null)} |->
  Then([high_portion \in
          {replace_intensity(maximum_of_all_pixels(temp, Ret(temp)), Ret(temp), Null)} |->
  Then([summed \in {Read(sum_y_projection(high_portion, Ret(count), vector, FALSE))} |->
  Then([least \in {Read(minimum_y_projection(summed, Ret(high), vector, FALSE))} |->
  Then([most \in {Read(maximum_y_projection(least, Ret(count), vector, FALSE))} |->
  Then([least_portion \in {Read(minimum_y_projection(most, Ret(high_portion), vector, FALSE))} |->
  Then([most_portion \in
          {Read(maximum_y_projection(least_portion, Ret(portion), vector, FALSE))} |->
  [most_portion EXCEPT !.ret = <<Ret(portion)>>]])])])])])])])])])])])

\* proximal, nearest: how many ranges and neighbour counts are asked for; radii: by how
\* much the labels are dilated.  (The thresholds are counted before the sums over borders;
\* neither writes what the other reads.)
compute_neighbors_statistics_per_labels(m, label, proximal, nearest, radii) ==
  LET nb_labels == m.host + 1
  IN Then([v \in {Create(maximum_of_all_pixels(m, label), <<nb_labels, 1, 1>>, 1, "FLOAT")} |->
  LET vector == Ret(v)
      Read(n) == ReadVector(n, vector, nb_labels)
      ReadOwn(n) == ReadVector(n, Ret(n), nb_labels)
  IN Then([touching \in {Touching(v, label, vector, nb_labels)} |->
  LET distance == Ret(touching)
  IN Then([ranges \in {FoldLeft(LAMBDA n, range_ :
             Then([near \in {generate_proximal_neighbors_matrix(n, distance, Null)} |->
             Read(count_touching_neighbors(near, Ret(near), vector, TRUE))]),
           touching, [d \in 1..proximal |-> d])} |->
  Then([far \in {copy(ranges, distance, Null)} |->
  Then([self_far \in {set_where_x_equals_y(maximum_of_all_pixels(far, distance), Ret(far))} |->
  Then([near \in {FoldLeft(LAMBDA n, k :
          Then([farthest \in {ReadOwn(maximum_distance_n_nearest_neighbors(n, Ret(far), Null))} |->
          ReadOwn(mean_distance_n_nearest_neighbors(farthest, Ret(far), Null))]),
        self_far, [k \in 1..nearest |-> k])} |->
  Then([distant \in {Read(mean_distance_n_farthest_neighbors(near, Ret(far), vector))} |->
  Then([borders \in {Borders(distant, label, vector, nb_labels)} |->
  Then([thresholds \in {FoldLeft(LAMBDA n, threshold :
          Then([within \in
                  {generate_partial_touching_area_matrix_within_range(n, Ret(borders), Null)} |->
          Read(count_touching_neighbors(within, Ret(within), vector, TRUE))]),
        borders, <<1, 2, 3, 4, 5, 6>>)} |->
  Then([spread \in
          {Read(standard_deviation_partial_touching_area_matrix(thresholds, label, vector))} |->
  Return(FoldLeft(LAMBDA n, r :
            Then([dilated \in {dilate_labels(n, label, Null, r)} |->
            Then([touched \in {Touching(dilated, Ret(dilated), vector, nb_labels)} |->
            Borders(touched, Ret(dilated), vector, nb_labels)])]),
          spread, radii), Null)])])])])])])])])])])

labels_neighbors_statistics(m, label, proximal, nearest, radii) ==
  compute_neighbors_statistics_per_labels(m, label, proximal, nearest, radii)
statistics_of_labelled_neighbors(m, label, proximal, nearest, radii) ==
  labels_neighbors_statistics(m, label, proximal, nearest, radii)

\* tier4/parametrics_map.cpp
touching_neighbor_count_map(m, labels, dst) ==
  parametric_map(labels_neighbors_statistics(m, labels, 0, 0, <<>>), labels, dst, TRUE)

=============================================================================
